---------------------------- MODULE BatchSystem ----------------------------
(***************************************************************************)
(* One batch, end to end: the orchestrator with its activities             *)
(* (BatchOrchestrator), result intake (ResultIntake), and between them the *)
(* external scoring engine, which takes messages off engine-runs and       *)
(* reports results on engine-results or by PATCH /runs/{run}.              *)
(*                                                                         *)
(* The two components share run-index/ (the dispatch activities write it,  *)
(* intake reads it), the external events of the instance (intake raises    *)
(* them, the orchestrator takes them) and whether the instance has ended.  *)
(* Each component's environment is the other one and the engine.           *)
(***************************************************************************)
EXTENDS Progress

CONSTANTS
    Handlers, NoMsg,
    Open,          \* "no outcome yet", "no handoff yet", for ScoringBatch
    MaxRestarts,   \* bound: dispatch activities run again
    MaxCrashes,    \* bound: intake invocations lost
    MaxRepeats     \* bound: engine reports whose run message is not completed

ASSUME RepeatsAssumption == MaxRepeats \in Nat
ASSUME OpenAssumption == Open \notin Statuses \cup [Runs -> Statuses]

VARIABLES
    pc, task, index, runQueue, raised, announced, collected, current, progress,
    seq, emitted, final, document, restarts,    \* as in BatchOrchestrator
    inbound, step, msg, claimed, crashes,       \* as in ResultIntake
    repeats                                     \* engine reports repeated

\* The orchestrator expects no run's event twice: MaxRaises is 1.
O == INSTANCE BatchOrchestrator WITH MaxRaises <- 1
I == INSTANCE ResultIntake WITH live <- pc \notin O!Ended, Forms <- {"canonical"}

\* What the components assume of their constants.
ASSUME FaultsAssumption == MaxRestarts \in Nat /\ MaxCrashes \in Nat
ASSUME HoldsNoMsgAssumption == NoMsg \notin I!Msgs

orchestratorOnly == <<pc, task, announced, collected, current, progress, seq,
                      emitted, final, document, restarts>>
intakeOnly == <<inbound, step, msg, claimed, crashes>>
vars == <<orchestratorOnly, runQueue, index, raised, intakeOnly, repeats>>

TypeOK ==
    /\ O!TypeOK
    /\ I!TypeOK
    /\ repeats \in 0 .. MaxRepeats

Init ==
    /\ O!Init
    /\ I!Init
    /\ repeats = 0

\* Activities, orchestrator, and termination by the client.
OrchestratorStep ==
    /\ O!BatchStep \/ O!Terminate
    /\ UNCHANGED <<intakeOnly, repeats>>

IntakeStep ==
    /\ UNCHANGED <<orchestratorOnly, runQueue, repeats>>
    /\ \/ \E h \in Handlers : I!HandlerStep(h)
       \/ \E m \in inbound : I!DropUnknown(m)

Result(r, s, v) == [run |-> r, status |-> s, via |-> v, form |-> "canonical"]

\* External: the engine reports a run and completes its message.
EngineAnswers(r) ==
    /\ O!TakeRun(r)
    /\ \E s \in Statuses, v \in I!Channels : I!Report(Result(r, s, v))
    /\ UNCHANGED repeats

\* External: it reports a run and is lost before it completes the message, or
\* reports it twice; the message is there again and so may another outcome be.
EngineRepeats(r) ==
    /\ r \in runQueue
    /\ repeats < MaxRepeats
    /\ repeats' = repeats + 1
    /\ UNCHANGED <<orchestratorOnly, runQueue>>
    /\ \E s \in Statuses, v \in I!Channels : I!Report(Result(r, s, v))

EngineStep == \E r \in Runs : EngineAnswers(r) \/ EngineRepeats(r)

Next == OrchestratorStep \/ IntakeStep \/ EngineStep

Spec == Init /\ [][Next]_vars

-----------------------------------------------------------------------------
(* Fairness: Durable re-runs the orchestrator and its activities until they *)
(* are done; the Functions host runs the triggers for as long as there are  *)
(* messages, and an invocation goes on to its end; the engine answers every *)
(* run it is sent.  Nobody has to terminate, fail, repeat or crash.         *)

DispatchAdvances(e) == O!DispatchAdvances(e) /\ UNCHANGED <<intakeOnly, repeats>>
OrchestratorAdvances == (O!Advance \/ O!WriteDocument) /\ UNCHANGED <<intakeOnly, repeats>>

IntakeAccepts ==
    /\ UNCHANGED <<orchestratorOnly, runQueue, repeats>>
    /\ \E h \in Handlers, m \in inbound : I!Accept(h, m)

HandlerAdvances(h) ==
    /\ UNCHANGED <<orchestratorOnly, runQueue, repeats>>
    /\ I!Claim(h) \/ I!Raise(h) \/ I!RaiseFails(h) \/ I!Ack(h)

Fairness ==
    /\ \A e \in Entries : WF_vars(DispatchAdvances(e))
    /\ WF_vars(OrchestratorAdvances)
    /\ WF_vars(IntakeAccepts)
    /\ \A h \in Handlers : WF_vars(HandlerAdvances(h))
    /\ \A r \in Runs : WF_vars(EngineAnswers(r))

FairSpec == Spec /\ Fairness

-----------------------------------------------------------------------------
(* What the composition promises.                                          *)

\* A message never outruns the index: whoever answers a run, and however early
\* in the life of its dispatch activity, intake can route the answer, so no
\* result of the batch is dropped as "not our message".
ResultsAreRoutable ==
    /\ runQueue \subseteq index
    /\ \A m \in inbound : m.run \in index

\* FR-005 ("preserve a single authoritative final outcome"): the handoff holds,
\* for every run, the one event that was raised for it, no matter how many
\* answers the engine gave, over which channels, with which statuses.
HandoffIsAuthoritative ==
    DistinctApps /\ document # O!NoDocument =>
        \A c \in Positions, i \in RunIdx :
            /\ Len(document[c][i]) = 1
            /\ document[c][i] = raised[<<CvApps[c], i>>]

\* Each component is the environment the other one was specified with: intake
\* raises every run's event at most once and on a running instance only, ...
OrchestratorSpec == O!Spec

\* ... and the orchestrator only ever adds to the index, and never reopens an
\* instance that has ended.
IntakeSpec == I!Spec

\* Every batch ends: "wait for every per-run result event raised by
\* result_intake", then aggregate and return.
BatchEnds == <>(pc \in O!Ended)

\* Every result of the batch is eventually taken, unless the batch ends first:
\* one the engine reports for a run leads to a result in the ledger.
ReportedIsCollected ==
    \A r \in Runs : (\E m \in inbound : m.run = r) ~> (collected[r] # <<>> \/ pc \in O!Ended)

-----------------------------------------------------------------------------
(* The refinement of the batch as clients think of it.                     *)

RunOutcome(r) == IF collected[r] = <<>> THEN Open ELSE collected[r][1]

HandedOff ==
    IF document = O!NoDocument THEN Open
    ELSE [r \in Runs |->
             LET e == FindApplicationRun(r) IN document[e[1]][e[2]][1]]

B == INSTANCE ScoringBatch WITH
        phase <- IF pc \in O!Ended THEN pc ELSE "open",
        outcome <- [r \in Runs |-> RunOutcome(r)],
        handoff <- HandedOff

\* The whole machinery implements ScoringBatch.
ImplementsScoringBatch == B!Spec
=============================================================================
