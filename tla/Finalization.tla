---------------------------- MODULE Finalization ----------------------------
(***************************************************************************)
(* finalize_batch in detail: BatchOrchestrator writes the document in one  *)
(* step; here an execution of the activity goes through the CVs, reads the *)
(* output.json artifacts of their succeeded runs, aggregates them, uploads *)
(* result.json and reports.  Reads that fail are swallowed.  Durable runs  *)
(* the activity at least once, one execution after the other: a worker     *)
(* lost before its report, or between its report and the end of the work   *)
(* item, has it run again from the start.  The orchestrator takes the      *)
(* first report; result.json is that of the last upload.                   *)
(*                                                                         *)
(* External: what an engine writes to its artifacts, and that it may write *)
(* one again later (the fake engine has one path per run, overwritten by   *)
(* every execution of the run).                                            *)
(***************************************************************************)
EXTENDS BatchOrchestrator, Aggregation

CONSTANTS
    Outputs,         \* documents an engine writes
    MaxExecutions,   \* bound: executions of finalize_batch
    MaxDisturbances  \* bound: reads of an artifact that fail, artifacts written again

ASSUME OutputsAssumption == Outputs \subseteq OutputDocs
ASSUME ExecutionsAssumption == MaxExecutions \in Nat /\ MaxDisturbances \in Nat

NoOutput == [score |-> NoScore, decision |-> "none", mustHaves |-> "none",
             status |-> "none"]

VARIABLES
    artifact,    \* per run and result taken, its output.json (NoOutput without one)
    exec,        \* the execution of finalize_batch
    blocks,      \* the aggregates it has computed, CV by CV (<<>> when none runs)
    stored,      \* the aggregates in result.json
    returned,    \* the aggregates in the report the orchestrator has
    executions,  \* executions of finalize_batch so far
    disturbances \* reads that failed and artifacts written again so far

execVars == <<exec, blocks, stored, returned, executions>>
finalVars == <<vars, artifact, execVars, disturbances>>

Nothing == <<>>

FinalTypeOK ==
    /\ artifact \in [Runs -> Seq(Outputs \cup {NoOutput})]
    /\ \A r \in Runs : Len(artifact[r]) = Len(collected[r])
    /\ exec \in {"none", "running", "uploaded"}
    /\ blocks \in Seq(AggregateDocs)
    /\ {stored, returned} \subseteq {Nothing} \cup [Positions -> AggregateDocs]
    /\ executions \in 0 .. MaxExecutions
    /\ disturbances \in 0 .. MaxDisturbances

FinalInit ==
    /\ Init
    /\ artifact = [r \in Runs |-> <<>>]
    /\ exec = "none"
    /\ blocks = <<>>
    /\ stored = Nothing
    /\ returned = Nothing
    /\ executions = 0
    /\ disturbances = 0

-----------------------------------------------------------------------------
(* finalize_batch.                                                         *)

\* The activity has reported its outcome to the orchestrator.
Reported == returned # Nothing \/ final = "failed"

\* An execution begins: the first one, or one that Durable runs again.
BeginFinalize ==
    /\ final # "none"
    /\ exec = "none"
    /\ executions < MaxExecutions
    /\ exec' = "running"
    /\ executions' = executions + 1
    /\ UNCHANGED <<vars, artifact, blocks, stored, returned, disturbances>>

\* by_app[application], each result as <<run index, k-th of the run>>.
ResultsOf(c) ==
    {x \in RunIdx \X (1 .. RunsTotal) : x[2] <= Len(collected[<<CvApps[c], x[1]>>])}
StatusOf(c, x) == collected[<<CvApps[c], x[1]>>][x[2]]
ArtifactOf(c, x) == artifact[<<CvApps[c], x[1]>>][x[2]]

Succeeded(c) == {x \in ResultsOf(c) : StatusOf(c, x) = "Succeeded"}

\* The documents of a set of results; that they are read in the order of the runs
\* makes no difference to any aggregate.
OutputsOf(c, results) == [x \in results |-> ArtifactOf(c, x)]

\* The next CV: _aggregate reads the artifacts of its succeeded runs, some of
\* the reads fail and their runs are left out.
AggregateNext ==
    LET c == Len(blocks) + 1
    IN  /\ exec = "running"
        /\ c \in Positions
        /\ \E lost \in SUBSET Succeeded(c) :
               /\ disturbances + Cardinality(lost) <= MaxDisturbances
               /\ disturbances' = disturbances + Cardinality(lost)
               /\ \E aggregated \in AggregateCvScoring(OutputsOf(c, Succeeded(c) \ lost)) :
                      blocks' = Append(blocks, aggregated)
        /\ UNCHANGED <<vars, artifact, exec, stored, returned, executions>>

\* Variant: result.json is uploaded inside the loop over the CVs.
UploadEarly ==
    /\ exec = "running"
    /\ blocks # <<>>
    /\ exec' = "uploaded"
    /\ stored' = blocks
    /\ document' = DocumentOf(collected)
    /\ final' = IF final = "scheduled" THEN "written" ELSE final
    /\ UNCHANGED <<pc, task, index, runQueue, raised, announced, collected, current,
                   progress, seq, emitted, restarts, artifact, blocks, returned,
                   executions, disturbances>>

\* Variant: the document lists the runs that succeeded.
UploadSucceeded ==
    /\ exec = "running"
    /\ Len(blocks) = Len(CvApps)
    /\ exec' = "uploaded"
    /\ stored' = blocks
    /\ document' = DocumentOf([r \in Runs |-> SelectSeq(collected[r], LAMBDA s : s = "Succeeded")])
    /\ final' = IF final = "scheduled" THEN "written" ELSE final
    /\ UNCHANGED <<pc, task, index, runQueue, raised, announced, collected, current,
                   progress, seq, emitted, restarts, artifact, blocks, returned,
                   executions, disturbances>>

\* result.json is uploaded (overwrite=True).
UploadResult ==
    /\ exec = "running"
    /\ Len(blocks) = Len(CvApps)
    /\ exec' = "uploaded"
    /\ stored' = blocks
    /\ document' = DocumentOf(collected)
    /\ final' = IF final = "scheduled" THEN "written" ELSE final
    /\ UNCHANGED <<pc, task, index, runQueue, raised, announced, collected, current,
                   progress, seq, emitted, restarts, artifact, blocks, returned,
                   executions, disturbances>>

\* The execution returns result_doc; a later report than the first is dropped.
ReportResult ==
    /\ exec = "uploaded"
    /\ exec' = "none"
    /\ blocks' = <<>>
    /\ returned' = IF Reported THEN returned ELSE blocks
    /\ UNCHANGED <<vars, artifact, stored, executions, disturbances>>

\* It raises before the upload is done, and reports that.
ReportFailure ==
    /\ exec = "running"
    /\ exec' = "none"
    /\ blocks' = <<>>
    /\ IF Reported THEN UNCHANGED <<final, pc>>
       ELSE /\ final' = "failed"
            /\ pc' = IF pc = "finalizing" THEN "failed" ELSE pc
    /\ UNCHANGED <<task, index, runQueue, raised, announced, collected, current, progress,
                   seq, emitted, document, restarts, artifact, stored, returned,
                   executions, disturbances>>

\* The worker is lost in between.
ExecutionLost ==
    /\ exec # "none"
    /\ exec' = "none"
    /\ blocks' = <<>>
    /\ UNCHANGED <<vars, artifact, stored, returned, executions, disturbances>>

\* finalize_batch reported: the orchestrator goes on.
AfterReport ==
    /\ returned # Nothing
    /\ AfterFinalize
    /\ UNCHANGED <<artifact, execVars, disturbances>>

FinalizeStep ==
    \/ BeginFinalize
    \/ AggregateNext
    \/ UploadResult
    \/ ReportResult
    \/ ReportFailure
    \/ ExecutionLost
    \/ AfterReport

-----------------------------------------------------------------------------
(* The results, the engine, and the rest of the orchestrator as it was.    *)

\* The orchestrator takes a result: the engine had written its output, and none
\* for a run that failed.
CollectOutput(r) ==
    /\ Collect(r)
    /\ \E o \in IF collected'[r][Len(collected'[r])] = "Succeeded" THEN Outputs ELSE {NoOutput} :
           artifact' = [artifact EXCEPT ![r] = Append(@, o)]
    /\ UNCHANGED <<execVars, disturbances>>

\* A later execution of the run overwrites the output of an earlier one; before
\* finalize_batch is there to read it, it makes no difference.
Rewrite(r, k) ==
    /\ final # "none"
    /\ disturbances < MaxDisturbances
    /\ disturbances' = disturbances + 1
    /\ collected[r][k] = "Succeeded"
    /\ \E o \in Outputs \ {artifact[r][k]} : artifact' = [artifact EXCEPT ![r][k] = o]
    /\ UNCHANGED <<vars, execVars>>

OrchestratorAdvances ==
    \/ StagePrompt
    \/ \E e \in Entries : Announce(e)
    \/ StartCollecting
    \/ AfterRunEvent
    \/ AfterAppEvent
    \/ Complete
    \/ StageFails
    \/ \E e \in Entries : DispatchAdvances(e) \/ DispatchFaults(e)
    \/ Environment

FinalNext ==
    \/ FinalizeStep
    \/ \E r \in Runs : CollectOutput(r) \/ \E k \in DOMAIN collected[r] : Rewrite(r, k)
    \/ OrchestratorAdvances /\ UNCHANGED <<artifact, execVars, disturbances>>

FinalSpec == FinalInit /\ [][FinalNext]_finalVars

-----------------------------------------------------------------------------
(* What the handoff promises about the aggregates.                          *)

\* Nothing has come between the executions of finalize_batch.
Undisturbed == disturbances = 0

\* The results of a CV that have a say: succeeded, with a document that gives a
\* signal.
Evidence(c) == {x \in Succeeded(c) : HasSignal(ArtifactOf(c, x))}
Scored(c) == {x \in Evidence(c) : ScoreOf(ArtifactOf(c, x)) >= 0}
ScoreAt(c, x) == ScoreOf(ArtifactOf(c, x))

\* m is the n-th smallest score of the CV, found by counting.
IsNthScore(c, m, n) ==
    /\ Cardinality({x \in Scored(c) : ScoreAt(c, x) < m}) < n
    /\ Cardinality({x \in Scored(c) : ScoreAt(c, x) <= m}) >= n

Deciding(c, d) == Cardinality({x \in Evidence(c) : DecisionOf(ArtifactOf(c, x)) = d})

\* "median of overall_score, mode of derived decisions, and mustHaveResult = AND
\* of all per-run must-have outcomes" (_aggregate), said of the results in the
\* orchestrator's ledger, whatever the order they came in: a run that failed has
\* no say, a CV without evidence has no aggregate, half of the scores lie on
\* either side of finalScore, no decision is more frequent than finalDecision,
\* and under lost reads an aggregate still rests on succeeded runs alone.
AggregateIsOfLedger ==
    \A c \in DOMAIN blocks :
        LET n == Cardinality(Scored(c))
            block == blocks[c]
        IN  /\ block.runsCount <= Cardinality(Succeeded(c))
            /\ Undisturbed =>
                   /\ block.runsCount = Cardinality(Evidence(c))
                   /\ (block = NoAggregate) <=> (Evidence(c) = {})
                   /\ (block.finalScore = NoScore) <=> (n = 0)
                   /\ n > 0 =>
                         \E x, y \in Scored(c) :
                             /\ IsNthScore(c, ScoreAt(c, x), (n + 1) \div 2)
                             /\ IsNthScore(c, ScoreAt(c, y), n \div 2 + 1)
                             /\ block.finalScore = ScoreAt(c, x) + ScoreAt(c, y)
                   /\ Evidence(c) # {} =>
                         /\ block.mustHaveResult =
                               ~\E x \in Evidence(c) : ~MustAllMet(ArtifactOf(c, x))
                         /\ \A d \in Decisions : Deciding(c, d) <= Deciding(c, block.finalDecision)

\* As many results of the CV approve as reject.
Tied(c) == Evidence(c) # {} /\ Deciding(c, "Approve") = Deciding(c, "Reject")

\* The status route answers from what the instance returned and, once that is
\* purged, from result.json.  Executions of finalize_batch after the one that
\* reported overwrite the blob: the two agree as long as no read was lost, no
\* artifact written again, and no CV tied.
HandoffAgrees ==
    returned # Nothing /\ Undisturbed /\ ~(\E c \in Positions : Tied(c)) => stored = returned

\* All of this is the one step WriteDocument of the orchestrator's specification,
\* or its failure, or nothing: the runs part of the document is the same in every
\* execution, however many there are, and the orchestrator goes on only after it.
ImplementsOrchestrator == Spec
=============================================================================
