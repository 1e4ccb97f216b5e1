------------------------ MODULE Finalization_proofs ------------------------
(***************************************************************************)
(* The detailed finalize_batch implements the one step it is in            *)
(* BatchOrchestrator, for every list of CVs, every set of documents and    *)
(* any number of executions, lost reads and rewritten artifacts.  What was *)
(* proved of the orchestrator therefore holds with it in place.            *)
(***************************************************************************)
EXTENDS Finalization, BatchOrchestrator_proofs

\* The facts about an execution that the base specification's guards ask for.
FInv ==
    /\ final \in FinalStates
    /\ final # "none" => pc \in {"finalizing", "batchEvent"} \cup Ended
    /\ final = "written" => document = DocumentOf(collected)
    /\ exec # "none" => final # "none"
    /\ exec = "uploaded" => final \in {"written", "failed"}
    /\ returned # Nothing => final = "written"
    /\ final # "none" /\ ~Reported => pc \in {"finalizing", "terminated"}

\* The facts hold before finalize_batch is scheduled.
LEMMA FInvInit == FinalInit => FInv
BY DEF FinalInit, Init, FInv, FinalStates, Nothing, Reported

\* The orchestrator's other steps leave the executions alone.
LEMMA OrchestratorKeepsFInv ==
  ASSUME FInv, OrchestratorAdvances, UNCHANGED <<artifact, execVars, disturbances>>
  PROVE  FInv'
<1> USE DEF FInv, Ended, execVars, Reported, FinalStates
<1>1. CASE StagePrompt \/ StartCollecting \/ StageFails \/ Complete
  BY <1>1 DEF StagePrompt, StartCollecting, StageFails, Complete
<1>2. ASSUME NEW e \in Entries, Announce(e) PROVE FInv'
  BY <1>2 DEF Announce
<1>3. CASE AfterRunEvent
  BY <1>3 DEF AfterRunEvent, ContinueLoop
<1>4. CASE AfterAppEvent
  BY <1>4 DEF AfterAppEvent, ContinueLoop
<1>5. ASSUME NEW e \in Entries, DispatchAdvances(e) PROVE FInv'
  BY <1>5 DEF DispatchAdvances, WriteIndex, SendRun, ReportDispatch
<1>6. ASSUME NEW e \in Entries, DispatchFaults(e) PROVE FInv'
  BY <1>6 DEF DispatchFaults, RestartDispatch, DispatchFails
<1>7. CASE Environment
  BY <1>7 DEF Environment, ReceiveEvent, TakeRun, Terminate, ownVars
<1> QED
  BY <1>1, <1>2, <1>3, <1>4, <1>5, <1>6, <1>7 DEF OrchestratorAdvances

\* Every step keeps them.
LEMMA FInvIsInductive == FInv /\ [FinalNext]_finalVars => FInv'
<1> SUFFICES ASSUME FInv, [FinalNext]_finalVars PROVE FInv'
  OBVIOUS
<1> USE DEF FInv, Ended, Reported, FinalStates
<1>1. CASE BeginFinalize
  BY <1>1 DEF BeginFinalize, vars, ownVars
<1>2. CASE AggregateNext
  BY <1>2 DEF AggregateNext, vars, ownVars
<1>3. CASE UploadResult
  BY <1>3 DEF UploadResult, DocumentOf
<1>4. CASE ReportResult
  BY <1>4 DEF ReportResult, vars, ownVars
<1>5. CASE ReportFailure
  BY <1>5 DEF ReportFailure
<1>6. CASE ExecutionLost
  BY <1>6 DEF ExecutionLost, vars, ownVars
<1>7. CASE AfterReport
  BY <1>7 DEF AfterReport, AfterFinalize, execVars
<1>8. ASSUME NEW r \in Runs, CollectOutput(r) PROVE FInv'
  BY <1>8 DEF CollectOutput, Collect, execVars
<1>9. ASSUME NEW r \in Runs, NEW k \in DOMAIN collected[r], Rewrite(r, k) PROVE FInv'
  BY <1>9 DEF Rewrite, vars, ownVars, execVars
<1>10. CASE OrchestratorAdvances /\ UNCHANGED <<artifact, execVars, disturbances>>
  BY <1>10, OrchestratorKeepsFInv
<1>11. CASE UNCHANGED finalVars
  BY <1>11 DEF finalVars, vars, ownVars, execVars
<1> QED
  BY <1>1, <1>2, <1>3, <1>4, <1>5, <1>6, <1>7, <1>8, <1>9, <1>10, <1>11
     DEF FinalNext, FinalizeStep

-----------------------------------------------------------------------------

\* Every step of the detailed activity is a step of the orchestrator or none:
\* the first upload writes the document, one after a reported failure writes it
\* late, any other writes what is there.
LEMMA FinalStepRefines ==
  ASSUME FInv, [FinalNext]_finalVars
  PROVE  [Next]_vars
<1> USE DEF FInv
<1>1. CASE BeginFinalize \/ AggregateNext \/ ReportResult \/ ExecutionLost
  BY <1>1 DEF BeginFinalize, AggregateNext, ReportResult, ExecutionLost
<1>2. CASE UploadResult
  <2>1. final \in {"scheduled", "written", "failed"}
    BY <1>2 DEF UploadResult, FinalStates
  <2>2. CASE final = "scheduled"
    BY <1>2, <2>2 DEF UploadResult, WriteDocument, BatchStep, Next
  <2>3. CASE final = "failed"
    BY <1>2, <2>3 DEF UploadResult, WriteLateDocument, BatchStep, Next
  <2>4. CASE final = "written"
    BY <1>2, <2>4 DEF UploadResult, vars, ownVars
  <2> QED
    BY <2>1, <2>2, <2>3, <2>4
<1>3. CASE ReportFailure
  <2>1. CASE Reported
    BY <1>3, <2>1 DEF ReportFailure, vars, ownVars
  <2>2. CASE ~Reported
    <3>1. final \in {"scheduled", "written"}
      BY <1>3, <2>2 DEF ReportFailure, FinalStates, Reported
    <3>2. pc \in {"finalizing", "terminated"}
      BY <2>2, <3>1
    <3> QED
      BY <1>3, <2>2, <3>1, <3>2 DEF ReportFailure, FinalizeFails, BatchStep, Next
  <2> QED
    BY <2>1, <2>2
<1>4. CASE AfterReport
  BY <1>4 DEF AfterReport, Advance, BatchStep, Next
<1>5. ASSUME NEW r \in Runs, CollectOutput(r) PROVE [Next]_vars
  BY <1>5 DEF CollectOutput, Advance, BatchStep, Next
<1>6. ASSUME NEW r \in Runs, NEW k \in DOMAIN collected[r], Rewrite(r, k) PROVE [Next]_vars
  BY <1>6 DEF Rewrite
<1>7. CASE OrchestratorAdvances
  BY <1>7 DEF OrchestratorAdvances, Advance, BatchStep, Next
<1>8. CASE UNCHANGED finalVars
  BY <1>8 DEF finalVars
<1> QED
  BY <1>1, <1>2, <1>3, <1>4, <1>5, <1>6, <1>7, <1>8 DEF FinalNext, FinalizeStep

\* Reading, aggregating, uploading and reporting, in any number of executions,
\* implement the orchestrator that knows finalize_batch as one step.
THEOREM FinalizationRefines == FinalSpec => ImplementsOrchestrator
<1>1. FinalInit => Init
  BY DEF FinalInit
<1>2. FinalSpec => []FInv
  BY FInvInit, FInvIsInductive, PTL DEF FinalSpec
<1>3. FInv /\ [FinalNext]_finalVars => [Next]_vars
  BY FinalStepRefines
<1> QED
  BY <1>1, <1>2, <1>3, PTL DEF FinalSpec, ImplementsOrchestrator, Spec

\* With finalize_batch in detail, result.json still lists every result that was
\* taken, one for each wait.
THEOREM FinalDocumentIsLedger == FinalSpec => []DocumentIsLedger
BY FinalizationRefines, DocumentIsLedgerHolds, PTL DEF ImplementsOrchestrator
=============================================================================
