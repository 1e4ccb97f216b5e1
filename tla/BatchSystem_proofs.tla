------------------------- MODULE BatchSystem_proofs -------------------------
(***************************************************************************)
(* Proofs about one batch end to end, for every list of CVs, set of        *)
(* statuses, number of concurrent invocations and bound on faults: each    *)
(* component is run in the environment it was specified with, hence what   *)
(* was proved of it holds here, and together they implement ScoringBatch.  *)
(***************************************************************************)
EXTENDS BatchSystem, TLAPS

\* The components again, with what was proved about them.
OP == INSTANCE BatchOrchestrator_proofs WITH MaxRaises <- 1
IP == INSTANCE ResultIntake_proofs WITH live <- pc \notin O!Ended, Forms <- {"canonical"}

\* What the components assume of their constants holds.
LEMMA ComponentAssumptions ==
  /\ OP!CvsAssumption /\ OP!RunCountAssumption /\ OP!BoundsAssumption
  /\ IP!NoMsgAssumption /\ IP!CrashAssumption
BY CvsAssumption, RunCountAssumption, FaultsAssumption, HoldsNoMsgAssumption
   DEF I!Msgs, IP!Msgs, I!Channels, IP!Channels

-----------------------------------------------------------------------------
(* The two instances of a component are one.                               *)

\* The names that BatchSystem has from Progress and from the orchestrator.
LEMMA SameBatch ==
  /\ O!Positions = Positions /\ OP!Positions = Positions
  /\ O!RunIdx = RunIdx /\ OP!RunIdx = RunIdx
  /\ O!Entries = Entries /\ OP!Entries = Entries
  /\ O!Runs = Runs /\ OP!Runs = Runs
  /\ \A e : O!RunId(e) = RunId(e) /\ OP!RunId(e) = RunId(e)
  /\ O!Ended = {"completed", "failed", "terminated"} /\ OP!Ended = O!Ended
  /\ O!NoDocument = <<>> /\ OP!NoDocument = <<>>
BY DEF O!Positions, OP!Positions, Positions, O!RunIdx, OP!RunIdx, RunIdx, O!Entries,
       OP!Entries, Entries, O!Runs, OP!Runs, Runs, O!RunId, OP!RunId, RunId, O!Ended,
       OP!Ended, O!NoDocument, OP!NoDocument

\* Result intake.
LEMMA SameIntake == I!Spec <=> IP!Spec
<1>1. I!Init <=> IP!Init
  BY DEF I!Init, IP!Init
<1>2. I!Next <=> IP!Next
  BY Zenon
     DEF I!Next, IP!Next, I!Environment, IP!Environment, I!IndexRun, IP!IndexRun, I!Report,
         IP!Report, I!InstanceEnds, IP!InstanceEnds, I!Msgs, IP!Msgs, I!Channels, IP!Channels,
         I!HandlerStep, IP!HandlerStep, I!Accept, IP!Accept, I!Claim, IP!Claim, I!Raise,
         IP!Raise, I!RaiseFails, IP!RaiseFails, I!RaiseThrows, IP!RaiseThrows, I!Ack, IP!Ack,
         I!Crash, IP!Crash, I!InvocationLost, IP!InvocationLost, I!Release, IP!Release,
         I!Undelivered, IP!Undelivered, I!Validates, IP!Validates, I!DropUnknown,
         IP!DropUnknown, I!intakeVars, IP!intakeVars
<1>3. [I!Next]_I!vars <=> [IP!Next]_IP!vars
  BY <1>2 DEF I!vars, IP!vars
<1> QED
  BY <1>1, <1>3, PTL DEF I!Spec, IP!Spec

\* The orchestrator.
LEMMA SameOrchestrator == O!Spec <=> OP!Spec
<1> USE DEF O!Positions, OP!Positions, O!RunIdx, OP!RunIdx, O!Entries, OP!Entries, O!RunId,
            OP!RunId, O!Runs, OP!Runs, O!Ended, OP!Ended, O!ownVars, OP!ownVars
<1>1. O!Init <=> OP!Init
  BY DEF O!Init, OP!Init, O!InitialProgress, OP!InitialProgress, O!NoDocument, OP!NoDocument
<1>a. \A S : O!Cardinality(S) = OP!Cardinality(S)
  BY Zenon DEF O!Cardinality, OP!Cardinality
<1>2. \A r : O!Pending(r) <=> OP!Pending(r)
  <2>1. \A r : O!Waits(r) = OP!Waits(r)
    BY <1>a, Zenon DEF O!Waits, OP!Waits
  <2> QED
    BY <2>1, Zenon DEF O!Pending, OP!Pending
<1>3. O!ContinueLoop <=> OP!ContinueLoop
  BY <1>2 DEF O!ContinueLoop, OP!ContinueLoop
<1>4. \A p, c : O!IsApplicationTerminal(p, c) <=> OP!IsApplicationTerminal(p, c)
  BY DEF O!IsApplicationTerminal, OP!IsApplicationTerminal, O!IsTerminalRunStatus,
         OP!IsTerminalRunStatus, O!StatusKey, OP!StatusKey
<1>5. \A r : O!FindApplicationRun(r) = OP!FindApplicationRun(r)
  BY Zenon DEF O!FindApplicationRun, OP!FindApplicationRun
<1>6. \A p, r : O!RecordDispatchedRun(p, r) = OP!RecordDispatchedRun(p, r)
  BY <1>5, Zenon DEF O!RecordDispatchedRun, OP!RecordDispatchedRun
<1>7. \A p, r, s : O!RecordRunResult(p, r, s) = OP!RecordRunResult(p, r, s)
  <2>1. \A S : O!SummarizeApplicationStatus(S) = OP!SummarizeApplicationStatus(S)
    BY Zenon DEF O!SummarizeApplicationStatus, OP!SummarizeApplicationStatus,
                 O!StatusKey, OP!StatusKey
  <2>2. \A q : O!CompletedIds(q) = OP!CompletedIds(q)
    BY <1>4, Zenon DEF O!CompletedIds, OP!CompletedIds
  <2>3. \A t : O!IsTerminalRunStatus(t) <=> OP!IsTerminalRunStatus(t)
    BY DEF O!IsTerminalRunStatus, OP!IsTerminalRunStatus, O!StatusKey, OP!StatusKey
  <2> TAKE p, r, s
  <2> DEFINE e == O!FindApplicationRun(r)
             f == OP!FindApplicationRun(r)
             Run(x) == [p.run EXCEPT ![x] = s]
             Q(x) == [p EXCEPT !.run = Run(x), !.runsCompleted = @ + 1,
                               !.appRunsCompleted[x[1]] = @ + 1,
                               !.app[x[1]] = O!SummarizeApplicationStatus(
                                                 {Run(x)[<<x[1], i>>] : i \in O!RunIdx}),
                               !.status = "running"]
             QP(x) == [p EXCEPT !.run = Run(x), !.runsCompleted = @ + 1,
                                !.appRunsCompleted[x[1]] = @ + 1,
                                !.app[x[1]] = OP!SummarizeApplicationStatus(
                                                  {Run(x)[<<x[1], i>>] : i \in OP!RunIdx}),
                                !.status = "running"]
  <2>4. O!RecordRunResult(p, r, s)
          = IF O!IsTerminalRunStatus(p.run[e]) THEN p
            ELSE IF O!IsApplicationTerminal(Q(e), e[1])
                 THEN [Q(e) EXCEPT !.cvsCompleted = O!Cardinality(O!CompletedIds(Q(e)))]
                 ELSE Q(e)
    BY Zenon DEF O!RecordRunResult
  <2>5. OP!RecordRunResult(p, r, s)
          = IF OP!IsTerminalRunStatus(p.run[f]) THEN p
            ELSE IF OP!IsApplicationTerminal(QP(f), f[1])
                 THEN [QP(f) EXCEPT !.cvsCompleted = OP!Cardinality(OP!CompletedIds(QP(f)))]
                 ELSE QP(f)
    BY Zenon DEF OP!RecordRunResult
  <2>6. e = f
    BY <1>5, Zenon
  <2>7. Q(f) = QP(f)
    BY <2>1, Zenon
  <2> HIDE DEF Q, QP, e, f
  <2> QED
    BY <1>a, <1>4, <2>2, <2>3, <2>4, <2>5, <2>6, <2>7
<1>8. \A a : O!FindApplication(a) = OP!FindApplication(a)
  BY Zenon DEF O!FindApplication, OP!FindApplication
<1>9. \A r : O!Collect(r) <=> OP!Collect(r)
  BY <1>2, <1>7, Zenon DEF O!Collect, OP!Collect
<1>10. O!AfterRunEvent <=> OP!AfterRunEvent
  BY <1>3, <1>4, <1>8 DEF O!AfterRunEvent, OP!AfterRunEvent
<1>11. O!AfterAppEvent <=> OP!AfterAppEvent
  BY <1>3 DEF O!AfterAppEvent, OP!AfterAppEvent
<1>12. \A e : O!Announce(e) <=> OP!Announce(e)
  BY <1>6 DEF O!Announce, OP!Announce, O!NextToAnnounce, OP!NextToAnnounce
<1>13. O!AfterFinalize <=> OP!AfterFinalize
  BY Zenon DEF O!AfterFinalize, OP!AfterFinalize, O!IsCancelledBatch, OP!IsCancelledBatch,
               O!StatusKey, OP!StatusKey
<1>14. O!Advance <=> OP!Advance
  BY <1>9, <1>10, <1>11, <1>12, <1>13
     DEF O!Advance, OP!Advance, O!StagePrompt, OP!StagePrompt, O!StartCollecting,
         OP!StartCollecting, O!Complete, OP!Complete
<1>15. \A e : /\ O!DispatchAdvances(e) <=> OP!DispatchAdvances(e)
              /\ O!DispatchFaults(e) <=> OP!DispatchFaults(e)
  BY Zenon
     DEF O!DispatchAdvances, OP!DispatchAdvances, O!DispatchFaults, OP!DispatchFaults,
         O!WriteIndex, OP!WriteIndex, O!SendRun, OP!SendRun, O!ReportDispatch,
         OP!ReportDispatch, O!RestartDispatch, OP!RestartDispatch, O!DispatchFails,
         OP!DispatchFails
<1>16. O!BatchStep <=> OP!BatchStep
  BY <1>14, <1>15
     DEF O!BatchStep, OP!BatchStep, O!WriteDocument, OP!WriteDocument, O!WriteLateDocument,
         OP!WriteLateDocument, O!DocumentOf, OP!DocumentOf, O!StageFails, OP!StageFails,
         O!FinalizeFails, OP!FinalizeFails
<1>17. O!Environment <=> OP!Environment
  BY Zenon
     DEF O!Environment, OP!Environment, O!ReceiveEvent, OP!ReceiveEvent, O!TakeRun,
         OP!TakeRun, O!Terminate, OP!Terminate
<1>18. [O!Next]_O!vars <=> [OP!Next]_OP!vars
  BY <1>16, <1>17 DEF O!Next, OP!Next, O!vars, OP!vars
<1> QED
  BY <1>1, <1>18, PTL DEF O!Spec, OP!Spec

-----------------------------------------------------------------------------
(* The orchestrator as the environment of result intake.                   *)

\* What intake sees of a step of the orchestrator: at most one index blob more,
\* the instance ended for good, and no events.
LEMMA BatchStepForIntake ==
  ASSUME O!BatchStep \/ O!Terminate
  PROVE  /\ raised' = raised
         /\ \/ index' = index
            \/ pc' = pc /\ \E r \in Runs : index' = index \cup {r}
         /\ pc \in O!Ended => pc' = pc
<1>1. ASSUME NEW e \in O!Entries, O!WriteIndex(e)
      PROVE  raised' = raised /\ pc' = pc /\ \E r \in Runs : index' = index \cup {r}
  <2>1. O!RunId(e) \in Runs
    BY SameBatch DEF O!Runs
  <2> QED
    BY <1>1, <2>1 DEF O!WriteIndex
<1>2. CASE \E e \in O!Entries : O!WriteIndex(e)
  BY <1>1, <1>2
<1>3. CASE O!AfterRunEvent \/ O!AfterAppEvent
  BY <1>3 DEF O!AfterRunEvent, O!AfterAppEvent, O!Ended
<1>4. CASE ~\E e \in O!Entries : O!WriteIndex(e)
  BY <1>3, <1>4
     DEF O!BatchStep, O!Advance, O!DispatchAdvances, O!DispatchFaults, O!SendRun,
         O!ReportDispatch, O!RestartDispatch, O!DispatchFails, O!StagePrompt, O!StageFails,
         O!Announce, O!StartCollecting, O!Collect, O!WriteDocument, O!WriteLateDocument,
         O!FinalizeFails, O!AfterFinalize, O!Complete, O!Terminate, O!Ended
<1> QED
  BY <1>2, <1>4

\* An answer of the engine is a result of the kind intake expects.
LEMMA ResultIsMsg ==
  ASSUME NEW r \in Runs, NEW s \in Statuses, NEW v \in I!Channels
  PROVE  Result(r, s, v) \in I!Msgs /\ Result(r, s, v).run = r
BY DEF Result, I!Msgs

\* Every step of the system is a step of intake or of its environment.
LEMMA SystemStepForIntake == [Next]_vars => [I!Next]_I!vars
<1> SUFFICES ASSUME [Next]_vars PROVE [I!Next]_I!vars
  OBVIOUS
<1>1. CASE OrchestratorStep
  <2>1. /\ UNCHANGED intakeOnly
        /\ raised' = raised
        /\ \/ index' = index
           \/ pc' = pc /\ \E r \in Runs : index' = index \cup {r}
        /\ pc \in O!Ended => pc' = pc
    BY <1>1, BatchStepForIntake DEF OrchestratorStep
  <2>2. CASE index' # index
    <3>1. PICK r \in Runs : pc' = pc /\ index' = index \cup {r}
      BY <2>1, <2>2
    <3>2. I!IndexRun(r)
      BY <2>1, <3>1 DEF I!IndexRun, I!intakeVars, intakeOnly
    <3> QED
      BY <3>2 DEF I!Next, I!Environment
  <2>3. CASE index' = index /\ pc \notin O!Ended /\ pc' \in O!Ended
    BY <2>1, <2>3, SameBatch
       DEF I!Next, I!Environment, I!InstanceEnds, I!intakeVars, intakeOnly
  <2>4. CASE index' = index /\ (pc \in O!Ended <=> pc' \in O!Ended)
    BY <2>1, <2>4 DEF I!vars, intakeOnly
  <2> QED
    BY <2>1, <2>2, <2>3, <2>4
<1>2. CASE IntakeStep
  BY <1>2 DEF IntakeStep, I!Next
<1>3. ASSUME NEW r \in Runs, EngineAnswers(r) \/ EngineRepeats(r) PROVE I!Next
  <2>1. PICK s \in Statuses, v \in I!Channels : I!Report(Result(r, s, v))
    BY <1>3 DEF EngineAnswers, EngineRepeats
  <2> QED
    BY <2>1, ResultIsMsg DEF I!Next, I!Environment
<1>4. CASE UNCHANGED vars
  BY <1>4 DEF vars, orchestratorOnly, intakeOnly, I!vars
<1> QED
  BY <1>1, <1>2, <1>3, <1>4 DEF Next, EngineStep

\* The orchestrator and the engine are the environment that result intake was
\* specified with: the index only grows, an ended instance is not reopened, and
\* nobody but intake raises events.
THEOREM IntakeSpecHolds == Spec => IntakeSpec
<1>1. Init => I!Init
  BY DEF Init
<1> QED
  BY <1>1, SystemStepForIntake, PTL DEF Spec, IntakeSpec, I!Spec

\* Hence what was proved of intake holds in the system.
LEMMA IntakeInvariantInSystem == Spec => []IP!Inv
BY IntakeSpecHolds, SameIntake, ComponentAssumptions, IP!IntakeInvariant, PTL DEF IntakeSpec

-----------------------------------------------------------------------------
(* Result intake and the engine as the environment of the orchestrator.    *)

\* An event that intake raises is the first of its run, on a running instance.
LEMMA RaiseIsReceived ==
  ASSUME IP!Inv, NEW h \in Handlers, I!Raise(h), UNCHANGED <<orchestratorOnly, runQueue>>
  PROVE  \E r \in Runs, s \in Statuses : O!ReceiveEvent(r, s)
<1> DEFINE r == msg[h].run
           s == msg[h].status
<1>1. r \in Runs /\ s \in Statuses
  BY DEF I!Raise, IP!Inv, IP!BusyHoldsResult, IP!Msgs
<1>2. raised[r] = <<>> /\ Len(raised[r]) < 1
  BY DEF I!Raise, IP!Inv, IP!ClaimIsExclusive
<1>3. /\ pc \notin O!Ended
      /\ raised' = [raised EXCEPT ![r] = Append(@, s)]
      /\ UNCHANGED index
  BY DEF I!Raise
<1>4. O!ReceiveEvent(r, s)
  BY <1>2, <1>3 DEF O!ReceiveEvent, O!ownVars, orchestratorOnly
<1> QED
  BY <1>1, <1>4

\* Every step of the system is a step of the orchestrator or of its environment.
LEMMA SystemStepForOrchestrator == IP!Inv /\ [Next]_vars => [O!Next]_O!vars
<1> SUFFICES ASSUME IP!Inv, [Next]_vars PROVE [O!Next]_O!vars
  OBVIOUS
<1>1. CASE OrchestratorStep
  BY <1>1 DEF OrchestratorStep, O!Next, O!Environment
<1>2. CASE IntakeStep
  <2>1. UNCHANGED <<orchestratorOnly, runQueue>>
    BY <1>2 DEF IntakeStep
  <2>2. ASSUME NEW h \in Handlers, I!Raise(h) PROVE O!Next
    BY <2>1, <2>2, RaiseIsReceived, SameBatch DEF O!Next, O!Environment
  <2>3. CASE UNCHANGED <<index, raised>>
    BY <2>1, <2>3 DEF O!vars, O!ownVars, orchestratorOnly
  <2> QED
    BY <1>2, <2>2, <2>3
       DEF IntakeStep, I!HandlerStep, I!Accept, I!Claim, I!RaiseFails, I!RaiseThrows, I!Ack,
           I!Crash, I!InvocationLost, I!DropUnknown
<1>3. ASSUME NEW r \in Runs, EngineAnswers(r) PROVE O!Next
  BY <1>3, SameBatch DEF EngineAnswers, O!Next, O!Environment
<1>4. ASSUME NEW r \in Runs, EngineRepeats(r) PROVE UNCHANGED O!vars
  BY <1>4 DEF EngineRepeats, I!Report, O!vars, O!ownVars, orchestratorOnly
<1>5. CASE UNCHANGED vars
  BY <1>5 DEF vars, orchestratorOnly, O!vars, O!ownVars
<1> QED
  BY <1>1, <1>2, <1>3, <1>4, <1>5 DEF Next, EngineStep

\* Intake and the engine are the environment that the orchestrator was specified
\* with: at most one event is raised for a run, on a running instance, however
\* often and over whichever channels the run is answered.
THEOREM OrchestratorSpecHolds == Spec => OrchestratorSpec
<1>1. Init => O!Init
  BY DEF Init
<1> QED
  BY <1>1, SystemStepForOrchestrator, IntakeInvariantInSystem, PTL
     DEF Spec, OrchestratorSpec, O!Spec

\* Hence what was proved of the orchestrator holds in the system.
LEMMA OrchestratorInvariantInSystem == Spec => []OP!OInv
BY OrchestratorSpecHolds, SameOrchestrator, ComponentAssumptions, OP!OrchestratorInvariant, PTL
   DEF OrchestratorSpec

-----------------------------------------------------------------------------
(* Safety of the system.                                                   *)

\* The engine's bound is kept.
LEMMA RepeatsType == Spec => [](repeats \in 0 .. MaxRepeats)
<1>1. Init => repeats \in 0 .. MaxRepeats
  BY RepeatsAssumption DEF Init
<1>2. repeats \in 0 .. MaxRepeats /\ [Next]_vars => (repeats \in 0 .. MaxRepeats)'
  BY RepeatsAssumption
     DEF Next, OrchestratorStep, IntakeStep, EngineStep, EngineAnswers, EngineRepeats, vars
<1> QED
  BY <1>1, <1>2, PTL DEF Spec

\* Type correctness of the system.
THEOREM SystemTypeOK == Spec => []TypeOK
<1>1. OP!OInv => O!TypeOK
  BY DEF OP!OInv, OP!TypeOK, O!TypeOK, O!Phases, OP!Phases, O!Ended, OP!Ended, O!TaskStates,
         OP!TaskStates, O!FinalStates, OP!FinalStates, O!ProgressDoc, OP!ProgressDoc,
         O!RunStates, OP!RunStates, O!AppStates, OP!AppStates, O!BatchStates, OP!BatchStates,
         O!Entries, OP!Entries, O!Positions, OP!Positions, O!RunIdx, OP!RunIdx, O!Runs,
         OP!Runs, O!RunId, OP!RunId, O!NoDocument, OP!NoDocument
<1>2. IP!Inv => I!TypeOK
  BY DEF IP!Inv, IP!TypeOK, I!TypeOK, I!Msgs, IP!Msgs, I!Channels, IP!Channels, I!Steps,
         IP!Steps
<1>3. OP!OInv /\ IP!Inv /\ repeats \in 0 .. MaxRepeats => TypeOK
  BY <1>1, <1>2 DEF TypeOK
<1> QED
  BY <1>3, OrchestratorInvariantInSystem, IntakeInvariantInSystem, RepeatsType, PTL

\* A run is answered after its message was sent, and that after its index blob was
\* written; no blob is ever deleted, whatever is repeated meanwhile.  So intake can
\* route every answer of the engine.
THEOREM ResultsAreRoutableHolds == Spec => []ResultsAreRoutable
<1>1. Init => ResultsAreRoutable
  BY DEF Init, O!Init, I!Init, ResultsAreRoutable
<1>2. OP!OInv' /\ ResultsAreRoutable /\ [Next]_vars => ResultsAreRoutable'
  <2> SUFFICES ASSUME OP!OInv', ResultsAreRoutable, [Next]_vars PROVE ResultsAreRoutable'
    OBVIOUS
  <2>1. runQueue' \subseteq index'
    BY DEF OP!OInv, OP!IndexBeforeMessage
  <2>2. index \subseteq index'
    BY SystemStepForIntake
       DEF I!Next, I!Environment, I!IndexRun, I!Report, I!InstanceEnds, I!DropUnknown,
           I!HandlerStep, I!Accept, I!Claim, I!Raise, I!RaiseFails, I!RaiseThrows, I!Ack,
           I!Crash, I!InvocationLost, I!vars
  <2>3. ASSUME NEW m \in inbound' PROVE m \in inbound \/ m.run \in runQueue
    <3>1. CASE OrchestratorStep
      BY <3>1 DEF OrchestratorStep, intakeOnly
    <3>2. CASE IntakeStep
      BY <3>2 DEF IntakeStep, I!HandlerStep, I!Accept, I!Claim, I!Raise, I!RaiseFails, I!Ack,
                  I!Crash, I!Undelivered, I!DropUnknown
    <3>3. ASSUME NEW r \in Runs, EngineAnswers(r) \/ EngineRepeats(r)
          PROVE  m \in inbound \/ m.run \in runQueue
      <4>1. r \in runQueue
        BY <3>3 DEF EngineAnswers, O!TakeRun, EngineRepeats
      <4>2. PICK s \in Statuses, v \in I!Channels : inbound' = inbound \cup {Result(r, s, v)}
        BY <3>3 DEF EngineAnswers, EngineRepeats, I!Report
      <4> QED
        BY <4>1, <4>2, ResultIsMsg
    <3>4. CASE UNCHANGED vars
      BY <3>4 DEF vars, intakeOnly
    <3> QED
      BY <3>1, <3>2, <3>3, <3>4 DEF Next, EngineStep
  <2> QED
    BY <2>1, <2>2, <2>3 DEF ResultsAreRoutable
<1> QED
  BY <1>1, <1>2, OrchestratorInvariantInSystem, PTL DEF Spec

\* When finalize_batch is scheduled a result was taken of every run.
LEMMA ResultOfEveryRun ==
  ASSUME OP!OInv, final # "none", NEW r \in Runs
  PROVE  /\ collected[r] \in Seq(Statuses)
         /\ Len(collected[r]) >= 1
<1>1. r \in OP!Runs
  BY SameBatch
<1>2. collected[r] \in Seq(Statuses)
  BY <1>1 DEF OP!OInv, OP!TypeOK
<1>3. ~OP!Pending(r)
  BY <1>1 DEF OP!OInv, OP!FinalIsAfterLoop
<1>4. OP!Waits(r) \in Nat /\ OP!Waits(r) >= 1
  BY ComponentAssumptions, SameBatch, OP!WaitsType, OP!WaitsPositive
<1>5. Len(collected[r]) \in Nat /\ ~(Len(collected[r]) < OP!Waits(r))
  BY <1>2, <1>3 DEF OP!Pending
<1>6. Len(collected[r]) >= 1
  BY <1>4, <1>5
<1> QED
  BY <1>2, <1>6

\* The document holds the results taken.
LEMMA DocumentHoldsTheResults ==
  ASSUME OP!OInv, document # <<>>
  PROVE  /\ document = [c \in Positions |-> [i \in RunIdx |-> collected[<<CvApps[c], i>>]]]
         /\ final # "none"
BY SameBatch DEF OP!OInv, OP!DocumentIsOfFinal, OP!DocumentOf

\* One event was raised for each of its runs, and that is the one it holds.
LEMMA DocumentHoldsTheEvents ==
  ASSUME OP!OInv, IP!Inv, document # <<>>, NEW r \in Runs
  PROVE  collected[r] = raised[r] /\ Len(raised[r]) = 1
<1>1. r \in OP!Runs
  BY SameBatch
<1>2. raised[r] \in Seq(Statuses)
  BY <1>1 DEF OP!OInv, OP!TypeOK
<1>3. collected[r] \in Seq(Statuses) /\ Len(collected[r]) >= 1
  BY DocumentHoldsTheResults, ResultOfEveryRun
<1>4. /\ Len(collected[r]) <= Len(raised[r])
      /\ \A k \in 1 .. Len(collected[r]) : collected[r][k] = raised[r][k]
  BY <1>1 DEF OP!OInv, OP!TakenInOrder
<1>5. Len(raised[r]) <= 1
  BY DEF IP!Inv, IP!EventRaisedOnce
<1>6. Len(collected[r]) = 1 /\ Len(raised[r]) = 1
  <2>1. ASSUME NEW m \in Nat, NEW n \in Nat, m <= n, m >= 1, n <= 1 PROVE m = 1 /\ n = 1
    BY <2>1
  <2>2. Len(collected[r]) \in Nat /\ Len(raised[r]) \in Nat
    BY <1>2, <1>3
  <2>3. Len(collected[r]) <= Len(raised[r])
    BY <1>4
  <2>4. Len(collected[r]) >= 1
    BY <1>3
  <2> QED
    BY <2>1, <2>2, <2>3, <2>4, <1>5
<1>7. collected[r] = <<collected[r][1]>> /\ raised[r] = <<raised[r][1]>>
  BY <1>2, <1>3, <1>6
<1>8. collected[r][1] = raised[r][1]
  BY <1>4, <1>6
<1> QED
  BY <1>6, <1>7, <1>8

\* FR-005: the handoff holds, for every run, the one event that was raised for it.
THEOREM HandoffIsAuthoritativeHolds == Spec => []HandoffIsAuthoritative
<1>1. OP!OInv /\ IP!Inv => HandoffIsAuthoritative
  <2> SUFFICES ASSUME OP!OInv, IP!Inv, document # O!NoDocument,
                      NEW c \in Positions, NEW i \in RunIdx
               PROVE  Len(document[c][i]) = 1 /\ document[c][i] = raised[<<CvApps[c], i>>]
    BY DEF HandoffIsAuthoritative
  <2>1. <<CvApps[c], i>> \in Runs
    <3>1. <<c, i>> \in Entries /\ RunId(<<c, i>>) = <<CvApps[c], i>>
      BY DEF RunId, Entries
    <3> QED
      BY <3>1 DEF Runs
  <2>2. document # <<>>
    BY SameBatch
  <2> QED
    BY <2>1, <2>2, DocumentHoldsTheResults, DocumentHoldsTheEvents
<1> QED
  BY <1>1, OrchestratorInvariantInSystem, IntakeInvariantInSystem, PTL

-----------------------------------------------------------------------------
(* The batch as clients think of it.                                       *)

\* What ScoringBatch sees as the outcomes.
outcomes == [r \in Runs |-> RunOutcome(r)]

\* A document that holds the results taken is read as the outcomes of the runs,
\* also where CVs share an application.
LEMMA DocumentReadsAsOutcomes ==
  ASSUME NEW results, NEW d,
         d = [c \in Positions |-> [i \in RunIdx |-> results[<<CvApps[c], i>>]]]
  PROVE  /\ d # <<>>
         /\ \A r \in Runs :
                d[FindApplicationRun(r)[1]][FindApplicationRun(r)[2]][1] = results[r][1]
<1>1. d # <<>>
  <2>1. 1 \in Positions /\ DOMAIN d = Positions
    BY CvsAssumption DEF Positions
  <2> QED
    BY <2>1
<1>2. ASSUME NEW r \in Runs
      PROVE  d[FindApplicationRun(r)[1]][FindApplicationRun(r)[2]][1] = results[r][1]
  <2>1. FindApplicationRun(r) = OP!FindApplicationRun(r)
    BY SameBatch, Zenon DEF FindApplicationRun, OP!FindApplicationRun
  <2> DEFINE e == FindApplicationRun(r)
  <2>2. e \in Entries /\ RunId(e) = r
    BY <2>1, SameBatch, ComponentAssumptions, OP!FoundHasRunId
  <2> HIDE DEF e
  <2>3. e[1] \in Positions /\ e[2] \in RunIdx /\ r = <<CvApps[e[1]], e[2]>>
    BY <2>2 DEF Entries, RunId
  <2>4. d[e[1]][e[2]][1] = results[r][1]
    BY <2>3
  <2> QED
    BY <2>4 DEF e
<1> QED
  BY <1>1, <1>2

\* So what is handed off is never mistaken for no handoff.
LEMMA HandoffIsOutcomes ==
  ASSUME OP!OInv, document # <<>>
  PROVE  HandedOff = outcomes /\ HandedOff # Open
<1>1. \A r \in Runs : collected[r] \in Seq(Statuses) /\ collected[r] # <<>>
  BY DocumentHoldsTheResults, ResultOfEveryRun
<1>2. HandedOff = outcomes
  <2>1. HandedOff = [r \in Runs |->
                       document[FindApplicationRun(r)[1]][FindApplicationRun(r)[2]][1]]
    BY SameBatch, Zenon DEF HandedOff
  <2>2. \A r \in Runs : document[FindApplicationRun(r)[1]][FindApplicationRun(r)[2]][1]
                          = RunOutcome(r)
    BY <1>1, DocumentHoldsTheResults, DocumentReadsAsOutcomes DEF RunOutcome
  <2> QED
    BY <2>1, <2>2, Zenon DEF outcomes
<1>3. outcomes \in [Runs -> Statuses]
  BY <1>1 DEF outcomes, RunOutcome
<1> QED
  BY <1>2, <1>3, OpenAssumption

\* The first result taken of a run settles its outcome, further ones do not.
LEMMA CollectSettles ==
  ASSUME OP!OInv, NEW r \in Runs, O!Collect(r)
  PROVE  [B!Next]_B!vars
<1> DEFINE s == raised[r][Len(collected[r]) + 1]
<1>1. /\ pc \notin O!Ended /\ pc' \notin O!Ended
      /\ collected' = [collected EXCEPT ![r] = Append(@, s)]
      /\ HandedOff' = HandedOff
  BY DEF O!Collect, O!Ended, HandedOff
<1>2. collected \in [Runs -> Seq(Statuses)] /\ raised \in [Runs -> Seq(Statuses)]
  BY SameBatch DEF OP!OInv, OP!TypeOK
<1>3. s \in Statuses
  BY <1>2 DEF O!Collect
<1> HIDE DEF s
<1>4. \A q \in Runs \ {r} : RunOutcome(q)' = RunOutcome(q)
  BY <1>1, <1>2 DEF RunOutcome
<1>5. CASE collected[r] = <<>>
  <2>1. RunOutcome(r) = Open /\ RunOutcome(r)' = s
    BY <1>1, <1>2, <1>3, <1>5 DEF RunOutcome
  <2>2. outcomes' = [outcomes EXCEPT ![r] = s] /\ outcomes[r] = Open
    BY <2>1, <1>4 DEF outcomes
  <2>3. B!Settle(r, s)
    BY <1>1, <2>2 DEF B!Settle, outcomes
  <2> QED
    BY <1>3, <2>3 DEF B!Next
<1>6. CASE collected[r] # <<>>
  <2>1. RunOutcome(r)' = RunOutcome(r)
    BY <1>1, <1>2, <1>3, <1>6 DEF RunOutcome
  <2>2. outcomes' = outcomes
    BY <2>1, <1>4 DEF outcomes
  <2> QED
    BY <1>1, <2>2 DEF B!vars, outcomes
<1> QED
  BY <1>5, <1>6

\* finalize_batch publishes the handoff, and once more does not change it.
LEMMA WritePublishes ==
  ASSUME OP!OInv, O!WriteDocument \/ O!WriteLateDocument
  PROVE  [B!Next]_B!vars
<1>1. /\ pc' = pc /\ collected' = collected /\ final # "none"
      /\ document' = [c \in Positions |-> [i \in RunIdx |-> collected[<<CvApps[c], i>>]]]
  BY SameBatch DEF O!WriteDocument, O!WriteLateDocument, O!DocumentOf
<1>2. \A r \in Runs : collected[r] \in Seq(Statuses) /\ collected[r] # <<>>
  BY <1>1, ResultOfEveryRun
<1>3. outcomes' = outcomes
  BY <1>1 DEF outcomes, RunOutcome
<1>4. CASE document = <<>>
  <2>1. HandedOff = Open
    BY <1>4, SameBatch DEF HandedOff
  <2>2. \A r \in Runs : outcomes[r] # Open
    BY <1>2, OpenAssumption DEF outcomes, RunOutcome
  <2>3. HandedOff' = outcomes
    <3>1. /\ document' # <<>>
          /\ \A r \in Runs :
                 document'[FindApplicationRun(r)[1]][FindApplicationRun(r)[2]][1]
                   = RunOutcome(r)
      BY <1>1, <1>2, DocumentReadsAsOutcomes DEF RunOutcome
    <3>2. HandedOff' = [r \in Runs |->
                          document'[FindApplicationRun(r)[1]][FindApplicationRun(r)[2]][1]]
      BY <3>1, SameBatch, Zenon DEF HandedOff
    <3> QED
      BY <3>1, <3>2, Zenon DEF outcomes
  <2>4. B!Publish
    BY <1>1, <1>3, <2>1, <2>2, <2>3 DEF B!Publish, outcomes
  <2> QED
    BY <2>4 DEF B!Next
<1>5. CASE document # <<>>
  <2>1. document' = document
    BY <1>1, <1>5, DocumentHoldsTheResults
  <2> QED
    BY <1>1, <1>3, <2>1 DEF B!vars, HandedOff, outcomes
<1> QED
  BY <1>4, <1>5

\* Other steps change neither the results taken nor the document; the batch ends
\* once, and completes only after its last event.
LEMMA OtherStepsOfBatch ==
  ASSUME [O!Next]_O!vars, ~\E r \in Runs : O!Collect(r),
         ~O!WriteDocument, ~O!WriteLateDocument
  PROVE  /\ collected' = collected /\ document' = document
         /\ pc \in O!Ended => pc' = pc
         /\ pc' = "completed" => pc \in {"completed", "batchEvent"}
<1>1. CASE O!AfterRunEvent \/ O!AfterAppEvent
  BY <1>1 DEF O!AfterRunEvent, O!AfterAppEvent, O!ContinueLoop, O!Ended
<1>2. CASE ~(O!AfterRunEvent \/ O!AfterAppEvent)
  BY <1>2, SameBatch
     DEF O!Next, O!BatchStep, O!Advance, O!DispatchAdvances, O!DispatchFaults, O!WriteIndex,
         O!SendRun, O!ReportDispatch, O!RestartDispatch, O!DispatchFails, O!StagePrompt,
         O!StageFails, O!Announce, O!StartCollecting, O!FinalizeFails, O!AfterFinalize,
         O!Complete, O!Terminate, O!Environment, O!ReceiveEvent, O!TakeRun, O!vars, O!ownVars
<1> QED
  BY <1>1, <1>2

\* Every step of the orchestrator is a step of ScoringBatch or leaves it alone.
LEMMA BatchStepRefines ==
  ASSUME OP!OInv, [O!Next]_O!vars
  PROVE  [B!Next]_B!vars
<1>1. CASE \E r \in Runs : O!Collect(r)
  BY <1>1, CollectSettles
<1>2. CASE O!WriteDocument \/ O!WriteLateDocument
  BY <1>2, WritePublishes
<1>3. CASE (~\E r \in Runs : O!Collect(r)) /\ ~O!WriteDocument /\ ~O!WriteLateDocument
  <2>1. /\ collected' = collected /\ document' = document
        /\ pc \in O!Ended => pc' = pc
        /\ pc' = "completed" => pc \in {"completed", "batchEvent"}
    BY <1>3, OtherStepsOfBatch
  <2>2. outcomes' = outcomes /\ HandedOff' = HandedOff
    BY <2>1 DEF outcomes, RunOutcome, HandedOff
  <2>3. CASE pc \notin O!Ended /\ pc' \in O!Ended
    <3>1. pc' \in B!Endings
      BY <2>3, SameBatch DEF B!Endings
    <3>2. pc' = "completed" => HandedOff # Open
      <4>1. SUFFICES ASSUME pc' = "completed" PROVE HandedOff # Open
        OBVIOUS
      <4>2. pc = "batchEvent"
        BY <2>1, <2>3, <4>1, SameBatch
      <4>3. document # <<>>
        BY <4>2, SameBatch DEF OP!OInv, OP!WrittenIsThere
      <4> QED
        BY <4>3, HandoffIsOutcomes
    <3>3. B!End(pc')
      BY <2>2, <2>3, <3>2 DEF B!End, outcomes
    <3> QED
      BY <3>1, <3>3 DEF B!Next
  <2>4. CASE pc \in O!Ended \/ pc' \notin O!Ended
    BY <2>1, <2>2, <2>4 DEF B!vars, outcomes
  <2> QED
    BY <2>3, <2>4
<1> QED
  BY <1>1, <1>2, <1>3

\* The whole machinery, whatever of it fails, is repeated or is lost on the way,
\* implements the batch clients think of: one outcome for each run, handed off
\* once and as it was settled, and one end.
THEOREM ImplementsScoringBatchHolds == Spec => ImplementsScoringBatch
<1>1. Init => B!Init
  <2> SUFFICES ASSUME Init PROVE B!Init
    OBVIOUS
  <2>1. /\ pc = "staging" /\ document = <<>> /\ collected = [r \in Runs |-> <<>>]
    BY SameBatch DEF Init, O!Init
  <2>2. pc \notin O!Ended /\ HandedOff = Open
    BY <2>1, SameBatch DEF HandedOff
  <2>3. [r \in Runs |-> RunOutcome(r)] = [r \in Runs |-> Open]
    BY <2>1 DEF RunOutcome
  <2> QED
    BY <2>2, <2>3 DEF B!Init
<1>2. OP!OInv /\ [O!Next]_O!vars => [B!Next]_B!vars
  BY BatchStepRefines
<1> QED
  BY <1>1, <1>2, OrchestratorSpecHolds, OrchestratorInvariantInSystem, PTL
     DEF Spec, OrchestratorSpec, O!Spec, ImplementsScoringBatch, B!Spec

-----------------------------------------------------------------------------
(* What a client of the whole may rely on.                                 *)

\* FR-005 for intake at work: one event for each run.
THEOREM SystemRaisesOnce == Spec => []I!EventRaisedOnce
<1>1. IP!Inv => I!EventRaisedOnce
  BY DEF IP!Inv, IP!EventRaisedOnce, I!EventRaisedOnce
<1> QED
  BY <1>1, IntakeInvariantInSystem, PTL

\* What a status route shows as a run's terminal status is never overwritten, by
\* whatever late or repeated answers of the engine.
THEOREM SystemTerminalRunIsFinal == Spec => O!TerminalRunIsFinal
<1>1. OP!TerminalRunIsFinal <=> O!TerminalRunIsFinal
  <2> DEFINE KeptO == \A e \in O!Entries :
                 O!IsTerminalRunStatus(progress.run[e]) => (progress'.run[e] = progress.run[e])
             KeptOP == \A e \in OP!Entries :
                 OP!IsTerminalRunStatus(progress.run[e]) => (progress'.run[e] = progress.run[e])
  <2>1. KeptO <=> KeptOP
    BY SameBatch DEF O!IsTerminalRunStatus, OP!IsTerminalRunStatus, O!StatusKey, OP!StatusKey
  <2>2. [KeptO]_O!vars <=> [KeptOP]_OP!vars
    BY <2>1 DEF O!vars, OP!vars, O!ownVars, OP!ownVars
  <2> QED
    BY <2>2, PTL DEF O!TerminalRunIsFinal, OP!TerminalRunIsFinal
<1> QED
  BY <1>1, OrchestratorSpecHolds, SameOrchestrator, ComponentAssumptions,
     OP!TerminalRunIsFinalHolds, PTL DEF OrchestratorSpec

\* A batch is completed only with its handoff, and the handoff has the outcome of
\* every run.
HandoffIsWhole ==
    /\ pc = "completed" => HandedOff # Open
    /\ HandedOff # Open => \A r \in Runs : RunOutcome(r) # Open /\ HandedOff[r] = RunOutcome(r)

\* ScoringBatch keeps it.
LEMMA AbstractHandoffIsWhole ==
  ASSUME HandoffIsWhole, [B!Next]_B!vars
  PROVE  HandoffIsWhole'
<1> DEFINE phase == IF pc \in O!Ended THEN pc ELSE "open"
           Whole == /\ phase = "completed" => HandedOff # Open
                    /\ HandedOff # Open =>
                         \A r \in Runs : outcomes[r] # Open /\ HandedOff[r] = outcomes[r]
<1>1. (HandoffIsWhole <=> Whole) /\ (HandoffIsWhole' <=> Whole')
  BY SameBatch DEF HandoffIsWhole, outcomes
<1>2. CASE B!Publish
  BY <1>1, <1>2 DEF B!Publish, outcomes
<1>3. ASSUME NEW how \in B!Endings, B!End(how) PROVE HandoffIsWhole'
  BY <1>1, <1>3 DEF B!End, outcomes
<1>4. ASSUME NEW r \in Runs, NEW s \in Statuses, B!Settle(r, s) PROVE HandoffIsWhole'
  <2>1. outcomes[r] = Open /\ HandedOff' = HandedOff /\ phase' = phase
    BY <1>4 DEF B!Settle, outcomes
  <2>2. HandedOff = Open
    BY <1>1, <2>1
  <2> QED
    BY <1>1, <2>1, <2>2
<1>5. CASE UNCHANGED B!vars
  BY <1>1, <1>5 DEF B!vars, outcomes
<1> QED
  BY <1>2, <1>3, <1>4, <1>5 DEF B!Next

\* finalize_batch waits for all results, and batch_orchestrator for finalize_batch:
\* whoever is shown "completed" finds result.json, with every run's outcome.
THEOREM HandoffIsWholeHolds == Spec => []HandoffIsWhole
<1>1. B!Init => HandoffIsWhole
  <2> SUFFICES ASSUME B!Init PROVE HandoffIsWhole
    OBVIOUS
  <2>1. (IF pc \in O!Ended THEN pc ELSE "open") = "open" /\ HandedOff = Open
    BY DEF B!Init
  <2> QED
    BY <2>1, SameBatch DEF HandoffIsWhole
<1>2. HandoffIsWhole /\ [B!Next]_B!vars => HandoffIsWhole'
  BY AbstractHandoffIsWhole
<1> QED
  BY <1>1, <1>2, ImplementsScoringBatchHolds, PTL DEF ImplementsScoringBatch, B!Spec

\* An outcome, once settled, and the handoff, once written, stay.
OutcomesStay ==
    [][/\ \A r \in Runs : RunOutcome(r) # Open => RunOutcome(r)' = RunOutcome(r)
       /\ HandedOff # Open => HandedOff' = HandedOff]_vars

\* ... in spite of later answers, terminated instances and late finalize_batches.
THEOREM OutcomesStayHolds == Spec => OutcomesStay
<1> DEFINE Kept == /\ \A r \in Runs : RunOutcome(r) # Open => RunOutcome(r)' = RunOutcome(r)
                   /\ HandedOff # Open => HandedOff' = HandedOff
<1>1. [B!Next]_B!vars => [Kept]_vars
  <2> SUFFICES ASSUME [B!Next]_B!vars PROVE Kept
    OBVIOUS
  <2>1. \A r \in Runs : outcomes[r] = RunOutcome(r) /\ outcomes'[r] = RunOutcome(r)'
    BY DEF outcomes
  <2>2. CASE B!Publish
    BY <2>1, <2>2 DEF B!Publish, outcomes
  <2>3. ASSUME NEW how \in B!Endings, B!End(how) PROVE Kept
    BY <2>1, <2>3 DEF B!End, outcomes
  <2>4. ASSUME NEW r \in Runs, NEW s \in Statuses, B!Settle(r, s) PROVE Kept
    <3>1. /\ outcomes[r] = Open /\ outcomes' = [outcomes EXCEPT ![r] = s]
          /\ HandedOff' = HandedOff
      BY <2>4 DEF B!Settle, outcomes
    <3>2. \A q \in Runs : outcomes[q] # Open => outcomes'[q] = outcomes[q]
      BY <3>1 DEF outcomes
    <3> QED
      BY <2>1, <3>1, <3>2
  <2>5. CASE UNCHANGED B!vars
    BY <2>1, <2>5 DEF B!vars, outcomes
  <2> QED
    BY <2>2, <2>3, <2>4, <2>5 DEF B!Next
<1> QED
  BY <1>1, ImplementsScoringBatchHolds, PTL DEF ImplementsScoringBatch, B!Spec, OutcomesStay
=============================================================================
