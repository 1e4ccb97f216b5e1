---------------------- MODULE BatchOrchestrator_proofs ----------------------
(***************************************************************************)
(* Proofs about the orchestrator, for every list of CVs, run count, set of *)
(* statuses and number of repeated activities and events.                  *)
(***************************************************************************)
EXTENDS BatchOrchestrator, FiniteSetTheorems, TLAPS

-----------------------------------------------------------------------------
(* The batch's finite sets.                                                *)

\* Positions and entries are finite.
LEMMA EntriesFinite == IsFiniteSet(Positions) /\ IsFiniteSet(Entries)
<1>1. Len(CvApps) \in Nat /\ RunCount \in Nat
  BY CvsAssumption, RunCountAssumption
<1>2. IsFiniteSet(Positions)
  BY <1>1, FS_Interval DEF Positions
<1>3. IsFiniteSet(RunIdx)
  <2>1. 0 \in Int /\ RunCount - 1 \in Int
    BY <1>1
  <2> QED
    BY <2>1, FS_Interval DEF RunIdx
<1> QED
  BY <1>2, <1>3, FS_Product DEF Entries

\* The number of waits of a run id is a number.
LEMMA WaitsType == \A r \in Runs : Waits(r) \in Nat
<1> TAKE r \in Runs
<1> DEFINE S == {e \in Entries : RunId(e) = r}
<1>1. IsFiniteSet(S)
  BY EntriesFinite, FS_Subset
<1> QED
  BY <1>1, FS_CardinalityType DEF Waits

\* A set of numbers has a least one: the shortest of the intervals up to them.
LEMMA LeastNumber ==
  ASSUME NEW T, T \subseteq Nat, T # {}
  PROVE  \E n \in T : \A m \in T : n <= m
<1> DEFINE F == {0 .. n : n \in T}
           R == StrictSubsetOrdering(Nat)
<1>1. ASSUME NEW n \in T PROVE 0 .. n \in FiniteSubsetsOf(Nat)
  <2>1. 0 \in Int /\ n \in Int
    OBVIOUS
  <2>2. IsFiniteSet(0 .. n)
    BY <2>1, FS_Interval
  <2> QED
    BY <2>2 DEF FiniteSubsetsOf
<1>2. PICK x \in F : \A y \in F : <<y, x>> \notin R
  <2>1. IsWellFoundedOn(R, FiniteSubsetsOf(Nat))
    BY FS_StrictSubsetOrderingWellFounded
  <2>2. F \subseteq FiniteSubsetsOf(Nat) /\ F # {}
    BY <1>1
  <2> HIDE DEF F, R
  <2> QED
    BY <2>1, <2>2, WFMin
<1>3. PICK n \in T : x = 0 .. n
  OBVIOUS
<1>4. ASSUME NEW m \in T, m < n PROVE FALSE
  <2>1. n \in 0 .. n /\ n \notin 0 .. m /\ 0 .. m \subseteq 0 .. n
    BY <1>4
  <2>2. <<0 .. m, 0 .. n>> \in R
    BY <2>1 DEF StrictSubsetOrdering
  <2> QED
    BY <1>2, <1>3, <2>2
<1> QED
  BY <1>4

\* _find_application_run finds an entry with the run id, for every run.
LEMMA FoundHasRunId ==
  ASSUME NEW r \in Runs
  PROVE  FindApplicationRun(r) \in Entries /\ RunId(FindApplicationRun(r)) = r
<1> DEFINE T == {e[1] : e \in {f \in Entries : RunId(f) = r}}
<1>1. T \subseteq Nat /\ T # {}
  BY DEF Entries, Positions, Runs
<1>2. PICK n \in T : \A m \in T : n <= m
  <2> HIDE DEF T
  <2> QED
    BY <1>1, LeastNumber
<1>3. PICK e \in Entries : RunId(e) = r /\ e[1] = n
  OBVIOUS
<1>4. \A f \in Entries : RunId(f) = r => e[1] <= f[1]
  BY <1>2, <1>3
<1> QED
  BY <1>3, <1>4 DEF FindApplicationRun

\* Every run is waited for.
LEMMA WaitsPositive == \A r \in Runs : Waits(r) >= 1
<1> TAKE r \in Runs
<1> DEFINE S == {e \in Entries : RunId(e) = r}
<1>1. IsFiniteSet(S)
  BY EntriesFinite, FS_Subset
<1>2. S # {}
  BY DEF Runs
<1>3. Cardinality(S) # 0
  BY <1>1, <1>2, FS_EmptySet
<1>4. Waits(r) # 0
  BY <1>3 DEF Waits
<1> QED
  BY <1>4, WaitsType

\* cvsCompleted, which _record_run_result counts on a set of ids, is a number.
LEMMA CompletedIdsType == \A p : Cardinality(CompletedIds(p)) \in Nat
<1> TAKE p
<1> DEFINE S == {d \in Positions : IsApplicationTerminal(p, d)}
           ids == [c \in S |-> CvApps[c]]
<1>1. IsFiniteSet(S)
  BY EntriesFinite, FS_Subset
<1>2. ids \in Surjection(S, CompletedIds(p))
  BY DEF Surjection, CompletedIds
<1>3. IsFiniteSet(CompletedIds(p))
  BY <1>1, <1>2, FS_Surjection
<1> QED
  BY <1>3, FS_CardinalityType

-----------------------------------------------------------------------------
(* The progress document.                                                  *)

\* _build_initial_progress makes a progress document.
LEMMA InitialProgressType == InitialProgress \in ProgressDoc
  BY DEF InitialProgress, ProgressDoc, RunStates, AppStates, BatchStates

\* Replacing fields of a document by values of their types leaves a document.
LEMMA DispatchedDocType ==
  ASSUME NEW p \in ProgressDoc, NEW n \in Nat, NEW run \in [Entries -> RunStates],
         NEW app \in [Positions -> AppStates]
  PROVE  [p EXCEPT !.runsDispatched = n, !.run = run, !.app = app, !.status = "running"]
            \in ProgressDoc
BY DEF ProgressDoc, BatchStates

\* _record_dispatched_run makes a document of a document.
LEMMA RecordDispatchedRunType ==
  ASSUME NEW p \in ProgressDoc, NEW r
  PROVE  RecordDispatchedRun(p, r) \in ProgressDoc
<1> DEFINE e == FindApplicationRun(r)
           n == p.runsDispatched + (IF p.run[e] = "queued" THEN 1 ELSE 0)
           run == [p.run EXCEPT ![e] = "dispatched"]
           app == [p.app EXCEPT ![e[1]] = "running"]
<1>1. n \in Nat
  BY DEF ProgressDoc
<1>2. run \in [Entries -> RunStates]
  BY DEF ProgressDoc, RunStates
<1>3. app \in [Positions -> AppStates]
  BY DEF ProgressDoc, AppStates
<1>4. RecordDispatchedRun(p, r)
        = [p EXCEPT !.runsDispatched = n, !.run = run, !.app = app, !.status = "running"]
  BY DEF RecordDispatchedRun, ProgressDoc
<1>5. [p EXCEPT !.runsDispatched = n, !.run = run, !.app = app, !.status = "running"]
         \in ProgressDoc
  <2> HIDE DEF n, run, app
  <2> QED
    BY <1>1, <1>2, <1>3, DispatchedDocType
<1> QED
  BY <1>4, <1>5, Zenon

\* _summarize_application_status returns an application status.
LEMMA SummaryType ==
  ASSUME NEW statuses
  PROVE  SummarizeApplicationStatus(statuses) \in AppStates
BY DEF SummarizeApplicationStatus, AppStates

\* Adding one to a counter leaves counters.
LEMMA IncrementType ==
  ASSUME NEW S, NEW counts \in [S -> Nat], NEW c
  PROVE  [counts EXCEPT ![c] = @ + 1] \in [S -> Nat]
<1>1. CASE c \in S
  BY <1>1
<1>2. CASE c \notin S
  BY <1>2
<1> QED
  BY <1>1, <1>2

\* Likewise for the fields that a result replaces ...
LEMMA ResultDocType ==
  ASSUME NEW p \in ProgressDoc, NEW run \in [Entries -> RunStates], NEW n \in Nat,
         NEW counts \in [Positions -> Nat], NEW app \in [Positions -> AppStates]
  PROVE  [p EXCEPT !.run = run, !.runsCompleted = n, !.appRunsCompleted = counts,
                   !.app = app, !.status = "running"] \in ProgressDoc
BY DEF ProgressDoc, BatchStates

\* ... and for the count of completed CVs.
LEMMA CountedDocType ==
  ASSUME NEW p \in ProgressDoc, NEW n \in Nat
  PROVE  [p EXCEPT !.cvsCompleted = n] \in ProgressDoc
BY DEF ProgressDoc

\* _record_run_result makes a document of a document.
LEMMA RecordRunResultType ==
  ASSUME NEW p \in ProgressDoc, NEW r, NEW s \in Statuses
  PROVE  RecordRunResult(p, r, s) \in ProgressDoc
<1> DEFINE e == FindApplicationRun(r)
           run == [p.run EXCEPT ![e] = s]
           n == p.runsCompleted + 1
           counts == [p.appRunsCompleted EXCEPT ![e[1]] = @ + 1]
           summary == SummarizeApplicationStatus({run[<<e[1], i>>] : i \in RunIdx})
           app == [p.app EXCEPT ![e[1]] = summary]
           q == [p EXCEPT !.run = run, !.runsCompleted = n, !.appRunsCompleted = counts,
                          !.app = app, !.status = "running"]
<1>1. run \in [Entries -> RunStates]
  BY DEF ProgressDoc, RunStates
<1>2. n \in Nat
  BY DEF ProgressDoc
<1>3. counts \in [Positions -> Nat]
  <2>1. p.appRunsCompleted \in [Positions -> Nat]
    BY DEF ProgressDoc
  <2> QED
    BY <2>1, IncrementType
<1>4. app \in [Positions -> AppStates]
  <2>1. summary \in AppStates
    BY SummaryType
  <2> HIDE DEF summary
  <2> QED
    BY <2>1 DEF ProgressDoc
<1>5. q \in ProgressDoc
  <2> HIDE DEF run, n, counts, app
  <2> QED
    BY <1>1, <1>2, <1>3, <1>4, ResultDocType
<1>6. [q EXCEPT !.cvsCompleted = Cardinality(CompletedIds(q))] \in ProgressDoc
  BY <1>5, CompletedIdsType, CountedDocType
<1>7. \/ RecordRunResult(p, r, s) = p
      \/ RecordRunResult(p, r, s) = q
      \/ RecordRunResult(p, r, s) = [q EXCEPT !.cvsCompleted = Cardinality(CompletedIds(q))]
  BY DEF RecordRunResult, ProgressDoc
<1> QED
  BY <1>5, <1>6, <1>7

-----------------------------------------------------------------------------
(* Types.                                                                  *)

\* The run ids finalize_batch looks up are run ids of the batch.
LEMMA RunsType == \A c \in Positions, i \in RunIdx : <<CvApps[c], i>> \in Runs
<1> TAKE c \in Positions, i \in RunIdx
<1>1. <<c, i>> \in Entries
  BY DEF Entries
<1>2. RunId(<<c, i>>) = <<CvApps[c], i>>
  BY DEF RunId
<1> QED
  BY <1>1, <1>2 DEF Runs

\* The application of a run id is an application.
LEMMA RunsAppsType == \A r \in Runs : r[1] \in Apps
<1> TAKE r \in Runs
<1>1. PICK e \in Entries : r = RunId(e)
  BY DEF Runs
<1>2. e[1] \in Positions
  BY DEF Entries
<1>3. CvApps[e[1]] \in Apps
  BY <1>2, CvsAssumption DEF Positions
<1> QED
  BY <1>1, <1>3 DEF RunId

\* A new instance has its variables in their types.
LEMMA TypeOKInit == Init => TypeOK
<1> SUFFICES ASSUME Init PROVE TypeOK
  OBVIOUS
<1>1. RunId(<<1, 0>>) \in Runs
  <2>1. 1 \in Positions /\ 0 \in RunIdx
    BY CvsAssumption, RunCountAssumption DEF Positions, RunIdx
  <2> QED
    BY <2>1 DEF Entries, Runs
<1> QED
  BY <1>1, InitialProgressType, BoundsAssumption
     DEF Init, TypeOK, Phases, Ended, TaskStates, FinalStates

\* Every action keeps the variables in their types.
LEMMA TypeOKIsInductive == TypeOK /\ [Next]_vars => TypeOK'
<1> SUFFICES ASSUME TypeOK, [Next]_vars PROVE TypeOK'
  OBVIOUS
<1> USE BoundsAssumption DEF TypeOK, Phases, Ended, TaskStates, FinalStates
<1>1. ASSUME NEW e \in Entries, DispatchAdvances(e) \/ DispatchFaults(e) PROVE TypeOK'
  <2>1. RunId(e) \in Runs
    BY DEF Runs
  <2>2. CASE WriteIndex(e)
    BY <2>1, <2>2 DEF WriteIndex
  <2>3. CASE SendRun(e)
    BY <2>1, <2>3 DEF SendRun
  <2>4. CASE ReportDispatch(e)
    BY <2>4 DEF ReportDispatch
  <2>5. CASE RestartDispatch(e)
    BY <2>5 DEF RestartDispatch
  <2>6. CASE DispatchFails(e)
    BY <2>6 DEF DispatchFails
  <2> QED
    BY <1>1, <2>2, <2>3, <2>4, <2>5, <2>6 DEF DispatchAdvances, DispatchFaults
<1>2. CASE StagePrompt
  BY <1>2 DEF StagePrompt
<1>3. CASE StageFails
  BY <1>3 DEF StageFails
<1>4. ASSUME NEW e \in Entries, Announce(e) PROVE TypeOK'
  BY <1>4, RecordDispatchedRunType DEF Announce
<1>5. CASE StartCollecting
  BY <1>5 DEF StartCollecting
<1>6. ASSUME NEW r \in Runs, Collect(r) PROVE TypeOK'
  <2> DEFINE s == raised[r][Len(collected[r]) + 1]
  <2>1. /\ Len(collected[r]) \in Nat
        /\ Len(raised[r]) \in Nat
        /\ Len(collected[r]) < Len(raised[r])
    BY <1>6 DEF Collect
  <2>2. s \in Statuses
    BY <2>1
  <2>3. /\ collected' = [collected EXCEPT ![r] = Append(@, s)]
        /\ progress' = RecordRunResult(progress, r, s)
    BY <1>6 DEF Collect
  <2> HIDE DEF s
  <2>4. collected' \in [Runs -> Seq(Statuses)]
    BY <2>2, <2>3
  <2>5. progress' \in ProgressDoc
    BY <2>2, <2>3, RecordRunResultType
  <2> QED
    BY <1>6, <2>4, <2>5 DEF Collect
<1>7. CASE AfterRunEvent
  BY <1>7, RunsAppsType DEF AfterRunEvent, ContinueLoop
<1>8. CASE AfterAppEvent
  BY <1>8 DEF AfterAppEvent, ContinueLoop
<1>9. CASE WriteDocument
  <2>1. DocumentOf(collected) \in [Positions -> [RunIdx -> Seq(Statuses)]]
    BY RunsType DEF DocumentOf
  <2> QED
    BY <1>9, <2>1 DEF WriteDocument
<1>10. CASE FinalizeFails
  BY <1>10 DEF FinalizeFails
<1>11. CASE WriteLateDocument
  <2>1. DocumentOf(collected) \in [Positions -> [RunIdx -> Seq(Statuses)]]
    BY RunsType DEF DocumentOf
  <2> QED
    BY <1>11, <2>1 DEF WriteLateDocument
<1>12. CASE AfterFinalize
  <2>1. progress' \in ProgressDoc
    BY <1>12 DEF AfterFinalize, ProgressDoc, BatchStates
  <2> QED
    BY <1>12, <2>1 DEF AfterFinalize
<1>13. CASE Complete
  BY <1>13 DEF Complete
<1>14. ASSUME NEW r \in Runs, NEW s \in Statuses, ReceiveEvent(r, s) PROVE TypeOK'
  BY <1>14 DEF ReceiveEvent, ownVars
<1>15. ASSUME NEW r \in Runs, TakeRun(r) PROVE TypeOK'
  BY <1>15 DEF TakeRun, ownVars
<1>16. CASE Terminate
  BY <1>16 DEF Terminate
<1>17. CASE UNCHANGED vars
  BY <1>17 DEF vars, ownVars
<1> QED
  BY <1>1, <1>2, <1>3, <1>4, <1>5, <1>6, <1>7, <1>8, <1>9, <1>10, <1>12, <1>13,
     <1>14, <1>15, <1>16, <1>17, <1>11
     DEF Next, BatchStep, Advance, Environment

\* Type correctness of the orchestrator.
THEOREM OrchestratorTypeOK == Spec => []TypeOK
BY TypeOKInit, TypeOKIsInductive, PTL DEF Spec

-----------------------------------------------------------------------------
(* The invariant.  Its parts are named for the reason they are needed.      *)

\* An activity past its upload has left its index blob: the message may go.
IndexedBeforeSent ==
    \A e \in Entries : task[e] \in {"indexed", "sent", "done"} => RunId(e) \in index

\* No result is recorded before the last announcement, which would undo it.
NoResultYet ==
    pc \in {"staging", "dispatching", "announcing"} =>
        \A e \in Entries : ~IsTerminalRunStatus(progress.run[e])

\* task_any never returns more results of a run than it has waits.
WithinWaits == \A r \in Runs : Len(collected[r]) <= Waits(r)

\* Once finalize_batch is scheduled the collect loop is over for good.
FinalIsAfterLoop ==
    final # "none" =>
        /\ pc \in {"finalizing", "batchEvent"} \cup Ended
        /\ \A r \in Runs : ~Pending(r)

\* Only finalize_batch writes the document, and from these results.
DocumentIsOfFinal ==
    document # NoDocument =>
        final \in {"written", "failed"} /\ document = DocumentOf(collected)

\* The orchestrator goes on from finalize_batch only with a document.
WrittenIsThere == final = "written" \/ pc = "batchEvent" => document # NoDocument

\* The waits of a run take its events in the order Durable accepted them.
TakenInOrder ==
    \A r \in Runs :
        /\ Len(collected[r]) <= Len(raised[r])
        /\ \A k \in 1 .. Len(collected[r]) : collected[r][k] = raised[r][k]

OInv ==
    /\ TypeOK
    /\ IndexBeforeMessage
    /\ IndexedBeforeSent
    /\ NoResultYet
    /\ WithinWaits
    /\ FinalIsAfterLoop
    /\ DocumentIsOfFinal
    /\ WrittenIsThere
    /\ TakenInOrder

\* An announcement makes runs dispatched and nothing else.
LEMMA DispatchedRuns ==
  ASSUME NEW p \in ProgressDoc, NEW r, NEW e \in Entries
  PROVE  RecordDispatchedRun(p, r).run[e] \in {p.run[e], "dispatched"}
BY DEF RecordDispatchedRun, ProgressDoc

\* A result leaves the runs alone that are terminal.
LEMMA ResultRuns ==
  ASSUME NEW p \in ProgressDoc, NEW r, NEW s, NEW e \in Entries,
         IsTerminalRunStatus(p.run[e])
  PROVE  RecordRunResult(p, r, s).run[e] = p.run[e]
BY DEF RecordRunResult, ProgressDoc

\* The statuses before a result are not terminal.
LEMMA QueuedIsNotTerminal ==
  ~IsTerminalRunStatus("queued") /\ ~IsTerminalRunStatus("dispatched")
BY DEF IsTerminalRunStatus, StatusKey

\* The invariant holds of a new instance.
LEMMA OInvInit == Init => OInv
<1> SUFFICES ASSUME Init PROVE OInv
  OBVIOUS
<1>1. TypeOK
  BY TypeOKInit
<1>2. NoResultYet
  BY QueuedIsNotTerminal DEF Init, InitialProgress, NoResultYet
<1>3. WithinWaits
  BY WaitsType DEF Init, WithinWaits
<1>4. TakenInOrder
  BY DEF Init, TakenInOrder
<1> QED
  BY <1>1, <1>2, <1>3, <1>4
     DEF Init, OInv, IndexBeforeMessage, IndexedBeforeSent, FinalIsAfterLoop,
         DocumentIsOfFinal, WrittenIsThere, NoDocument

\* A batch has a CV, hence its document is not the empty one.
LEMMA DocumentIsSomething == \A results : DocumentOf(results) # NoDocument
<1>1. 1 \in Positions
  BY CvsAssumption DEF Positions
<1>2. \A results : DOMAIN DocumentOf(results) # {}
  BY <1>1 DEF DocumentOf
<1>3. DOMAIN NoDocument = {}
  BY DEF NoDocument
<1> QED
  BY <1>2, <1>3

\* The loop goes on, or finalize_batch is scheduled with every wait served.
LEMMA ContinueLoopKeeps ==
  ASSUME OInv, ContinueLoop, pc \in {"runEvent", "appEvent"}, UNCHANGED <<collected, document>>
  PROVE  FinalIsAfterLoop' /\ DocumentIsOfFinal'
<1>1. final = "none"
  BY DEF OInv, FinalIsAfterLoop, Ended
<1>2. document = NoDocument
  BY <1>1 DEF OInv, DocumentIsOfFinal
<1>3. CASE \E r \in Runs : Pending(r)
  BY <1>1, <1>2, <1>3 DEF ContinueLoop, FinalIsAfterLoop, DocumentIsOfFinal
<1>4. CASE ~\E r \in Runs : Pending(r)
  BY <1>2, <1>4 DEF ContinueLoop, FinalIsAfterLoop, DocumentIsOfFinal, Pending
<1> QED
  BY <1>3, <1>4

\* Every step preserves the invariant, part by part.
LEMMA OInvIsInductive == OInv /\ [Next]_vars => OInv'
<1> SUFFICES ASSUME OInv, [Next]_vars PROVE OInv'
  OBVIOUS
<1>0. TypeOK /\ TypeOK'
  BY TypeOKIsInductive DEF OInv
<1> USE DEF Ended
<1>a. IndexBeforeMessage' /\ IndexedBeforeSent'
  <2> USE DEF IndexBeforeMessage, IndexedBeforeSent
  <2>1. ASSUME NEW e \in Entries, DispatchAdvances(e) \/ DispatchFaults(e)
        PROVE  IndexBeforeMessage' /\ IndexedBeforeSent'
    BY <1>0, <2>1 DEF OInv, TypeOK, DispatchAdvances, DispatchFaults, WriteIndex, SendRun,
        ReportDispatch, RestartDispatch, DispatchFails
  <2>2. CASE StagePrompt
    BY <2>2 DEF StagePrompt, OInv
  <2>3. CASE UNCHANGED <<task, index, runQueue>>
    BY <2>3 DEF OInv
  <2>4. ASSUME NEW r \in Runs, TakeRun(r) PROVE IndexBeforeMessage' /\ IndexedBeforeSent'
    BY <2>4 DEF TakeRun, ownVars, OInv
  <2> QED
    BY <2>1, <2>2, <2>3, <2>4
       DEF Next, BatchStep, Advance, Environment, vars, ownVars, StageFails, Announce,
           StartCollecting, Collect, AfterRunEvent, AfterAppEvent, WriteDocument,
           WriteLateDocument, FinalizeFails, AfterFinalize, Complete, ReceiveEvent, Terminate
<1>b. NoResultYet'
  <2>1. ASSUME NEW e \in Entries, Announce(e) PROVE NoResultYet'
    <3>1. /\ pc \in {"dispatching", "announcing"}
          /\ progress' = RecordDispatchedRun(progress, RunId(e))
      BY <2>1 DEF Announce
    <3>2. ASSUME NEW f \in Entries PROVE ~IsTerminalRunStatus(progress'.run[f])
      <4>1. progress'.run[f] \in {progress.run[f], "dispatched"}
        BY <1>0, <3>1, DispatchedRuns DEF TypeOK
      <4> QED
        BY <3>1, <4>1, QueuedIsNotTerminal DEF OInv, NoResultYet
    <3> QED
      BY <3>2 DEF NoResultYet
  <2>2. CASE StagePrompt
    BY <2>2 DEF StagePrompt, OInv, NoResultYet
  <2>3. CASE /\ pc' = pc \/ pc' \notin {"staging", "dispatching", "announcing"}
             /\ progress' = progress \/ pc' \notin {"staging", "dispatching", "announcing"}
    BY <2>3 DEF OInv, NoResultYet
  <2> QED
    BY <2>1, <2>2, <2>3
       DEF Next, BatchStep, Advance, Environment, vars, ownVars, StageFails,
           DispatchAdvances, DispatchFaults, WriteIndex, SendRun, ReportDispatch,
           RestartDispatch, DispatchFails, StartCollecting, Collect, AfterRunEvent,
           AfterAppEvent, ContinueLoop, WriteDocument, WriteLateDocument, FinalizeFails,
           AfterFinalize, Complete, ReceiveEvent, TakeRun, Terminate
<1>c. WithinWaits'
  <2>1. ASSUME NEW r \in Runs, Collect(r) PROVE WithinWaits'
    <3>1. /\ Len(collected[r]) < Waits(r)
          /\ \E s : collected' = [collected EXCEPT ![r] = Append(@, s)]
      BY <2>1 DEF Collect, Pending
    <3>2. ASSUME NEW q \in Runs PROVE Len(collected'[q]) <= Waits(q)
      <4>1. CASE q = r
        <5>1. Len(collected'[q]) = Len(collected[r]) + 1
          BY <1>0, <3>1, <4>1 DEF TypeOK
        <5> QED
          BY <1>0, <3>1, <4>1, <5>1, WaitsType DEF TypeOK
      <4>2. CASE q # r
        BY <1>0, <3>1, <4>2 DEF OInv, WithinWaits, TypeOK
      <4> QED
        BY <4>1, <4>2
    <3> QED
      BY <3>2 DEF WithinWaits, Waits
  <2>2. CASE UNCHANGED collected
    BY <2>2 DEF OInv, WithinWaits, Waits
  <2> QED
    BY <2>1, <2>2
       DEF Next, BatchStep, Advance, Environment, vars, ownVars, StagePrompt, StageFails,
           DispatchAdvances, DispatchFaults, WriteIndex, SendRun, ReportDispatch,
           RestartDispatch, DispatchFails, Announce, StartCollecting, AfterRunEvent,
           AfterAppEvent, WriteDocument, WriteLateDocument, FinalizeFails, AfterFinalize,
           Complete, ReceiveEvent, TakeRun, Terminate
<1>d. FinalIsAfterLoop' /\ DocumentIsOfFinal'
  <2> USE DEF FinalIsAfterLoop, DocumentIsOfFinal
  <2>1. CASE AfterRunEvent
    <3>1. pc = "runEvent" /\ UNCHANGED <<collected, document>>
      BY <2>1 DEF AfterRunEvent
    <3>2. CASE ContinueLoop
      BY <3>1, <3>2, ContinueLoopKeeps
    <3>3. CASE pc' = "appEvent" /\ UNCHANGED final
      BY <3>1, <3>3 DEF OInv, Pending
    <3> QED
      BY <2>1, <3>2, <3>3 DEF AfterRunEvent
  <2>2. CASE AfterAppEvent
    <3>1. ContinueLoop /\ pc = "appEvent" /\ UNCHANGED <<collected, document>>
      BY <2>2 DEF AfterAppEvent
    <3> QED
      BY <3>1, ContinueLoopKeeps
  <2>3. CASE WriteDocument
    BY <2>3 DEF WriteDocument, OInv, Pending, DocumentOf
  <2>4. CASE FinalizeFails
    BY <2>4 DEF FinalizeFails, OInv, Pending, DocumentOf
  <2>5. CASE WriteLateDocument
    BY <2>5 DEF WriteLateDocument, OInv, Pending, DocumentOf
  <2>6. CASE /\ UNCHANGED <<final, document, collected>>
             /\ \/ pc' = pc
                \/ pc' \in Ended
                \/ pc \notin {"finalizing", "batchEvent"} \cup Ended
                \/ pc' = "batchEvent"
    BY <2>6 DEF OInv, Pending, DocumentOf
  <2>7. ASSUME NEW r \in Runs, Collect(r) PROVE FinalIsAfterLoop' /\ DocumentIsOfFinal'
    BY <2>7 DEF Collect, OInv, Pending
  <2> QED
    BY <2>1, <2>2, <2>3, <2>4, <2>6, <2>7, <2>5
       DEF Next, BatchStep, Advance, Environment, vars, ownVars, StagePrompt, StageFails,
           DispatchAdvances, DispatchFaults, WriteIndex, SendRun, ReportDispatch,
           RestartDispatch, DispatchFails, Announce, StartCollecting, AfterFinalize,
           Complete, ReceiveEvent, TakeRun, Terminate
<1>e. TakenInOrder'
  <2>1. ASSUME NEW r \in Runs, Collect(r) PROVE TakenInOrder'
    <3> DEFINE n == Len(collected[r])
               s == raised[r][n + 1]
    <3>1. /\ n \in Nat /\ Len(raised[r]) \in Nat /\ n < Len(raised[r])
          /\ raised' = raised /\ collected' = [collected EXCEPT ![r] = Append(@, s)]
          /\ collected[r] \in Seq(Statuses) /\ s \in Statuses
      BY <1>0, <2>1 DEF Collect, TypeOK
    <3>2. ASSUME NEW q \in Runs
          PROVE  /\ Len(collected'[q]) <= Len(raised[q])
                 /\ \A k \in 1 .. Len(collected'[q]) : collected'[q][k] = raised[q][k]
      <4>1. CASE q = r
        <5>1. collected'[q] = Append(collected[r], s)
          BY <1>0, <3>1, <4>1 DEF TypeOK
        <5>2. Len(collected'[q]) = n + 1 /\ collected'[q][n + 1] = s
          BY <3>1, <5>1
        <5>3. \A k \in 1 .. n : collected'[q][k] = raised[q][k]
          BY <3>1, <4>1, <5>1 DEF OInv, TakenInOrder
        <5> QED
          BY <3>1, <4>1, <5>2, <5>3
      <4>2. CASE q # r
        BY <1>0, <3>1, <4>2 DEF OInv, TakenInOrder, TypeOK
      <4> QED
        BY <4>1, <4>2
    <3> QED
      BY <3>1, <3>2 DEF TakenInOrder
  <2>2. ASSUME NEW r \in Runs, NEW s \in Statuses, ReceiveEvent(r, s) PROVE TakenInOrder'
    <3>1. collected' = collected /\ raised' = [raised EXCEPT ![r] = Append(@, s)]
      BY <2>2 DEF ReceiveEvent, ownVars
    <3>2. ASSUME NEW q \in Runs
          PROVE  /\ Len(collected[q]) <= Len(raised'[q])
                 /\ \A k \in 1 .. Len(collected[q]) : collected[q][k] = raised'[q][k]
      <4>1. /\ raised[q] \in Seq(Statuses) /\ collected[q] \in Seq(Statuses)
            /\ raised'[q] \in {raised[q], Append(raised[q], s)}
        BY <1>0, <3>1 DEF TypeOK
      <4>2. /\ Len(collected[q]) <= Len(raised[q])
            /\ \A k \in 1 .. Len(collected[q]) : collected[q][k] = raised[q][k]
        BY DEF OInv, TakenInOrder
      <4>3. /\ Len(raised[q]) <= Len(raised'[q])
            /\ \A k \in 1 .. Len(raised[q]) : raised'[q][k] = raised[q][k]
        BY <4>1
      <4>4. Len(collected[q]) \in Nat /\ Len(raised[q]) \in Nat /\ Len(raised'[q]) \in Nat
        BY <4>1
      <4> QED
        BY <4>2, <4>3, <4>4
    <3> QED
      BY <3>1, <3>2 DEF TakenInOrder
  <2>3. CASE UNCHANGED <<collected, raised>>
    BY <2>3 DEF OInv, TakenInOrder
  <2> QED
    BY <2>1, <2>2, <2>3
       DEF Next, BatchStep, Advance, Environment, vars, ownVars, StagePrompt, StageFails,
           DispatchAdvances, DispatchFaults, WriteIndex, SendRun, ReportDispatch,
           RestartDispatch, DispatchFails, Announce, StartCollecting, AfterRunEvent,
           AfterAppEvent, WriteDocument, WriteLateDocument, FinalizeFails, AfterFinalize,
           Complete, TakeRun, Terminate
<1>f. WrittenIsThere'
  <2>1. CASE WriteDocument \/ WriteLateDocument
    <3>1. document' = DocumentOf(collected)
      BY <2>1 DEF WriteDocument, WriteLateDocument
    <3>2. document' # NoDocument
      BY <3>1, DocumentIsSomething
    <3> QED
      BY <3>2 DEF WrittenIsThere, NoDocument
  <2>2. CASE AfterFinalize
    BY <2>2 DEF AfterFinalize, OInv, WrittenIsThere, NoDocument
  <2>3. CASE AfterRunEvent \/ AfterAppEvent
    <3>1. final = "none" /\ pc' # "batchEvent" /\ final' \in {final, "scheduled"}
      BY <2>3 DEF AfterRunEvent, AfterAppEvent, ContinueLoop, OInv, FinalIsAfterLoop
    <3> QED
      BY <3>1 DEF WrittenIsThere
  <2>4. CASE /\ pc' = pc \/ pc' # "batchEvent"
             /\ final' = final \/ final' = "failed"
             /\ document' = document
    BY <2>4 DEF OInv, WrittenIsThere, NoDocument
  <2> QED
    BY <2>1, <2>2, <2>3, <2>4
       DEF Next, BatchStep, Advance, Environment, vars, ownVars, StagePrompt, StageFails,
           DispatchAdvances, DispatchFaults, WriteIndex, SendRun, ReportDispatch,
           RestartDispatch, DispatchFails, Announce, StartCollecting, Collect,
           FinalizeFails, Complete, ReceiveEvent, TakeRun, Terminate
<1> QED
  BY <1>0, <1>a, <1>b, <1>c, <1>d, <1>e, <1>f DEF OInv

-----------------------------------------------------------------------------
(* The theorems.                                                           *)

\* The invariant holds of every execution of the orchestrator.
THEOREM OrchestratorInvariant == Spec => []OInv
BY OInvInit, OInvIsInductive, PTL DEF Spec

\* dispatch_run: no run message is sent before its run-index blob is written,
\* whatever executions of the activity are cut short and repeated.
THEOREM IndexBeforeMessageHolds == Spec => []IndexBeforeMessage
<1>1. OInv => IndexBeforeMessage
  BY DEF OInv
<1> QED
  BY <1>1, OrchestratorInvariant, PTL

\* finalize_batch: result.json holds the results the orchestrator took, one for
\* each of its waits.
THEOREM DocumentIsLedgerHolds == Spec => []DocumentIsLedger
<1>1. OInv => DocumentIsLedger
  <2> SUFFICES ASSUME OInv, document # NoDocument
               PROVE  /\ document = DocumentOf(collected)
                      /\ \A r \in Runs : Len(collected[r]) = Waits(r)
    BY DEF DocumentIsLedger
  <2>1. document = DocumentOf(collected) /\ \A r \in Runs : ~Pending(r)
    BY DEF OInv, DocumentIsOfFinal, FinalIsAfterLoop
  <2>2. ASSUME NEW r \in Runs PROVE Len(collected[r]) = Waits(r)
    <3>1. Len(collected[r]) <= Waits(r) /\ ~(Len(collected[r]) < Waits(r))
      BY <2>1 DEF OInv, WithinWaits, Pending
    <3>2. Len(collected[r]) \in Nat /\ Waits(r) \in Nat
      BY WaitsType DEF OInv, TypeOK
    <3> QED
      BY <3>1, <3>2
  <2> QED
    BY <2>1, <2>2
<1> QED
  BY <1>1, OrchestratorInvariant, PTL

\* A run that is terminal in the progress document keeps its status: results are
\* not overwritten and announcements come before the first of them.
THEOREM TerminalRunIsFinalHolds == Spec => TerminalRunIsFinal
<1> DEFINE Kept == \A e \in Entries :
              IsTerminalRunStatus(progress.run[e]) => (progress'.run[e] = progress.run[e])
<1>1. OInv /\ [Next]_vars => [Kept]_vars
  <2> SUFFICES ASSUME OInv, Next PROVE Kept
    OBVIOUS
  <2>1. ASSUME NEW f \in Entries, Announce(f) PROVE Kept
    BY <2>1 DEF Announce, OInv, NoResultYet
  <2>2. ASSUME NEW r \in Runs, Collect(r) PROVE Kept
    BY <2>2, ResultRuns DEF Collect, OInv, TypeOK
  <2>3. CASE AfterFinalize
    BY <2>3 DEF AfterFinalize, OInv, TypeOK, ProgressDoc
  <2>4. CASE UNCHANGED progress
    BY <2>4
  <2> QED
    BY <2>1, <2>2, <2>3, <2>4
       DEF Next, BatchStep, Advance, Environment, ownVars, StagePrompt, StageFails,
           DispatchAdvances, DispatchFaults, WriteIndex, SendRun, ReportDispatch,
           RestartDispatch, DispatchFails, StartCollecting, AfterRunEvent, AfterAppEvent,
           WriteDocument, WriteLateDocument, FinalizeFails, Complete, ReceiveEvent, TakeRun,
           Terminate
<1> QED
  BY <1>1, OrchestratorInvariant, PTL DEF Spec, TerminalRunIsFinal

\* An instance that has ended stays as it ended, whatever activities still run.
THEOREM EndIsFinalHolds == Spec => EndIsFinal
<1> DEFINE Kept == (pc \in Ended) =>
              (pc' = pc /\ progress' = progress /\ collected' = collected)
<1>1. [Next]_vars => [Kept]_vars
  BY DEF Ended, vars, Next, BatchStep, Advance, Environment, ownVars, StagePrompt, StageFails,
         DispatchAdvances, DispatchFaults, WriteIndex, SendRun, ReportDispatch,
         RestartDispatch, DispatchFails, Announce, StartCollecting, Collect, AfterRunEvent,
         AfterAppEvent, WriteDocument, WriteLateDocument, FinalizeFails, AfterFinalize,
         Complete, ReceiveEvent, TakeRun, Terminate
<1> QED
  BY <1>1, PTL DEF Spec, EndIsFinal
=============================================================================
