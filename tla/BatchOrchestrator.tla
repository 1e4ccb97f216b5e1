-------------------------- MODULE BatchOrchestrator --------------------------
(***************************************************************************)
(* orchestrator/functions/fanout: the Durable orchestrator of one batch    *)
(* (batch_orchestrator) and the activities it schedules: prepare_prompt_   *)
(* blob, dispatch_run once per entry, finalize_batch.                      *)
(*                                                                         *)
(* A Durable orchestrator is a deterministic generator: it runs from one   *)
(* yield to the next, and its custom status is saved at every yield, so    *)
(* "progress" is what a status reader sees whenever pc rests.  pc names    *)
(* the yield the orchestrator waits at, or how the instance ended.         *)
(* Activities run elsewhere, at least once: a worker lost before it        *)
(* reported has its activity run again from the start, and activities      *)
(* already scheduled go on after the instance has ended.                   *)
(*                                                                         *)
(* The environment raises external events, takes messages off engine-runs  *)
(* and may terminate the instance.                                         *)
(***************************************************************************)
EXTENDS Progress

CONSTANTS
    MaxRaises,    \* bound: events the environment raises per run
    MaxRestarts   \* bound: dispatch activities that are run again

ASSUME BoundsAssumption == MaxRaises \in Nat /\ MaxRestarts \in Nat

VARIABLES
    pc,         \* the yield the orchestrator is at, or how it ended
    task,       \* per entry, its dispatch_run activity
    index,      \* runs with a run-index/{run}.json blob
    runQueue,   \* runs with a message on engine-runs
    raised,     \* per run, the external events run-{run} received, in order
    announced,  \* entries of which run.dispatched was published
    collected,  \* per run, the results taken out of its waits (run_results)
    current,    \* the run whose result is being processed
    progress,   \* the progress document (custom status)
    seq,        \* event_sequence
    emitted,    \* emitted_application_events
    final,      \* the finalize_batch activity
    document,   \* batches/{batch}/result.json
    restarts    \* dispatch activities run again so far

ownVars == <<pc, task, announced, collected, current, progress, seq, emitted,
             final, document, restarts>>
vars == <<index, runQueue, raised, ownVars>>

NoDocument == <<>>
Ended == {"completed", "failed", "terminated"}
Phases == {"staging", "dispatching", "announcing", "collecting", "runEvent",
           "appEvent", "finalizing", "batchEvent"} \cup Ended
TaskStates == {"idle", "scheduled", "indexed", "sent", "done", "failed"}
FinalStates == {"none", "scheduled", "written", "failed"}

\* What finalize_batch writes: per CV, the results of its application's runs
\* in the order of their index.
DocumentOf(results) ==
    [c \in Positions |-> [i \in RunIdx |-> results[<<CvApps[c], i>>]]]

TypeOK ==
    /\ pc \in Phases
    /\ task \in [Entries -> TaskStates]
    /\ index \subseteq Runs
    /\ runQueue \subseteq Runs
    /\ raised \in [Runs -> Seq(Statuses)]
    /\ announced \subseteq Entries
    /\ collected \in [Runs -> Seq(Statuses)]
    /\ current \in Runs
    /\ progress \in ProgressDoc
    /\ seq \in Nat
    /\ emitted \subseteq Apps
    /\ final \in FinalStates
    /\ document \in {NoDocument} \cup [Positions -> [RunIdx -> Seq(Statuses)]]
    /\ restarts \in 0 .. MaxRestarts

Init ==
    /\ pc = "staging"
    /\ task = [e \in Entries |-> "idle"]
    /\ index = {}
    /\ runQueue = {}
    /\ raised = [r \in Runs |-> <<>>]
    /\ announced = {}
    /\ collected = [r \in Runs |-> <<>>]
    /\ current = RunId(<<1, 0>>)
    /\ progress = InitialProgress
    /\ seq = 0
    /\ emitted = {}
    /\ final = "none"
    /\ document = NoDocument
    /\ restarts = 0

-----------------------------------------------------------------------------
(* The dispatch_run activities.                                            *)

\* Variant: one index blob for the batch, overwritten by every run.
WriteOnlyIndex(e) ==
    /\ task[e] = "scheduled"
    /\ task' = [task EXCEPT ![e] = "indexed"]
    /\ index' = {RunId(e)}
    /\ UNCHANGED <<pc, runQueue, raised, announced, collected, current,
                   progress, seq, emitted, final, document, restarts>>

\* The input's sha256 is verified and the run-index blob written.
WriteIndex(e) ==
    /\ task[e] = "scheduled"
    /\ task' = [task EXCEPT ![e] = "indexed"]
    /\ index' = index \cup {RunId(e)}
    /\ UNCHANGED <<pc, runQueue, raised, announced, collected, current,
                   progress, seq, emitted, final, document, restarts>>

\* Variant: the send does not wait for the upload of the index blob.
SendBeforeIndex(e) ==
    /\ task[e] \in {"scheduled", "indexed"}
    /\ task' = [task EXCEPT ![e] = "sent"]
    /\ runQueue' = runQueue \cup {RunId(e)}
    /\ UNCHANGED <<pc, index, raised, announced, collected, current, progress,
                   seq, emitted, final, document, restarts>>

\* The RunMessage is sent; every execution sends one, with a fresh message id.
SendRun(e) ==
    /\ task[e] = "indexed"
    /\ task' = [task EXCEPT ![e] = "sent"]
    /\ runQueue' = runQueue \cup {RunId(e)}
    /\ UNCHANGED <<pc, index, raised, announced, collected, current, progress,
                   seq, emitted, final, document, restarts>>

ReportDispatch(e) ==
    /\ task[e] = "sent"
    /\ task' = [task EXCEPT ![e] = "done"]
    /\ UNCHANGED <<pc, index, runQueue, raised, announced, collected, current,
                   progress, seq, emitted, final, document, restarts>>

\* The worker is lost before it reported: the activity runs again.
RestartDispatch(e) ==
    /\ task[e] \in {"indexed", "sent"}
    /\ restarts < MaxRestarts
    /\ restarts' = restarts + 1
    /\ task' = [task EXCEPT ![e] = "scheduled"]
    /\ UNCHANGED <<pc, index, runQueue, raised, announced, collected, current,
                   progress, seq, emitted, final, document>>

\* Variant: the failure is recorded whatever became of the instance meanwhile.
DispatchFailsAnyway(e) ==
    /\ task[e] \in {"scheduled", "indexed"}
    /\ task' = [task EXCEPT ![e] = "failed"]
    /\ pc' = "failed"
    /\ UNCHANGED <<index, runQueue, raised, announced, collected, current,
                   progress, seq, emitted, final, document, restarts>>

\* The activity raises (sha256 mismatch, failed upload, failed send): task_all
\* fails at once and with it the orchestrator; the other tasks run on.
DispatchFails(e) ==
    /\ task[e] \in {"scheduled", "indexed"}
    /\ task' = [task EXCEPT ![e] = "failed"]
    /\ pc' = IF pc = "dispatching" THEN "failed" ELSE pc
    /\ UNCHANGED <<index, runQueue, raised, announced, collected, current,
                   progress, seq, emitted, final, document, restarts>>

-----------------------------------------------------------------------------
(* The orchestrator, from yield to yield.                                  *)

\* prepare_prompt_blob done; every dispatch is scheduled and every wait made.
StagePrompt ==
    /\ pc = "staging"
    /\ pc' = "dispatching"
    /\ task' = [e \in Entries |-> "scheduled"]
    /\ UNCHANGED <<index, runQueue, raised, announced, collected, current,
                   progress, seq, emitted, final, document, restarts>>

StageFails ==
    /\ pc = "staging"
    /\ pc' = "failed"
    /\ UNCHANGED <<task, index, runQueue, raised, announced, collected, current,
                   progress, seq, emitted, final, document, restarts>>

\* e is the next element of dispatched_runs: task_all keeps the task order.
NextToAnnounce(e) ==
    /\ e \in Entries \ announced
    /\ \A f \in Entries \ announced : e[1] < f[1] \/ (e[1] = f[1] /\ e[2] <= f[2])

\* One turn of the loop over dispatched_runs, up to its yield; the first turn
\* follows the task_all, the others the previous turn's yield.
Announce(e) ==
    /\ \/ pc = "dispatching" /\ \A f \in Entries : task[f] = "done"
       \/ pc = "announcing"
    /\ NextToAnnounce(e)
    /\ announced' = announced \cup {e}
    /\ progress' = RecordDispatchedRun(progress, RunId(e))
    /\ seq' = seq + 1
    /\ pc' = "announcing"
    /\ UNCHANGED <<task, index, runQueue, raised, collected, current, emitted,
                   final, document, restarts>>

\* The loop is over; the orchestrator waits in task_any.
StartCollecting ==
    /\ pc = "announcing"
    /\ announced = Entries
    /\ pc' = "collecting"
    /\ UNCHANGED <<task, index, runQueue, raised, announced, collected, current,
                   progress, seq, emitted, final, document, restarts>>

\* The waits on run-{r}: one per entry whose run id is r.  Durable gives every
\* event of that name to one of them.
Waits(r) == Cardinality({e \in Entries : RunId(e) = r})

\* Variant: one wait too many.
PendingOffByOne(r) == Len(collected[r]) <= Waits(r)

Pending(r) == Len(collected[r]) < Waits(r)

\* task_any returns with a result of r: it is recorded, and the orchestrator
\* yields to the publication of the run's live event.
Collect(r) ==
    /\ pc = "collecting"
    /\ Pending(r)
    /\ Len(collected[r]) < Len(raised[r])
    /\ LET s == raised[r][Len(collected[r]) + 1]
       IN  /\ collected' = [collected EXCEPT ![r] = Append(@, s)]
           /\ progress' = RecordRunResult(progress, r, s)
    /\ current' = r
    /\ seq' = seq + 1
    /\ pc' = "runEvent"
    /\ UNCHANGED <<task, index, runQueue, raised, announced, emitted, final,
                   document, restarts>>

\* Variant: results are kept per run id and the loop ends when each has one.
ContinueUntilEachRunHasOne ==
    IF \E r \in Runs : collected[r] = <<>>
    THEN pc' = "collecting" /\ UNCHANGED final
    ELSE pc' = "finalizing" /\ final' = "scheduled"

\* "while pending_events", or else finalize_batch is scheduled.
ContinueLoop ==
    IF \E r \in Runs : Pending(r)
    THEN pc' = "collecting" /\ UNCHANGED final
    ELSE pc' = "finalizing" /\ final' = "scheduled"

\* Variant: the application's event follows the first of its results.
AfterFirstRunEvent ==
    /\ pc = "runEvent"
    /\ IF current[1] \notin emitted
       THEN /\ emitted' = emitted \cup {current[1]}
            /\ seq' = seq + 1
            /\ pc' = "appEvent"
            /\ UNCHANGED final
       ELSE ContinueLoop /\ UNCHANGED <<emitted, seq>>
    /\ UNCHANGED <<task, index, runQueue, raised, announced, collected, current,
                   progress, document, restarts>>

\* After the run's event: the application's own event, once, if it is terminal.
AfterRunEvent ==
    /\ pc = "runEvent"
    /\ LET a == current[1]
       IN  IF IsApplicationTerminal(progress, FindApplication(a)) /\ a \notin emitted
           THEN /\ emitted' = emitted \cup {a}
                /\ seq' = seq + 1
                /\ pc' = "appEvent"
                /\ UNCHANGED final
           ELSE ContinueLoop /\ UNCHANGED <<emitted, seq>>
    /\ UNCHANGED <<task, index, runQueue, raised, announced, collected, current,
                   progress, document, restarts>>

AfterAppEvent ==
    /\ pc = "appEvent"
    /\ ContinueLoop
    /\ UNCHANGED <<task, index, runQueue, raised, announced, collected, current,
                   progress, seq, emitted, document, restarts>>

\* finalize_batch uploads result.json: of that document the model keeps the
\* "runs" of each CV, which every execution writes alike (Finalization has the
\* aggregates, which it may not).
WriteDocument ==
    /\ final = "scheduled"
    /\ final' = "written"
    /\ document' = DocumentOf(collected)
    /\ UNCHANGED <<pc, task, index, runQueue, raised, announced, collected,
                   current, progress, seq, emitted, restarts>>

\* An execution that Durable runs again, though one that failed was reported.
WriteLateDocument ==
    /\ final = "failed"
    /\ document' = DocumentOf(collected)
    /\ UNCHANGED <<pc, task, index, runQueue, raised, announced, collected,
                   current, progress, seq, emitted, final, restarts>>

\* finalize_batch raises, before the upload or in an execution after it.
FinalizeFails ==
    /\ final \in {"scheduled", "written"}
    /\ pc \in {"finalizing", "terminated"}
    /\ final' = "failed"
    /\ pc' = IF pc = "finalizing" THEN "failed" ELSE pc
    /\ UNCHANGED <<task, index, runQueue, raised, announced, collected, current,
                   progress, seq, emitted, document, restarts>>

\* Variant: the orchestrator does not wait for finalize_batch.
AfterFinalizeScheduled ==
    /\ pc = "finalizing"
    /\ progress' = [progress EXCEPT !.status =
                        IF IsCancelledBatch(progress) THEN "cancelled" ELSE "completed"]
    /\ seq' = seq + 1
    /\ pc' = "batchEvent"
    /\ UNCHANGED <<task, index, runQueue, raised, announced, collected, current,
                   emitted, final, document, restarts>>

\* finalize_batch reported: the batch's status is set and its event published.
AfterFinalize ==
    /\ pc = "finalizing"
    /\ final = "written"
    /\ progress' = [progress EXCEPT !.status =
                        IF IsCancelledBatch(progress) THEN "cancelled" ELSE "completed"]
    /\ seq' = seq + 1
    /\ pc' = "batchEvent"
    /\ UNCHANGED <<task, index, runQueue, raised, announced, collected, current,
                   emitted, final, document, restarts>>

Complete ==
    /\ pc = "batchEvent"
    /\ pc' = "completed"
    /\ UNCHANGED <<task, index, runQueue, raised, announced, collected, current,
                   progress, seq, emitted, final, document, restarts>>

-----------------------------------------------------------------------------
(* The environment.                                                        *)

\* Durable accepts an external event unless the instance has ended, and keeps
\* it until a wait of that name takes it.
ReceiveEvent(r, s) ==
    /\ pc \notin Ended
    /\ Len(raised[r]) < MaxRaises
    /\ raised' = [raised EXCEPT ![r] = Append(@, s)]
    /\ UNCHANGED <<index, runQueue, ownVars>>

\* The engine completes the run's messages on engine-runs.
TakeRun(r) ==
    /\ r \in runQueue
    /\ runQueue' = runQueue \ {r}
    /\ UNCHANGED <<index, raised, ownVars>>

\* client.terminate takes effect, between two yields.
Terminate ==
    /\ pc \notin Ended
    /\ pc' = "terminated"
    /\ UNCHANGED <<task, index, runQueue, raised, announced, collected, current,
                   progress, seq, emitted, final, document, restarts>>

Environment ==
    \/ \E r \in Runs, s \in Statuses : ReceiveEvent(r, s)
    \/ \E r \in Runs : TakeRun(r)
    \/ Terminate

-----------------------------------------------------------------------------

\* A dispatch activity as it goes when nothing fails, and how it may fail.
DispatchAdvances(e) == WriteIndex(e) \/ SendRun(e) \/ ReportDispatch(e)
DispatchFaults(e) == RestartDispatch(e) \/ DispatchFails(e)

\* The orchestrator's own thread of control, and finalize_batch.
Advance ==
    \/ StagePrompt
    \/ \E e \in Entries : Announce(e)
    \/ StartCollecting
    \/ \E r \in Runs : Collect(r)
    \/ AfterRunEvent
    \/ AfterAppEvent
    \/ AfterFinalize
    \/ Complete

BatchStep ==
    \/ \E e \in Entries : DispatchAdvances(e) \/ DispatchFaults(e)
    \/ Advance
    \/ WriteDocument
    \/ WriteLateDocument
    \/ StageFails
    \/ FinalizeFails

Next == BatchStep \/ Environment

Spec == Init /\ [][Next]_vars

-----------------------------------------------------------------------------
(* What the orchestrator promises to its environment.  Where a property    *)
(* needs every CV to name its own application it says so.                   *)

\* dispatch_run: "The run-index blob is written before the SB send", whichever
\* executions of the activity are cut short and repeated.
IndexBeforeMessage == runQueue \subseteq index

\* The counters the status route publishes are those of the results taken so
\* far: runsCompleted and each application's runsCompleted count runs with a
\* result, runsDispatched counts announced entries, cvsCompleted counts the
\* applications that are terminal now although it is only counted at times.
CountersMatchLedger ==
    DistinctApps =>
        /\ progress.runsCompleted = Cardinality({r \in Runs : collected[r] # <<>>})
        /\ progress.runsDispatched = Cardinality(announced)
        /\ progress.cvsCompleted = Cardinality(CompletedIds(progress))
        /\ \A c \in Positions :
               progress.appRunsCompleted[c] =
                   Cardinality({i \in RunIdx : collected[<<CvApps[c], i>>] # <<>>})

\* Two codes number the live events of a batch: the orchestrator counts its own
\* (event_sequence), http_terminate derives a number from the progress document
\* (_next_event_sequence).  Until the batch's last event the derived number is
\* the next one of the orchestrator, but for the event of an application that
\* the document already shows terminal; after the last event it repeats that.
SequencesAgree ==
    DistinctApps =>
        LET due == IF pc = "runEvent" /\ current[1] \in CompletedIds(progress) \ emitted
                   THEN 1 ELSE 0
        IN  /\ pc \in Phases \ ({"batchEvent"} \cup Ended) =>
                   NextEventSequence(progress) = seq + 1 + due
            /\ pc = "batchEvent" => NextEventSequence(progress) = seq

\* application.completed has been published for exactly the applications that
\* are terminal whenever the orchestrator waits for the next result.
EmittedAreTerminal ==
    DistinctApps /\ pc \in {"collecting", "finalizing"} =>
        emitted = CompletedIds(progress)

\* The durable handoff is the ledger: once result.json exists it holds every
\* result the orchestrator took, one for each of its waits, and no later result
\* is taken behind its back.
DocumentIsLedger ==
    document # NoDocument =>
        /\ document = DocumentOf(collected)
        /\ \A r \in Runs : Len(collected[r]) = Waits(r)

\* data-model.md, "terminal -> terminal (duplicate callbacks do not change
\* authoritative outcome)": a run that is terminal keeps its status, under late
\* announcements, further events and failing activities alike.
TerminalRunIsFinal ==
    [][\A e \in Entries :
           IsTerminalRunStatus(progress.run[e]) => (progress'.run[e] = progress.run[e])]_vars

\* An instance that has ended stays as it ended, and its progress document and
\* results with it, while activities it scheduled earlier still run.
EndIsFinal ==
    [][(pc \in Ended) =>
           (pc' = pc /\ progress' = progress /\ collected' = collected)]_vars

\* A completed batch has all its runs dispatched and completed, all its CVs
\* completed, and an application event for each of them.
CompletedIsWhole ==
    pc = "completed" =>
        /\ progress.runsDispatched = RunsTotal
        /\ progress.runsCompleted = RunsTotal
        /\ progress.cvsCompleted = CvsTotal
        /\ emitted = {CvApps[c] : c \in Positions}
=============================================================================
