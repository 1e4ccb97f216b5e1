# Verification of the talent-match platform

TLA+ models of the platform in this repository, TLC runs over small instances
of them, and TLAPS proofs about them. Paths below are relative to `src/`.

## 1. The system

A client submits a *batch*: a prompt and up to 100 CVs, each to be scored
`runCount` times. The platform fans the batch out to an external scoring
engine, one message per (CV, run index), collects the results, aggregates them
per CV and hands the outcome back.

| Component | Where | State it keeps | Operations |
|---|---|---|---|
| Batch API | `api/routes_assess.py`, `api/durable_client.py` | none (stateless, in front of the Functions host) | submit, status, cancel; reads `result.json` when Durable knows nothing |
| Host routes | `orchestrator/functions/fanout` 873-1043 | none; act on the Durable instance | start (get_status, then start_new), status, terminate (get_status, then terminate, then a live event) |
| Batch orchestrator | `fanout` 413-564, helpers 60-220, 335-409 | Durable history: pending waits, `run_results`, progress document, `event_sequence`, `emitted_application_events` | stage prompt, dispatch all, announce all, collect one by one, finalize, publish |
| Activities | `fanout` 568-703 | blobs `batches/{id}/prompt.txt`, `run-index/{run}.json`, `batches/{id}/result.json`; messages on `engine-runs` | `prepare_prompt_blob`, `dispatch_run`, `finalize_batch`, `project_live_progress` |
| Result intake | `orchestrator/functions/result_intake` | marker blobs `result-delivery/{run}.json` | Service Bus trigger on `engine-results`; `PATCH /runs/{run}` |
| DLQ replay | `orchestrator/functions/dlq_replay` | none; moves messages of the dead-letter queues | peek, replay |
| Aggregation | `runtime/aggregation/shared.py`, `fanout` 706-796 | none (pure, but for reading artifacts) | median, mode, AND; generic profile |
| Live events | `runtime/events.py`, `fanout` 223-332 | none; posts to SignalR | build and project, best effort |
| API authentication | `api/auth.py` | two caches (OpenID configuration, JWKS) with a 300 s life | verify a token |
| Scoring engine | outside; `tools/fake-engine` imitates it | - | takes run messages, reports results on either channel |
| Durable Functions, Service Bus, Blob Storage | outside | instances, queues, blobs | at-least-once activities and messages, conditional blob creation |

How they interact: the orchestrator schedules activities and waits for external
events `run-{run}`; `dispatch_run` writes the run's index blob and then sends
the run message; the engine answers over Service Bus or HTTP; intake finds the
batch through the index blob, claims the run by creating its marker blob, and
raises the event; the orchestrator records it and, when no wait is left, has
`finalize_batch` write the handoff document.

What is hard in it:

* messages and activities are repeated: two engine executions, hence two
  results and perhaps two statuses for one run, over two channels at once;
* three writes that are not atomic: index blob then message, marker blob then
  event, handoff blob then completion;
* results that arrive before they are waited for, after the instance ended, or
  not at all (the collect loop has no timeout);
* termination between any two yields, with activities still running;
* check-then-act in the host routes (`get_status` before `start_new` and before
  `terminate`) and the 7-day life of the blobs against that of the history;
* two independent codes that number a batch's live events.

What makes each component correct:

* orchestrator: published counters, application events and the handoff are
  those of the results taken; a terminal run stays as it is; an ended instance
  stays ended; a completed batch is whole;
* intake: one event per run; no result that could count is discarded;
* composition: no message outruns its index; the handoff holds the one
  authoritative outcome of every run; every batch ends;
* API and host: one instance per batch id; a status, once final, is final;
  a cancel is answered by what happens;
* DLQ replay: no dispatched run disappears before intake claimed it, and every
  run gets through if somebody replays;
* aggregation and finalization: the aggregates are those of the results taken,
  and what the instance returned is what `result.json` holds.

## 2. Modules

| Module | Models | Extends / instances |
|---|---|---|
| `Progress` | the pure helpers on the progress document | - |
| `BatchOrchestrator` | orchestrator and activities, in an environment that raises events, takes messages and terminates | `Progress` |
| `Aggregation` | pure: profile `cv_scoring_v1` | - |
| `Finalization` | `finalize_batch` in detail, within the orchestrator | `BatchOrchestrator`, `Aggregation` |
| `ResultIntake` | both intake entry points, in an environment that reports results, writes the index and ends the instance | - |
| `DlqReplay` | both queues with delivery counts and dead letters, engine executions, `dlq_replay` | `ResultIntake` |
| `BatchSystem` | orchestrator and intake together, with the engine between them | instances of `BatchOrchestrator`, `ResultIntake` and `ScoringBatch` |
| `ScoringBatch` | abstract: what a client may think a batch is | - |
| `BatchLifecycle` | API routes, host routes and the Durable instance of one batch id | - |
| `MCBatchOrchestrator`, `MCFinalization`, `MCResultIntake`, `MCDlqReplay`, `MCBatchSystem`, `MCBatchLifecycle` | instances for TLC: lists of CVs, documents, symmetry | |
| `BatchOrchestrator_proofs`, `Finalization_proofs`, `ResultIntake_proofs`, `DlqReplay_proofs`, `BatchLifecycle_proofs` | theorems checked by TLAPS | the module of that name |
| `Counters_proofs` | theorems on progress counters, numbering and completion | `BatchOrchestrator_proofs` |
| `Aggregation_proofs` | theorems on sorting, aggregates and the handoff | `Finalization_proofs` |
| `BatchSystem_proofs` | theorems on the composition | `BatchSystem`, instances of the proofs of its components |

Definitions headed "Variant:" are alternative forms of a definition, each a
plausible mistake in the code behind it. No specification uses them; they are
there to see that a property would notice (`mutants` in `PROJECT.json`).

### BatchOrchestrator and Progress

A Durable orchestrator is a generator that is re-run deterministically from one
`yield` to the next, so one action is the code between two yields and `pc` is
the yield it rests at. The custom status is saved at each of them; `progress`
is therefore what a status reader sees in every state.

| State | Code |
|---|---|
| `pc` | position in `batch_orchestrator`, or the runtime status of an ended instance |
| `task[e]` | the `dispatch_run` activity of entry `e` = (CV position, run index) |
| `index`, `document` | blobs `run-index/{run}.json`, `batches/{id}/result.json` |
| `runQueue` | runs with a message on `engine-runs` |
| `raised[r]`, `collected[r]` | events `run-{r}` Durable accepted; those taken (`run_results`) |
| `progress`, `seq`, `emitted` | the dictionary `progress`, `event_sequence`, `emitted_application_events` |
| `final` | the `finalize_batch` activity |

| Action | Code (`fanout`) |
|---|---|
| `StagePrompt`, `StageFails` | 435-465: `prepare_prompt_blob`; all dispatches scheduled, all waits created |
| `WriteIndex`, `SendRun`, `ReportDispatch` | 587-640 `dispatch_run`: hash check and index blob, then the send, then the return |
| `RestartDispatch`, `DispatchFails` | an execution lost with its worker is repeated; one that raises fails `task_all` and the orchestrator, not the other activities |
| `Announce`, `StartCollecting` | 467-493: one turn of the loop over `dispatched_runs`; its end |
| `Collect`, `AfterRunEvent`, `AfterAppEvent` | 494-537: `task_any`, record, run event, application event |
| `WriteDocument`, `FinalizeFails`, `AfterFinalize`, `Complete` | 538-564 and `finalize_batch` 644-700, as one step |
| `WriteLateDocument` | an execution of `finalize_batch` that Durable runs again though an earlier one reported a failure: a failed batch gets a handoff |
| `ReceiveEvent`, `TakeRun`, `Terminate` | external |

Two CVs may name the same application (nothing rejects it): then two entries
have one run id, `_find_application_run` finds the first, and two waits have
one event name. Properties that only make sense otherwise assume `DistinctApps`.

`SequencesAgree` relates the two codes that number live events. The number
`http_terminate` derives from the progress document is the orchestrator's next
one in every state, but for an application event that is due and already shows
in the document; at the last yield it repeats the number of `batch.completed`.
So two events may carry one number, which is as the code has it.

### Finalization and Aggregation

`Finalization` replaces the one step `WriteDocument` by executions of the
activity:

| Action | Code |
|---|---|
| `BeginFinalize` | `finalize_batch` is entered, for the first time or again |
| `AggregateNext` | one turn of the loop over `cvs` 654-685: `_aggregate` 706-796 and `_aggregate_cv_scoring`, on the artifacts of the succeeded runs; reads that fail leave their runs out (794) |
| `UploadResult` | 687-697 |
| `ReportResult`, `ReportFailure`, `ExecutionLost` | the activity's return, an exception, or a worker lost |
| `AfterReport` | the orchestrator takes the report and goes on |
| `CollectOutput`, `Rewrite` | external: the engine's `output.json`, and a later execution of the run that overwrites it (`fake-engine` 87) |

Durable runs the activity at least once, one execution after the other; an
execution may also follow one that reported its result or its failure, and the
first report counts. The reads of one CV are one action, because each artifact
is read once and the artifacts change independently of each other, so any
combination of old and new contents is already reachable by rewriting earlier
or later. Artifacts belong to results taken. Rewrites before `finalize_batch`
is scheduled are left out: nothing has read the artifact yet. The output's
sha256 is announced but never compared, so a rewrite goes unnoticed.

`Aggregation` is translated from `runtime/aggregation/shared.py`: which
documents give a signal, what decision a document without one stands for,
median, mode and AND. The outputs of a CV are a family of documents over the
places of its succeeded runs in the ledger: no part of the result depends on
their order, since the code sorts scores, counts decisions and conjoins the
must-haves. `Median` reads off the middle of any ascending arrangement
(`Ascending`), what `statistics.median` does with the sorted list. A document
keeps the four distinctions the code makes.
Scores are whole numbers and a median is given doubled, so that no fraction is
needed; the variance is left out. Where two decisions are equally frequent the
code takes whichever `set(decisions)` lists first (shared.py:66), an order that
differs between Python processes: `AggregateCvScoring` is therefore a set of
outcomes. (`tests/test_aggregate.py:72` expects a tie to be "at least deterministic",
which within one process it is.) `HandoffAgrees` says when the instance's output and `result.json`
must be the same: no lost read, no rewritten artifact and no tie between two
executions; each of the three conditions is needed.

### ResultIntake

An invocation goes `idle -> claim -> raise -> ack`: `Accept` (body accepted,
`_lookup_batch_id` found the run), `Claim` (create `result-delivery/{run}.json`
without overwriting; a conflict means duplicate), `Raise` or `RaiseFails`, and
`Ack` (Service Bus completes the message, or the PATCH is answered).
`DropUnknown` is the acknowledged drop, or the 404, of a run without index
blob. `InvocationLost` loses an invocation at any step, `RaiseThrows` is a
`raise_event` that fails because the instance has ended; a Service Bus result
is then delivered again, a PATCH may be sent again by the engine
(`Undelivered`).

A result has a form: *canonical* field names, *aliased* ones (`runId`, which the
intake schema accepts too), or *malformed*, which never validates.

### DlqReplay

| State | Code |
|---|---|
| `runQueue`, `inbound` | messages on `engine-runs`, `engine-results` |
| `answered` | runs whose current engine execution has sent its result |
| `runTries`, `resultTries` | failed deliveries of a message so far |
| `deadRuns`, `deadResults` | the two dead-letter queues |
| `received[k]`, `copied[k]` | what a replay of kind k holds the locks of; the one it sent and has not completed |
| `discarded` | results completed as poison |

| Action | Code |
|---|---|
| `DispatchRun`, `EngineAnswers`, `EnginePatches`, `EngineReturns`, `EngineFails` | index and message; an execution of the engine after `tools/fake-engine`, which may fail before or after it answered |
| `RejectResult` | `sb_result_handler` raises before it did anything: body, or lookup |
| `Acknowledge`, `NotReturned`, `DeliveryFails` | completion of a result's message, or one more failed delivery, the last of which dead-letters it |
| `ReceiveDead` | `receive_messages` of `http_dlq_replay`, up to `max` |
| `DiscardPoison` | 98-108: no `run_id` or `status`, completed at once |
| `SendCopy`, `CompleteDead` | 110-118: a copy with a fresh delivery count, then completion |
| `ReplayFails` | 120-122: either of them raises and the loop goes on; or the call is lost and all its locks expire |

A dead letter stays locked while a replay holds it, so one replay per kind is at
work at a time; a lock that expires during the call is a failing step. Equal
messages are one element of a set, which is enough here: a second copy could
only add a trace of a run. `max` is larger than the dead letters of an instance,
and the queues have neither a time to live nor duplicate detection in the
models.

The poison check reads `run_id` (100), where intake also accepts `runId`: a
dead-lettered result with aliased names, which intake would process, is
discarded. `NoRunIsLost` says that this is the only way in which a dispatched
run can disappear before intake claimed it.

### BatchSystem and ScoringBatch

`BatchSystem` shares `index` and `raised` between the two components, takes
`live` from the orchestrator's `pc`, and puts an engine in between: it answers
a message it took, or answers and leaves the message (`EngineRepeats`), on
either channel and with any status. `OrchestratorSpec` and `IntakeSpec` say
that each component only sees what its own specification allows the
environment; `ImplementsScoringBatch` maps the whole to four abstract steps.

### BatchLifecycle

| Action | Code |
|---|---|
| `Submit`, `StartNew` | `submit_batch`, `start_batch`, `http_start`: `get_status`, and at a later step `start_new` |
| `SubmitTimesOut`, `StartNewUnheard` | the API's HTTP timeout: 502 to the client while the host goes on |
| `Status`, `StatusFromBlob` | `get_batch_status`, `http_status`, `_normalize_status`; after a 404 the read of `result.json` |
| `Cancel`, `Terminate` | `cancel_batch`, `http_terminate`: `get_status`, and at a later step `terminate` |
| `TellCompleted` | `_to_status_response`, with its 502 for a missing aggregate |
| `Run`, `ResultsArrive`, `StoreResult`, `Complete`, `Fail`, `BeTerminated` | the orchestrator from far |
| `Purge` | external: the history goes, the blobs stay |

The marker blobs are kept per payload (`marked`), since run ids are derived
from batch id, application and index: a second instance for the same payload
gets no events, because all its results are duplicates to intake, and stays
running. `told` and `verdicts` record what clients were answered.

Divergences that need no run to be seen are in the actions as the code has them:
`http_start` never answers 409, so a different payload under a used batch id is
accepted (`durable_client.py:60-61` says otherwise); a cancel of an unknown id,
or of a failed batch, is answered 202 (`durable_client.py:103`); a batch that
completes between the two steps of a cancel is answered 202 and not 409; status
never says `cancelling` although `specs/002` lists it.

## 3. Runs

| Run | Question | Result |
|---|---|---|
| `intake_races` | one run over both queues and both channels, in all three forms: two invocations, failing executions, lookups and replay steps, a crash. Is an event raised twice, a run lost, or one never claimed although somebody replays? | no: all hold |
| `intake_marker` | does a marker mean the result was processed (`data-model.md:78`)? | no: a crash, or a failing `raise_event`, after the marker loses the result |
| `orchestrator_progress` | do counters, sequence numbers and application events agree with the results taken? 2 CVs x 2 runs, a repeated dispatch | yes |
| `orchestrator_faults` | the guards with three waits for one event name and three results of one run, a repeated dispatch, two executions of `finalize_batch` with a lost read or a rewritten artifact; are the aggregates those of the ledger, does `Finalization` implement the orchestrator? | all hold |
| `orchestrator_partial` | is a completed batch whole when a run ends as Partial? | no: Partial is counted but not terminal |
| `system_races` | end to end, 2 CVs, a repeated answer, a crash, failures, termination | all hold; refinement of both components and of `ScoringBatch` |
| `system_liveness` | does every batch end, is every result taken? | yes, without crashes and with an engine that answers |
| `system_same_application` | the same with one application named twice | no: the second wait is never served |
| `lifecycle_answers` | do the answers of overlapping calls agree with the instance, each other and the blob; does a cancel end the batch? | yes |
| `lifecycle_second_fanout` | is there ever a second fan-out (`spec.md:58`)? | yes: overlapping submits and an instance that ends in between |
| `lifecycle_purged` | does a final status outlive the purge (`routes_assess.py:95`)? | no: cancelled becomes completed |
| `lifecycle_no_aggregate` | can the result of every completed batch be read? | no: 502 if one CV has no succeeded run |

Bounds. All are constants used in guards. Two CVs, two runs each and two
statuses are enough for every case split of the helpers (first and last run of
an application, an application among others, mixed and uniform outcomes).
`MaxRaises` 1 is what intake guarantees (checked by `OrchestratorSpec`), 3 goes
beyond it. `MaxRestarts` and `MaxCrashes` are 1: a fault in every place,
followed by a complete repetition. `MaxDeliveries` is 2 in place of Service
Bus's `max_delivery_count` of 10: a first delivery that is repeated and a last
one that is not are all the cases the count distinguishes; in `BatchSystem`
faults stay below 10 and nothing is dead-lettered. `MaxFaults` 2 lets a message
die by faults alone, or die and have its replay cut short. `MaxExecutions` 2 and
`MaxDisturbances` 1 give one repetition of `finalize_batch` with one difference
between the executions. Three results of one CV are the least for which the
order of scores, an odd and an even number of them, and a majority differ.
`MaxRepeats` 1 gives a run two answers. `MaxCalls` 4 lets two pairs of calls
overlap; two payloads make submissions differ. Deadlock checking is off because
every one of these systems may stop: batches end, calls are used up.

Fairness. `BatchSystem!Fairness`: Durable re-runs orchestrator and activities
until they are done, the Functions host triggers as long as there are messages
and lets an invocation finish, and the engine answers each message once it took
it. The last is an assumption the code needs (the collect loop has no timeout).
Nothing is assumed of failures, repetitions and termination. Liveness is
checked without crashes, since one crash after the marker already defeats it
(`intake_marker`). `DlqReplay!DlqFairness` assumes the same of host and engine,
and that an operator calls replay again and again while there are dead letters,
the purpose of the route; faults are finite in number. `EveryRunIsClaimed` then
holds even with crashes, because it ends at the claim; it excepts results that
no replay can help, the malformed and the discarded. `BatchLifecycle!Fairness` only has begun handlers go on and
terminate requests delivered.

## 4. Proofs

TLAPS proves, for every list of CVs, every set of runs, statuses and documents,
any number of invocations and calls, and any bounds:

* `ResultIntake_proofs`: `IntakeTypeOK`, `EventRaisedOnceHolds`,
  `ClaimIsExclusiveHolds`. The invariant `Inv` adds three facts: an invocation
  at work holds a result, one about to raise has claimed its run, and an event
  exists only for claimed runs. Without them `Claim` could hand the same run to
  two invocations.
* `DlqReplay_proofs`: `DlqTypeOKHolds`, `ReplayRaisesNothingTwice`,
  `ReplayKeepsClaimExclusive`, `NoRunIsLostHolds`. The first invariants of
  intake survive dead-lettering and replay, since every step of the larger
  system is a step of intake or leaves its state alone. For `NoRunIsLost`,
  `DlqInv` adds: every message belongs to a dispatched run; an invocation about
  to acknowledge has a claimed run (`AckIsClaimed`); an execution that has
  answered has left a result, a claim or a discard behind
  (`AnsweredIsAccountedFor`), so that returning loses nothing; and what a replay
  is about to complete has another trace (`CopyIsTraced`), which is where the
  order "send, then complete" is used.
* `BatchOrchestrator_proofs`: `OrchestratorTypeOK`, `IndexBeforeMessageHolds`,
  `DocumentIsLedgerHolds`, `TerminalRunIsFinalHolds`, `EndIsFinalHolds`. The
  invariant `OInv` adds: an activity past its upload has left its index blob
  (`IndexedBeforeSent`); no result is recorded before the last announcement,
  which sets its run to "dispatched" without looking (`NoResultYet`); a run has
  never more results than waits (`WithinWaits`); once `finalize_batch` is
  scheduled the loop is over (`FinalIsAfterLoop`) and only it writes the
  document (`DocumentIsOfFinal`), which is there when the orchestrator goes on
  (`WrittenIsThere`); and results are taken in the order of their events
  (`TakenInOrder`). None of these assumes that CVs name distinct applications.
* `Counters_proofs`: `CountersMatchLedgerHolds`, `EmittedAreTerminalHolds`,
  `SequencesAgreeHolds`, `CompletedIsWholeHolds`, for batches that name each
  application once. Then a run
  id has one entry and one wait (`EntryOfRun`, `OneWait`). The invariant `CInv`
  adds: a run without a result is not terminal, so no first result is dropped
  uncounted (`FirstResultCounts`); a run is queued until announced
  (`QueuedUntilAnnounced`); between results the applications with an event are
  the completed ones, and after a result only its own may be due
  (`DueIsCurrent`); there is one number per announcement, result and application
  event (`Numbered`). That `cvsCompleted` is recounted only when a result
  completes its application is enough because a result leaves every other
  application alone (`OtherApplicationsKept`). `CompletedIsWholeHolds` has a
  second hypothesis, `TerminalStatuses`: each status the engine may report is one
  the orchestrator takes for terminal. `orchestrator_progress` satisfies both,
  `orchestrator_partial` shows what happens without the second. `WInv` adds to
  `CInv`: a run whose result was taken is terminal in the document
  (`TakenIsTerminal`), collecting starts after the last announcement and ends
  with the last result (`LoopsAreWhole`), and a batch completes with the events of
  its completed applications published (`CompletedIsEmitted`).
* `Finalization_proofs`: `FinalizationRefines`, that `Finalization` implements
  `BatchOrchestrator`: the first upload is `WriteDocument`, one after a reported
  failure `WriteLateDocument`, a failure reported first `FinalizeFails`, the
  report taken `AfterFinalize`, and every other step of an execution a stutter;
  a later upload stutters because the ledger no longer changes (`OInv`). `FInv`
  ties the execution and the reports to `final`. `FinalDocumentIsLedger` follows
  from it and the orchestrator's own theorem.
* `Aggregation_proofs`: `FinalTypeOKHolds`, `AggregateIsOfLedgerHolds`,
  `HandoffAgreesHolds`, for any set of documents and number of runs. First,
  sorting: every finite family of numbers has an ascending arrangement
  (`OrderExists`: a least set without one would be one element larger than one
  that has it, and the least element can go first), what stands at position k of it
  is the k-th smallest, said without an order (`OrderCounts`), hence
  `MedianIsMiddle`. Then what a block says of its documents (`AggregateSays`) and
  of the ledger (`AggregateOfLedger`); without a tie there is only one
  (`OneAggregate`). `AInv` adds to the types: blocks come CV by CV and an upload
  has all of them, nothing is returned that was not stored (`ExecutionShape`); no
  block counts more runs than succeeded (`CountsOfLedger`); and until a read is
  lost or an artifact rewritten, every block computed, stored or returned is one of
  the ledger (`AggregatesOfLedger`), although an execution begun again computes
  them anew.
* `BatchSystem_proofs`: `IntakeSpecHolds`, `OrchestratorSpecHolds`,
  `SystemTypeOK`, `ResultsAreRoutableHolds`, `HandoffIsAuthoritativeHolds`,
  `ImplementsScoringBatchHolds`, and four consequences. The argument is assume-guarantee, in an order
  that is not circular: first every step of the composition is one intake's
  specification allows (`SystemStepForIntake`), which needs no invariant, so that
  intake's proved invariant holds in the composition; it says that an
  invocation about to raise finds no event yet, which is what the orchestrator's
  specification asks of its environment with `MaxRaises` 1 (`RaiseIsReceived`).
  Then the orchestrator's `OInv` holds too, and the rest follows from it: a
  message has its index, the document holds for every run its one result, and
  that is the one event raised (`TakenInOrder` and one wait per run). For
  `ScoringBatch`, taking a run's first result settles its outcome
  (`CollectSettles`), `WriteDocument` publishes all outcomes (`WritePublishes`),
  and all else stutters or ends the batch; two CVs that name one application are
  allowed.
  From the two component theorems `SystemRaisesOnce` and
  `SystemTerminalRunIsFinal` follow, and from `ScoringBatch` what a client may rely
  on: `HandoffIsWholeHolds` (completed means handed off, with every run's outcome)
  and `OutcomesStayHolds` (neither outcome nor handoff ever changes). No run states
  the last two: they are consequences of `ImplementsScoringBatch`, which
  `system_races` checks.
* `BatchLifecycle_proofs`: `LifecycleTypeOK`, `AcceptedIsStartedHolds`,
  `OneVerdictHolds`, `ResultIsHandoffHolds`, `CompletedHasHandoffHolds`.
  `CallStepDoes` reduces every handler step to what the client hears, with its
  reason in the instance (`Founded`), and what the instance feels. `LInv` adds:
  a completed instance has stored its document (`CompletedIsStored`); of a batch
  started once there is no verdict while it is live, and its own afterwards
  (`VerdictIsOfInstance`); and one instance has its results once, because of the
  marker blobs, hence one `finalize_batch`, so nothing overwrites a document that
  was shown (`StoredOnce`), not even an activity that outlives a terminated
  instance.

Assumptions: `CvApps` is a non-empty sequence, `RunCount` positive
(`CvsAssumption`, `RunCountAssumption`, from `api/models.py`), bounds are
naturals (`BoundsAssumption`, `FaultsAssumption`, `ExecutionsAssumption`, ...), a
queue delivers at least once (`DeliveriesAssumption`), "canonical" is among the
forms of a result, `Outputs` are documents (`OutputsAssumption`), the
placeholder constants are no data (`OpenAssumption`, `HoldsNoMsgAssumption`, ...). TLC
evaluates each of them in the runs.

Only model-checked: liveness, that is `BatchEnds`, `ReportedIsCollected`,
`EveryRunIsClaimed` and `CancelEndsBatch`, since fairness and `ENABLED` are beyond
the prover. Every safety property of a passing run, every action property and
every refinement is a theorem. The library's induction theorems take an operator
as a parameter, which the provers cannot instantiate; the one induction over data
that is needed, sorting, is done by a least counterexample in a well-founded order
(`WFMin`). The runs that expect a
violation stay with TLC, whose counterexamples they are.

## 5. What is not modelled

* Data: prompts, CV contents, token counts, timestamps, trace context. A result
  is its run, status, channel and form; `_mint_run_id` (uuid5) is taken to be
  injective in application and index. Status spellings are members of a set with
  `StatusKey` for strip and lower-case. An output document is its four fields.
* Live events: posts are best effort and never decide anything; only their
  numbering is modelled.
* 400 answers to malformed calls: they change nothing.
* `_claim_result_delivery` returns False when `BLOB_ACCOUNT` is not set; the
  lookup before it already returned None then, so the branch is unreachable.
* Retention: blobs are deleted 7 days after creation; the models stay within it.
* `peek` of the DLQ route and the `generic` aggregation profile: the first
  changes nothing, the second has no caller in the program.
* Aggregates in `BatchLifecycle`: a document is whole or not; that a later
  execution of `finalize_batch` may overwrite a returned one is
  `Finalization`'s subject (`HandoffAgrees`).
* `api/auth.py`: its two caches answer by elapsed time alone; no other component
  reads or disturbs them, so a model would restate the two comparisons. What they
  expose: a token signed with a key published within the last 300 s is refused.
* `db/repository.py` (imports modules that no longer exist), infrastructure,
  scripts; of the fake engine its latency and the scores it draws.

## 6. What is left

1. `Finalization` in place of the one-step `finalize_batch` in `BatchSystem`:
   both implement `BatchOrchestrator`, their composition is not written.
2. Marker and instance in one theorem: that `BatchLifecycle`'s `ResultsArrive`,
   which takes a payload's results to arrive once, is what intake does.
