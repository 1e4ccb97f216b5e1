----------------------------- MODULE DlqReplay -----------------------------
(***************************************************************************)
(* The two Service Bus queues between the platform and the engine, their   *)
(* dead-letter queues, and orchestrator/functions/dlq_replay, by which an  *)
(* operator sends dead letters round again.                                *)
(*                                                                         *)
(* The queues are where deliveries fail: of a run message in the engine    *)
(* (after tools/fake-engine, the engine in this repository), of a result   *)
(* in ResultIntake, whose handlers are extended here.  A message whose     *)
(* deliveries failed MaxDeliveries times is dead-lettered.  A replay       *)
(* receives dead letters and, one by one, discards each as poison or sends *)
(* a copy to the queue and then completes the dead letter; sending and     *)
(* completing are two steps, and either may fail.                          *)
(***************************************************************************)
EXTENDS ResultIntake

CONSTANTS
    MaxDeliveries,   \* max_delivery_count of both queues
    MaxFaults        \* bound: failed engine executions, failed lookups, failed replay steps

ASSUME DeliveriesAssumption == MaxDeliveries \in Nat \ {0}
ASSUME FaultsAssumption == MaxFaults \in Nat
ASSUME FormsAssumption == "canonical" \in Forms

Kinds == {"runs", "results"}

VARIABLES
    runQueue,       \* runs with a message on engine-runs
    answered,       \* of those, the ones whose execution has sent its result
    runTries,       \* per run, the failed deliveries of its message
    resultTries,    \* per result, the failed deliveries of its message
    deadRuns,       \* engine-runs/$DeadLetterQueue
    deadResults,    \* engine-results/$DeadLetterQueue
    received,       \* per kind, the dead letters a replay holds the locks of
    copied,         \* per kind, the one it has sent and not yet completed
    discarded,      \* results completed as poison
    faults          \* faults so far

engineVars == <<runQueue, answered, runTries, deadRuns>>
replayVars == <<received, copied, discarded>>
dlqVars == <<vars, engineVars, resultTries, deadResults, replayVars, faults>>

QueueTypes ==
    /\ runQueue \subseteq Runs /\ answered \subseteq runQueue /\ deadRuns \subseteq Runs
    /\ deadResults \subseteq Msgs
    /\ runTries \in [Runs -> 0 .. MaxDeliveries - 1]
    /\ resultTries \in [Msgs -> 0 .. MaxDeliveries - 1]
    /\ received \in [Kinds -> SUBSET (Runs \cup Msgs)]
    /\ received["runs"] \subseteq Runs /\ received["results"] \subseteq Msgs
    /\ copied \in [Kinds -> SUBSET (Runs \cup Msgs)]
    /\ \A k \in Kinds : copied[k] \subseteq received[k]
    /\ discarded \subseteq Msgs
    /\ faults \in 0 .. MaxFaults

DlqTypeOK == TypeOK /\ QueueTypes

Nobody == [k \in Kinds |-> {}]

DlqInit ==
    /\ Init
    /\ runQueue = {} /\ answered = {} /\ deadRuns = {} /\ deadResults = {}
    /\ runTries = [r \in Runs |-> 0]
    /\ resultTries = [m \in Msgs |-> 0]
    /\ received = Nobody /\ copied = Nobody
    /\ discarded = {}
    /\ faults = 0

Fault == faults < MaxFaults /\ faults' = faults + 1

-----------------------------------------------------------------------------
(* engine-runs and the engine.                                             *)

\* dispatch_run: index blob, then message (IndexBeforeMessage is proved of it).
DispatchRun(r) ==
    /\ r \notin index
    /\ IndexRun(r)
    /\ runQueue' = runQueue \cup {r}
    /\ UNCHANGED <<answered, runTries, deadRuns, resultTries, deadResults, replayVars, faults>>

\* fake_engine_run up to _send_result: one result per execution, of either
\* status, whatever earlier executions answered.
EngineAnswers(r) ==
    /\ r \in runQueue \ answered
    /\ \E s \in Statuses, f \in Forms :
           Report([run |-> r, status |-> s, via |-> "sb", form |-> f])
    /\ answered' = answered \cup {r}
    /\ UNCHANGED <<runQueue, runTries, deadRuns, resultTries, deadResults, replayVars, faults>>

\* An engine that reports over both channels (REPORT_MODE) also calls PATCH.
EnginePatches(r) ==
    /\ r \in runQueue
    /\ \E s \in Statuses :
           Report([run |-> r, status |-> s, via |-> "http", form |-> "canonical"])
    /\ UNCHANGED <<engineVars, resultTries, deadResults, replayVars, faults>>

\* The execution returns, and its message is completed.
EngineReturns(r) ==
    /\ r \in answered
    /\ runQueue' = runQueue \ {r}
    /\ answered' = answered \ {r}
    /\ runTries' = [runTries EXCEPT ![r] = 0]
    /\ UNCHANGED <<vars, deadRuns, resultTries, deadResults, replayVars, faults>>

\* It raises ("fake-engine transient") or is lost, before or after it answered.
EngineFails(r) ==
    /\ r \in runQueue
    /\ Fault
    /\ answered' = answered \ {r}
    /\ IF runTries[r] + 1 < MaxDeliveries
         THEN /\ runTries' = [runTries EXCEPT ![r] = @ + 1]
              /\ UNCHANGED <<runQueue, deadRuns>>
         ELSE /\ runTries' = [runTries EXCEPT ![r] = 0]
              /\ runQueue' = runQueue \ {r}
              /\ deadRuns' = deadRuns \cup {r}
    /\ UNCHANGED <<vars, resultTries, deadResults, replayVars>>

EngineStep(r) == EngineAnswers(r) \/ EnginePatches(r) \/ EngineReturns(r) \/ EngineFails(r)

-----------------------------------------------------------------------------
(* engine-results and result intake.                                       *)

\* A delivery of result m ended without the handler's return.
DeliveryFails(m) ==
    IF resultTries[m] + 1 < MaxDeliveries
      THEN /\ resultTries' = [resultTries EXCEPT ![m] = @ + 1]
           /\ UNCHANGED <<inbound, deadResults>>
      ELSE /\ resultTries' = [resultTries EXCEPT ![m] = 0]
           /\ inbound' = inbound \ {m}
           /\ deadResults' = deadResults \cup {m}

NotReturned(m) ==
    \/ m.via = "sb" /\ m \in inbound /\ DeliveryFails(m)
    \/ m.via = "sb" /\ m \notin inbound /\ UNCHANGED <<inbound, resultTries, deadResults>>
    \/ m.via = "http" /\ Undelivered(m) /\ UNCHANGED <<resultTries, deadResults>>

\* The body does not validate, or _lookup_batch_id raises: nothing has been done.
RejectResult(m) ==
    /\ m \in inbound /\ m.via = "sb"
    /\ IF Validates(m) THEN Fault ELSE UNCHANGED faults
    /\ DeliveryFails(m)
    /\ UNCHANGED <<index, raised, live, intakeVars, engineVars, replayVars>>

\* An invocation returns: ResultIntake!Ack, which ends the tries of its message.
Acknowledge(h) ==
    /\ Ack(h)
    /\ resultTries' = [resultTries EXCEPT ![msg[h]] = 0]
    /\ UNCHANGED deadResults

OthersOfIntake == <<engineVars, replayVars, faults>>

IntakeStep ==
    /\ \/ /\ \/ \E h \in Handlers :
                  \/ \E m \in inbound : Accept(h, m)
                  \/ Claim(h)
                  \/ Raise(h)
             \/ \E m \in inbound : DropUnknown(m)
          /\ UNCHANGED <<resultTries, deadResults>>
       \/ \E h \in Handlers :
              \/ Acknowledge(h)
              \/ (RaiseThrows(h) \/ InvocationLost(h)) /\ NotReturned(msg[h])
    /\ UNCHANGED OthersOfIntake

-----------------------------------------------------------------------------
(* http_dlq_replay.                                                        *)

Dead(k) == IF k = "runs" THEN deadRuns ELSE deadResults

\* What is dead and not locked by a replay.
SetDead(k, dead) ==
    /\ deadRuns' = IF k = "runs" THEN dead ELSE deadRuns
    /\ deadResults' = IF k = "results" THEN dead ELSE deadResults

\* Variant: _resolve_queue has the results queue for both kinds.
ReceiveDeadOfResults(k) ==
    /\ k = "results"
    /\ received[k] = {}
    /\ Dead(k) # {}
    /\ received' = [received EXCEPT ![k] = Dead(k)]
    /\ SetDead(k, {})
    /\ UNCHANGED <<vars, runQueue, answered, runTries, resultTries, copied, discarded, faults>>

\* receive_messages locks the messages it returns (up to max, which the dead
\* letters of an instance stay below); a second call does not see them.
ReceiveDead(k) ==
    /\ received[k] = {}
    /\ Dead(k) # {}
    /\ received' = [received EXCEPT ![k] = Dead(k)]
    /\ SetDead(k, {})
    /\ UNCHANGED <<vars, runQueue, answered, runTries, resultTries, copied, discarded, faults>>

\* The next message of the loop: none has been sent and not completed.
AtNext(k, x) == x \in received[k] /\ copied[k] = {}

\* The replay is done with the messages xs, of which those in back stay dead.
Settle(k, xs, back) ==
    /\ received' = [received EXCEPT ![k] = @ \ xs]
    /\ copied' = [copied EXCEPT ![k] = {}]
    /\ SetDead(k, Dead(k) \cup back)
    /\ UNCHANGED <<vars, runQueue, answered, runTries, resultTries>>

\* parsed.get("run_id"): unlike intake, the check knows no camel-case names.
IsPoison(k, x) == k = "results" /\ x.form \notin {"canonical", "malformed"}

\* "poison message missing run_id/status": completed and reported as failed.
DiscardPoison(x) ==
    /\ AtNext("results", x) /\ IsPoison("results", x)
    /\ Settle("results", {x}, {})
    /\ discarded' = discarded \cup {x}
    /\ UNCHANGED faults

\* sender.send_messages: a copy with a delivery count of its own.
SendCopy(k, x) ==
    /\ AtNext(k, x) /\ ~IsPoison(k, x)
    /\ copied' = [copied EXCEPT ![k] = {x}]
    /\ IF k = "runs"
         THEN runQueue' = runQueue \cup {x} /\ UNCHANGED inbound
         ELSE inbound' = inbound \cup {x} /\ UNCHANGED runQueue
    /\ UNCHANGED <<index, claimed, step, msg, raised, live, crashes, answered, runTries,
                   deadRuns, resultTries, deadResults, received, discarded, faults>>

\* receiver.complete_message: now the dead letter is gone.
CompleteDead(k, x) ==
    /\ x \in copied[k]
    /\ Settle(k, {x}, {})
    /\ UNCHANGED <<discarded, faults>>

\* Variant: complete_message stands in a finally clause.
ReplayFailsCompleted(k, x) ==
    /\ x \in received[k]
    /\ Fault
    /\ Settle(k, {x}, {}) \/ Settle(k, received[k], received[k])
    /\ UNCHANGED discarded

\* Sending or completing raises ("DLQ replay failed"), and the loop goes on to
\* the next message; or the call is lost, and leaves all the messages it holds.
ReplayFails(k, x) ==
    /\ x \in received[k]
    /\ Fault
    /\ Settle(k, {x}, {x}) \/ Settle(k, received[k], received[k])
    /\ UNCHANGED discarded

ReplayMessage(k, x) ==
    \/ k = "results" /\ DiscardPoison(x)
    \/ SendCopy(k, x)
    \/ CompleteDead(k, x)

ReplayStep(k) ==
    \/ ReceiveDead(k)
    \/ \E x \in received[k] : ReplayMessage(k, x) \/ ReplayFails(k, x)

-----------------------------------------------------------------------------

\* The instance ends, or is purged: raise_event fails from now on.
BatchStops ==
    /\ InstanceEnds
    /\ UNCHANGED <<engineVars, resultTries, deadResults, replayVars, faults>>

DlqNext ==
    \/ \E r \in Runs : DispatchRun(r) \/ EngineStep(r)
    \/ IntakeStep
    \/ \E m \in inbound : RejectResult(m)
    \/ \E k \in Kinds : ReplayStep(k)
    \/ BatchStops

DlqSpec == DlqInit /\ [][DlqNext]_dlqVars

-----------------------------------------------------------------------------
(* Fairness: as in BatchSystem for host and engine; and somebody replays as *)
(* long as there are dead letters.  Only finitely many faults occur.        *)

IntakeAccepts ==
    /\ \E h \in Handlers, m \in inbound : Accept(h, m)
    /\ UNCHANGED <<resultTries, deadResults, OthersOfIntake>>

HandlerAdvances(h) ==
    /\ \/ (Claim(h) \/ Raise(h)) /\ UNCHANGED <<resultTries, deadResults>>
       \/ Acknowledge(h)
       \/ RaiseThrows(h) /\ NotReturned(msg[h])
    /\ UNCHANGED OthersOfIntake

DlqFairness ==
    /\ \A r \in Runs : WF_dlqVars(EngineAnswers(r)) /\ WF_dlqVars(EngineReturns(r))
    /\ WF_dlqVars(IntakeAccepts)
    /\ \A h \in Handlers : WF_dlqVars(HandlerAdvances(h))
    /\ \A k \in Kinds : WF_dlqVars(ReceiveDead(k))
    /\ \A k \in Kinds : WF_dlqVars(\E x \in received[k] : ReplayMessage(k, x))

FairDlqSpec == DlqSpec /\ DlqFairness

-----------------------------------------------------------------------------
(* What the queues and replay promise.                                     *)

\* The messages with a result of r; a PATCH is as good as gone until answered.
ResultsOf(r) ==
    {m \in inbound \cup deadResults \cup received["results"] : m.run = r /\ m.via = "sb"}

\* Somewhere there is still a message that will have the run scored or claimed.
Traced(r) == r \in claimed \cup runQueue \cup deadRuns \cup received["runs"] \/ ResultsOf(r) # {}

Discarded(r) == \E m \in discarded : m.run = r

\* However deliveries fail on either queue, and wherever a replay is cut short, a
\* dispatched run does not disappear before intake has claimed it; but for a run
\* with a result whose field names are not the ones the poison check reads.
NoRunIsLost == \A r \in index : Traced(r) \/ Discarded(r)

\* What makes it inductive.  Every message is of a dispatched run; an invocation
\* about to acknowledge has a claimed run; an execution about to return, and a
\* replay about to complete a dead letter, leave another trace of the run.
AccountedFor(r) == r \in claimed \/ ResultsOf(r) # {} \/ Discarded(r)

MessagesAreOfRuns ==
    /\ runQueue \cup deadRuns \cup received["runs"] \subseteq index
    /\ \A m \in inbound \cup deadResults \cup received["results"] : m.run \in index

AckIsClaimed == \A h \in Handlers : step[h] = "ack" => msg[h].run \in claimed

AnsweredIsAccountedFor == \A r \in answered : AccountedFor(r)

CopyIsTraced ==
    /\ \A m \in copied["results"] :
           m.via = "sb" => m \in inbound \cup deadResults \/ m.run \in claimed
    /\ \A r \in copied["runs"] : r \in runQueue \cup deadRuns \/ AccountedFor(r)

DlqInv ==
    /\ Inv
    /\ QueueTypes
    /\ MessagesAreOfRuns
    /\ AckIsClaimed
    /\ AnsweredIsAccountedFor
    /\ CopyIsTraced
    /\ NoRunIsLost

\* A result that no replay can help.
Hopeless(r) == Discarded(r) \/ \E m \in ResultsOf(r) : ~Validates(m)

\* "Recover dead-lettered messages": every dispatched run gets through to intake,
\* also when its message or its result has to be replayed, perhaps repeatedly.
EveryRunIsClaimed == \A r \in Runs : (r \in index) ~> (r \in claimed \/ Hopeless(r))
=============================================================================
