---------------------------- MODULE ResultIntake ----------------------------
(***************************************************************************)
(* orchestrator/functions/result_intake: the two entry points by which the *)
(* engine reports a run (the Service Bus trigger sb_result_handler and the *)
(* HTTP route http_patch_run) and the blob marker that lets one of several *)
(* deliveries of a run's result through.                                   *)
(*                                                                         *)
(* Both entry points run the same steps: look the run up in run-index/,    *)
(* claim result-delivery/{run}.json, raise the external event run-{run} on *)
(* the batch's Durable instance, and return (which acknowledges a Service  *)
(* Bus message, or answers the engine's PATCH).  They differ only in what  *)
(* becomes of a result whose handler did not return.                       *)
(*                                                                         *)
(* The rest of the system is the environment here: who writes run-index/,  *)
(* who reports results, when the instance ends.  BatchSystem puts the real *)
(* orchestrator in that place, DlqReplay the queues and their dead letters.*)
(***************************************************************************)
EXTENDS Naturals, Sequences, FiniteSets

CONSTANTS
    Runs,        \* run ids
    Statuses,    \* the values of a result's "status" field
    Forms,       \* the forms a result's body may have
    Handlers,    \* concurrent function invocations of the host
    NoMsg,       \* "this invocation holds no message"
    MaxCrashes   \* bound: invocations lost with their worker

Channels == {"sb", "http"}

\* A result on its way in; run_id and status are the fields intake acts on.
Msgs == [run : Runs, status : Statuses, via : Channels, form : Forms]

\* A body validates as it is ("canonical") or once normalize_completion_payload
\* has renamed its camel-case fields ("aliased"); or it has a run_id and a status
\* but does not validate ("malformed").  A malformed PATCH is answered 400 at
\* once; a malformed message makes the handler raise, and is delivered again.
Validates(m) == m.form \in {"canonical", "aliased"}

ASSUME NoMsgAssumption == NoMsg \notin Msgs
ASSUME CrashAssumption == MaxCrashes \in Nat

VARIABLES
    index,      \* runs with a run-index/{run}.json blob
    inbound,    \* results not yet acknowledged: engine-results and open PATCH calls
    step,       \* where each invocation is
    msg,        \* the result each invocation handles
    claimed,    \* runs with a result-delivery/{run}.json blob
    raised,     \* per run, the events run-{run} accepted by Durable, in order
    live,       \* the batch's instance accepts external events
    crashes     \* invocations lost so far

intakeVars == <<step, msg, claimed, crashes>>
vars == <<index, inbound, step, msg, claimed, raised, live, crashes>>

Steps == {"idle", "claim", "raise", "ack"}

TypeOK ==
    /\ index \subseteq Runs
    /\ inbound \subseteq Msgs
    /\ step \in [Handlers -> Steps]
    /\ msg \in [Handlers -> Msgs \cup {NoMsg}]
    /\ claimed \subseteq Runs
    /\ raised \in [Runs -> Seq(Statuses)]
    /\ live \in BOOLEAN
    /\ crashes \in 0 .. MaxCrashes

Init ==
    /\ index = {}
    /\ inbound = {}
    /\ step = [h \in Handlers |-> "idle"]
    /\ msg = [h \in Handlers |-> NoMsg]
    /\ claimed = {}
    /\ raised = [r \in Runs |-> <<>>]
    /\ live = TRUE
    /\ crashes = 0

-----------------------------------------------------------------------------
(* The environment.                                                        *)

\* dispatch_run writes the run's index blob (overwrite=True).
IndexRun(r) ==
    /\ index' = index \cup {r}
    /\ UNCHANGED <<inbound, raised, live, intakeVars>>

\* The engine publishes a result, or calls PATCH /runs/{run}; it may do so
\* again, over the other channel, or with another status.
Report(m) ==
    /\ inbound' = inbound \cup {m}
    /\ UNCHANGED <<index, raised, live, intakeVars>>

\* The instance completes, fails or is terminated: raise_event now fails.
InstanceEnds ==
    /\ live
    /\ live' = FALSE
    /\ UNCHANGED <<index, inbound, raised, intakeVars>>

-----------------------------------------------------------------------------
(* The handlers.                                                           *)

Release(h) ==
    /\ step' = [step EXCEPT ![h] = "idle"]
    /\ msg' = [msg EXCEPT ![h] = NoMsg]

\* A result whose handler did not return: Service Bus delivers the message
\* again (DlqReplay: until it dead-letters it); a PATCH that got no answer, or a
\* 500, is repeated or given up.
Undelivered(m) ==
    \/ UNCHANGED inbound
    \/ m.via = "http" /\ inbound' = inbound \ {m}

\* Variant: any failed lookup is taken for "not our message".
DropOnAnyLookupFailure(m) ==
    /\ m \in inbound
    /\ Validates(m)
    /\ inbound' = inbound \ {m}
    /\ UNCHANGED <<index, raised, live, intakeVars>>

\* _lookup_batch_id finds no blob: "ack and drop; not our message", or 404.
DropUnknown(m) ==
    /\ m \in inbound
    /\ Validates(m)
    /\ m.run \notin index
    /\ inbound' = inbound \ {m}
    /\ UNCHANGED <<index, raised, live, intakeVars>>

\* Variant: the HTTP route raises the event without claiming the run.
AcceptHttpUnclaimed(h, m) ==
    /\ step[h] = "idle"
    /\ m \in inbound
    /\ Validates(m)
    /\ m.run \in index
    /\ step' = [step EXCEPT ![h] = IF m.via = "http" THEN "raise" ELSE "claim"]
    /\ msg' = [msg EXCEPT ![h] = m]
    /\ UNCHANGED <<index, inbound, claimed, raised, live, crashes>>

\* An invocation picks a result up and _lookup_batch_id finds its batch.  The
\* result stays in inbound, so a second invocation may hold it too (an expired
\* message lock, an impatient caller).
Accept(h, m) ==
    /\ step[h] = "idle"
    /\ m \in inbound
    /\ Validates(m)
    /\ m.run \in index
    /\ step' = [step EXCEPT ![h] = "claim"]
    /\ msg' = [msg EXCEPT ![h] = m]
    /\ UNCHANGED <<index, inbound, claimed, raised, live, crashes>>

\* Variant: the marker is uploaded with overwrite=True, so that every claim wins.
ClaimOverwriting(h) ==
    /\ step[h] = "claim"
    /\ claimed' = claimed \cup {msg[h].run}
    /\ step' = [step EXCEPT ![h] = "raise"]
    /\ UNCHANGED <<index, inbound, msg, raised, live, crashes>>

\* _claim_result_delivery: upload_blob(overwrite=False) either creates the
\* marker or reports ResourceExistsError, in which case the handler returns.
Claim(h) ==
    /\ step[h] = "claim"
    /\ \/ /\ msg[h].run \notin claimed
          /\ claimed' = claimed \cup {msg[h].run}
          /\ step' = [step EXCEPT ![h] = "raise"]
       \/ /\ msg[h].run \in claimed
          /\ step' = [step EXCEPT ![h] = "ack"]
          /\ UNCHANGED claimed
    /\ UNCHANGED <<index, inbound, msg, raised, live, crashes>>

\* Variant: the event carries the run id where the status belongs.
RaiseWithoutStatus(h) ==
    /\ step[h] = "raise"
    /\ live
    /\ raised' = [raised EXCEPT ![msg[h].run] = Append(@, msg[h].run)]
    /\ step' = [step EXCEPT ![h] = "ack"]
    /\ UNCHANGED <<index, inbound, msg, claimed, live, crashes>>

\* client.raise_event on a live instance.
Raise(h) ==
    /\ step[h] = "raise"
    /\ live
    /\ raised' = [raised EXCEPT ![msg[h].run] = Append(@, msg[h].status)]
    /\ step' = [step EXCEPT ![h] = "ack"]
    /\ UNCHANGED <<index, inbound, msg, claimed, live, crashes>>

\* client.raise_event on an ended instance: the exception leaves the handler.
RaiseThrows(h) ==
    /\ step[h] = "raise"
    /\ ~live
    /\ Release(h)
    /\ UNCHANGED <<index, claimed, raised, live, crashes>>

RaiseFails(h) == RaiseThrows(h) /\ Undelivered(msg[h])

\* The handler returned: the message is completed, or the PATCH answered 202.
Ack(h) ==
    /\ step[h] = "ack"
    /\ inbound' = inbound \ {msg[h]}
    /\ Release(h)
    /\ UNCHANGED <<index, claimed, raised, live, crashes>>

\* The worker is lost (or the storage or Durable call fails) mid-handler.
InvocationLost(h) ==
    /\ step[h] # "idle"
    /\ crashes < MaxCrashes
    /\ crashes' = crashes + 1
    /\ Release(h)
    /\ UNCHANGED <<index, claimed, raised, live>>

Crash(h) == InvocationLost(h) /\ Undelivered(msg[h])

HandlerStep(h) ==
    \/ \E m \in inbound : Accept(h, m)
    \/ Claim(h)
    \/ Raise(h)
    \/ RaiseFails(h)
    \/ Ack(h)
    \/ Crash(h)

Environment ==
    \/ \E r \in Runs : IndexRun(r)
    \/ \E m \in Msgs : Report(m)
    \/ InstanceEnds

Next ==
    \/ Environment
    \/ \E m \in inbound : DropUnknown(m)
    \/ \E h \in Handlers : HandlerStep(h)

Spec == Init /\ [][Next]_vars

-----------------------------------------------------------------------------
(* What intake promises.                                                   *)

\* However many times and over however many channels a run is reported, and
\* whichever invocations are lost, Durable accepts at most one event for it.
EventRaisedOnce == \A r \in Runs : Len(raised[r]) <= 1

\* While an invocation is between winning the claim and raising the event, no
\* other invocation is there for the same run and no event exists yet: the
\* marker is a lock on the run that is never shared.
ClaimIsExclusive ==
    \A h \in Handlers :
        step[h] = "raise" =>
            /\ raised[msg[h].run] = <<>>
            /\ \A g \in Handlers :
                   step[g] = "raise" /\ msg[g].run = msg[h].run => g = h

\* What makes them inductive: an invocation at work holds a result, and the
\* marker is there before an invocation raises and before an event exists.
BusyHoldsResult == \A h \in Handlers : step[h] # "idle" => msg[h] \in Msgs
RaiserHasClaimed == \A h \in Handlers : step[h] = "raise" => msg[h].run \in claimed
EventIsClaimed == \A r \in Runs : raised[r] # <<>> => r \in claimed

Inv ==
    /\ TypeOK
    /\ BusyHoldsResult
    /\ RaiserHasClaimed
    /\ EventIsClaimed
    /\ ClaimIsExclusive
    /\ EventRaisedOnce

\* specs/099-test-debug: the marker is evidence "that completion was already
\* processed for runId"; so, while the instance can still be told, a marked run
\* has its event or an invocation that is about to raise it.
MarkerMeansProcessed ==
    live => \A r \in claimed :
        \/ raised[r] # <<>>
        \/ \E h \in Handlers : step[h] = "raise" /\ msg[h].run = r
=============================================================================
