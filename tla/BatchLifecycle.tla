--------------------------- MODULE BatchLifecycle ---------------------------
(***************************************************************************)
(* One batch id as clients see it: the API routes (submit, status, cancel),*)
(* the host routes behind them (http_start, http_status, http_terminate)   *)
(* and the Durable instance they look at before they act.                  *)
(*                                                                         *)
(* A call that looks and then acts takes two steps, at the host's awaits,  *)
(* so other calls, the instance's own progress and the purge of its        *)
(* history fall in between.  What a client is told is kept in "told".      *)
(*                                                                         *)
(* The instance is the orchestrator of BatchOrchestrator seen from far:    *)
(* it starts, has its results, stores result.json, and ends.  The marker   *)
(* blobs of result intake belong to run ids, that is to the batch id and   *)
(* the payload, and not to an instance: they outlive it, so the results of *)
(* a second instance for the same payload are duplicates.                  *)
(***************************************************************************)
EXTENDS Naturals, FiniteSets

CONSTANTS
    Calls,       \* concurrent client calls
    Payloads,    \* batches submitted under the one batch id
    MaxCalls,    \* bound: calls made in all
    MaxPurges    \* bound: times the history is purged

ASSUME BoundsAssumption == MaxCalls \in Nat /\ MaxPurges \in Nat

VARIABLES
    runtime,   \* runtime_status of the instance, "none" without one
    input,     \* the payload of the instance
    starts,    \* instances created so far
    killing,   \* a terminate request is waiting for the instance
    output,    \* what finalize_batch returned to this instance
    storing,   \* finalize_batch activities that are scheduled
    blob,      \* batches/{id}/result.json
    marked,    \* payloads whose runs have their result-delivery markers
    at,        \* per call, where its handler is
    asked,     \* per call, the payload it submits
    told,      \* per call, the last answer it got
    verdicts,  \* final statuses some client was told, and their origin
    made,      \* calls made so far
    purges     \* purges so far

instance == <<runtime, input, starts, killing, output, storing, blob, marked>>
client == <<at, asked, told, verdicts, made>>
vars == <<instance, client, purges>>

NoPayload == <<>>
NoDoc == <<>>
Doc == [of : Payloads, whole : BOOLEAN]   \* whole: every CV has its aggregate

Live == {"pending", "running"}
Finished == {"completed", "failed", "terminated"}

\* Statuses and answers; "badResult" is the 502 of _to_status_response.
Verdicts == {"completed", "failed", "cancelled"}
Answers == {"nothing", "accepted", "upstreamError", "queued", "running",
            "cancelling", "notFound", "badResult"} \cup Verdicts

TypeOK ==
    /\ runtime \in {"none"} \cup Live \cup Finished
    /\ input \in Payloads \cup {NoPayload}
    /\ starts \in Nat
    /\ killing \in BOOLEAN
    /\ output \in Doc \cup {NoDoc}
    /\ storing \subseteq [of : Payloads, by : Nat]
    /\ blob \in Doc \cup {NoDoc}
    /\ marked \subseteq Payloads
    /\ at \in [Calls -> {"idle", "start", "unheard", "terminate", "blob"}]
    /\ asked \in [Calls -> Payloads \cup {NoPayload}]
    /\ told \in [Calls -> [answer : Answers, doc : Doc \cup {NoDoc}]]
    /\ verdicts \subseteq [status : Verdicts, from : {"history", "blob"}]
    /\ made \in 0 .. MaxCalls
    /\ purges \in 0 .. MaxPurges

Init ==
    /\ runtime = "none"
    /\ input = NoPayload
    /\ starts = 0
    /\ killing = FALSE
    /\ output = NoDoc
    /\ storing = {}
    /\ blob = NoDoc
    /\ marked = {}
    /\ at = [c \in Calls |-> "idle"]
    /\ asked = [c \in Calls |-> NoPayload]
    /\ told = [c \in Calls |-> [answer |-> "nothing", doc |-> NoDoc]]
    /\ verdicts = {}
    /\ made = 0
    /\ purges = 0

-----------------------------------------------------------------------------
(* The calls.                                                              *)

\* The handler returns; the client is told so, with the result document if any.
TellWith(c, answer, doc, from) ==
    /\ told' = [told EXCEPT ![c] = [answer |-> answer, doc |-> doc]]
    /\ verdicts' = verdicts \cup {[status |-> v, from |-> from] : v \in {answer} \cap Verdicts}
    /\ at' = [at EXCEPT ![c] = "idle"]

Tell(c, answer) == TellWith(c, answer, NoDoc, "history")

Go(c, where) ==
    /\ at' = [at EXCEPT ![c] = where]
    /\ UNCHANGED <<told, verdicts>>

Call(c) ==
    /\ at[c] = "idle"
    /\ made < MaxCalls
    /\ made' = made + 1

StatusExists == runtime # "none"

\* submit_batch to http_start, up to its get_status.  An instance in any state
\* answers 200, and the API 202, whatever its payload.
Submit(c, p) ==
    /\ Call(c)
    /\ asked' = [asked EXCEPT ![c] = p]
    /\ IF StatusExists THEN Tell(c, "accepted") ELSE Go(c, "start")
    /\ UNCHANGED <<instance, purges>>

\* start_new creates the instance, in place of one that has finished; an
\* instance that is live makes it fail.
CanStart == runtime \notin Live

Create(p) ==
    /\ runtime' = "pending"
    /\ input' = p
    /\ starts' = starts + 1
    /\ killing' = FALSE
    /\ output' = NoDoc
    /\ UNCHANGED <<storing, blob, marked>>

\* Variant: start_new is not awaited.
StartNewUnawaited(c) ==
    /\ at[c] = "start"
    /\ told' = [told EXCEPT ![c] = [answer |-> "accepted", doc |-> NoDoc]]
    /\ at' = [at EXCEPT ![c] = "unheard"]
    /\ UNCHANGED <<instance, asked, verdicts, made, purges>>

\* http_start, its start_new; the failure is a 500, which the API makes a 502.
StartNew(c) ==
    /\ at[c] = "start"
    /\ IF CanStart
       THEN Create(asked[c]) /\ Tell(c, "accepted")
       ELSE Tell(c, "upstreamError") /\ UNCHANGED instance
    /\ UNCHANGED <<asked, made, purges>>

\* The API's request to the host times out: the client is told 502 and may try
\* again, while the host's handler goes on.
SubmitTimesOut(c) ==
    /\ at[c] = "start"
    /\ told' = [told EXCEPT ![c] = [answer |-> "upstreamError", doc |-> NoDoc]]
    /\ at' = [at EXCEPT ![c] = "unheard"]
    /\ UNCHANGED <<instance, asked, verdicts, made, purges>>

StartNewUnheard(c) ==
    /\ at[c] = "unheard"
    /\ IF CanStart THEN Create(asked[c]) ELSE UNCHANGED instance
    /\ at' = [at EXCEPT ![c] = "idle"]
    /\ UNCHANGED <<asked, told, verdicts, made, purges>>

\* _to_status_response of a completed batch: 502 unless every CV has its
\* aggregate.
TellCompleted(c, doc, from) ==
    IF doc.whole THEN TellWith(c, "completed", doc, from) ELSE Tell(c, "badResult")

\* Variant: the runtime status goes out as it is.
NormalizedStatusRaw == runtime

\* _normalize_status.
NormalizedStatus ==
    CASE runtime = "pending" -> "queued"
      [] runtime = "running" -> "running"
      [] runtime = "failed" -> "failed"
      [] runtime = "terminated" -> "cancelled"
      [] OTHER -> "completed"

\* get_batch_status to http_status.
Status(c) ==
    /\ Call(c)
    /\ IF ~StatusExists THEN Go(c, "blob")
       ELSE IF runtime = "completed" THEN TellCompleted(c, output, "history")
       ELSE Tell(c, NormalizedStatus)
    /\ UNCHANGED <<instance, asked, purges>>

\* The host said 404: the API reads result.json.
StatusFromBlob(c) ==
    /\ at[c] = "blob"
    /\ IF blob = NoDoc THEN Tell(c, "notFound") ELSE TellCompleted(c, blob, "blob")
    /\ UNCHANGED <<instance, asked, made, purges>>

\* cancel_batch to http_terminate, up to its get_status.  The host's 404 is no
\* error to cancel_batch, and the API answers 202.
Cancel(c) ==
    /\ Call(c)
    /\ CASE runtime = "none" -> Tell(c, "cancelling")
         [] runtime = "completed" -> Tell(c, "completed")
         [] runtime = "terminated" -> Tell(c, "cancelled")
         [] OTHER -> Go(c, "terminate")
    /\ UNCHANGED <<instance, asked, purges>>

\* Variant: terminate is taken for done.
TerminateAnswersCancelled(c) ==
    /\ at[c] = "terminate"
    /\ killing' = (killing \/ runtime \in Live)
    /\ Tell(c, "cancelled")
    /\ UNCHANGED <<runtime, input, starts, output, storing, blob, marked, asked,
                   made, purges>>

\* Variant: the status that was read decides whether to terminate at all.
TerminateOnlyRunning(c) ==
    /\ at[c] = "terminate"
    /\ killing' = (killing \/ runtime = "running")
    /\ Tell(c, IF runtime = "none" THEN "upstreamError" ELSE "cancelling")
    /\ UNCHANGED <<runtime, input, starts, output, storing, blob, marked, asked,
                   made, purges>>

\* http_terminate, its client.terminate: a request to a live instance, nothing
\* for one that has finished, an error (500, then 502) if it is gone.
Terminate(c) ==
    /\ at[c] = "terminate"
    /\ killing' = (killing \/ runtime \in Live)
    /\ Tell(c, IF runtime = "none" THEN "upstreamError" ELSE "cancelling")
    /\ UNCHANGED <<runtime, input, starts, output, storing, blob, marked, asked,
                   made, purges>>

-----------------------------------------------------------------------------
(* The instance.                                                           *)

\* The orchestrator's first yield.
Run ==
    /\ runtime = "pending"
    /\ runtime' = "running"
    /\ UNCHANGED <<input, starts, killing, output, storing, blob, marked, client,
                   purges>>

\* Variant: result intake does not claim runs.
ResultsArriveAgain ==
    /\ runtime \in {"running"} \cup Finished
    /\ marked' = marked \cup {input}
    /\ storing' = IF runtime = "running"
                  THEN storing \cup {[of |-> input, by |-> starts]} ELSE storing
    /\ UNCHANGED <<runtime, input, starts, killing, output, blob, client, purges>>

\* The engine has reported every run of the payload and intake has claimed them:
\* the instance, if it is running, gets the events and schedules finalize_batch.
\* Runs already marked raise no event.
ResultsArrive ==
    /\ runtime \in {"running"} \cup Finished
    /\ input \notin marked
    /\ marked' = marked \cup {input}
    /\ storing' = IF runtime = "running"
                  THEN storing \cup {[of |-> input, by |-> starts]} ELSE storing
    /\ UNCHANGED <<runtime, input, starts, killing, output, blob, client, purges>>

\* finalize_batch uploads result.json and returns it to the instance that
\* scheduled it, if that still runs.
StoreResult(f, whole) ==
    /\ f \in storing
    /\ storing' = storing \ {f}
    /\ blob' = [of |-> f.of, whole |-> whole]
    /\ output' = IF f.by = starts /\ runtime = "running" THEN blob' ELSE output
    /\ UNCHANGED <<runtime, input, starts, killing, marked, client, purges>>

\* Variant: the orchestrator returns without waiting for finalize_batch.
CompleteUnstored ==
    /\ runtime = "running"
    /\ input \in marked
    /\ runtime' = "completed"
    /\ output' = [of |-> input, whole |-> TRUE]
    /\ UNCHANGED <<input, starts, killing, storing, blob, marked, client, purges>>

Complete ==
    /\ runtime = "running"
    /\ output # NoDoc
    /\ runtime' = "completed"
    /\ UNCHANGED <<input, starts, killing, output, storing, blob, marked, client,
                   purges>>

\* Staging, a dispatch or finalize_batch fails; after finalize_batch has reported
\* nothing can.  Durable may run a failed finalize_batch again, to no avail for
\* the instance.
Fail ==
    /\ runtime = "running"
    /\ output = NoDoc
    /\ runtime' = "failed"
    /\ storing' \in {storing, {f \in storing : f.by # starts}}
    /\ UNCHANGED <<input, starts, killing, output, blob, marked, client, purges>>

\* The terminate request reaches the instance.
BeTerminated ==
    /\ runtime \in Live
    /\ killing
    /\ runtime' = "terminated"
    /\ UNCHANGED <<input, starts, killing, output, storing, blob, marked, client,
                   purges>>

\* The history of a finished instance is purged; its blobs are not.
Purge ==
    /\ runtime \in Finished
    /\ purges < MaxPurges
    /\ purges' = purges + 1
    /\ runtime' = "none"
    /\ input' = NoPayload
    /\ killing' = FALSE
    /\ output' = NoDoc
    /\ UNCHANGED <<starts, storing, blob, marked, client>>

-----------------------------------------------------------------------------

NewCall(c) == Status(c) \/ Cancel(c) \/ \E p \in Payloads : Submit(c, p)
HandlerStep(c) == StartNew(c) \/ StartNewUnheard(c) \/ StatusFromBlob(c) \/ Terminate(c)

InstanceStep ==
    \/ Run
    \/ ResultsArrive
    \/ \E f \in storing, whole \in BOOLEAN : StoreResult(f, whole)
    \/ Complete
    \/ Fail
    \/ BeTerminated

Next ==
    \/ \E c \in Calls : NewCall(c) \/ HandlerStep(c) \/ SubmitTimesOut(c)
    \/ InstanceStep
    \/ Purge

Spec == Init /\ [][Next]_vars

\* Handlers that have begun go on, and Durable delivers terminate requests.
\* Nothing is assumed of the engine, of the orchestrator or of clients.
Fairness ==
    /\ \A c \in Calls : WF_vars(HandlerStep(c))
    /\ WF_vars(BeTerminated)

FairSpec == Spec /\ Fairness

-----------------------------------------------------------------------------
(* What clients may rely on.                                               *)

\* A client that was told 202 has a batch: an instance for its id exists, until
\* the history is purged, in whatever order retries and timeouts arrive.
AcceptedIsStarted ==
    \A c \in Calls : told[c].answer = "accepted" /\ purges = 0 => runtime # "none"

\* A batch that was started once has one verdict in its history: all calls that
\* are told a final status from it are told the same one, whether it is status
\* (_normalize_status) or cancel (200, 409) that tells them.
OneVerdict ==
    starts <= 1 => Cardinality({v \in verdicts : v.from = "history"}) <= 1

\* Whoever is told of a result is told what result.json holds, from the
\* history before a purge and from the blob after it.
ResultIsHandoff ==
    \A c \in Calls : told[c].doc # NoDoc /\ starts <= 1 => told[c].doc = blob

\* Being told "already completed", by status or by cancel, means result.json is
\* there to be picked up.
CompletedHasHandoff ==
    (\E v \in verdicts : v.status = "completed") => blob # NoDoc

\* A cancel that found the batch live ends it, though the engine never answers.
CancelEndsBatch ==
    \A c \in Calls :
        (at[c] = "terminate" /\ runtime \in Live) ~> (runtime \in Finished)

-----------------------------------------------------------------------------
(* What makes them inductive.                                              *)

\* finalize_batch has stored the document of a batch before it completes.
CompletedIsStored ==
    /\ runtime = "completed" => output # NoDoc
    /\ output # NoDoc => blob # NoDoc

\* Who starts an instance has a payload, and the instance then has it too.
PayloadsAreGiven ==
    /\ runtime # "none" => input \in Payloads
    /\ \A c \in Calls : at[c] \in {"start", "unheard"} => asked[c] \in Payloads

HistoryVerdicts == {v \in verdicts : v.from = "history"}

\* Of one instance there is a verdict once it has finished, and then its own.
VerdictIsOfInstance ==
    starts <= 1 =>
        /\ runtime \in Live \/ starts = 0 => HistoryVerdicts = {}
        /\ runtime \in Finished => \A v \in HistoryVerdicts : v.status = NormalizedStatus
        /\ \A v, w \in HistoryVerdicts : v = w

\* One instance has its results once, hence one finalize_batch, and nothing
\* overwrites the document that it stored.
StoredOnce ==
    /\ starts = 0 => runtime = "none" /\ storing = {} /\ blob = NoDoc
    /\ starts <= 1 =>
        /\ blob # NoDoc => storing = {}
        /\ runtime # "none" /\ (storing # {} \/ blob # NoDoc) => input \in marked
        /\ \A f, g \in storing : f = g
        /\ output # NoDoc => output = blob

LInv ==
    /\ TypeOK
    /\ PayloadsAreGiven
    /\ AcceptedIsStarted
    /\ CompletedIsStored
    /\ VerdictIsOfInstance
    /\ StoredOnce
    /\ ResultIsHandoff
    /\ CompletedHasHandoff

-----------------------------------------------------------------------------
(* What the documents say.                                                 *)

\* specs/002 spec.md: repeat submission, "same submissionId, no second fan-out".
NoSecondFanOut == starts <= 1

\* data-model.md, submission: running -> cancelled and nothing after it.
VerdictOutlivesPurge ==
    starts <= 1 => Cardinality({v.status : v \in verdicts}) <= 1

\* specs/002 spec.md: "On completed, response includes result.cvs[]".
CompletedIsShown == \A c \in Calls : told[c].answer # "badResult"
=============================================================================
