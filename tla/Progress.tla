------------------------------ MODULE Progress ------------------------------
(***************************************************************************)
(* The progress document of a batch (orchestrator/functions/fanout, the    *)
(* helpers around batch_orchestrator): one entry per (CV, run index), one  *)
(* status per application, and the counters that the status route and the  *)
(* live events publish.  Pure operators on a record p; timestamps, names,  *)
(* artifacts and token counts of a run are left out.                       *)
(***************************************************************************)
EXTENDS Naturals, Sequences, FiniteSets

CONSTANTS
    Apps,       \* application ids
    CvApps,     \* the applicationId of each element of payload.cvs, in order
    RunCount,   \* payload.runCount
    Statuses    \* the values of a result's "status" field

ASSUME CvsAssumption == CvApps \in Seq(Apps) /\ Len(CvApps) >= 1
ASSUME RunCountAssumption == RunCount \in Nat \ {0}

Positions == 1 .. Len(CvApps)
RunIdx == 0 .. RunCount - 1

\* progress.applications[c].runs[i]; also one dispatch task and one wait for an
\* external event, which the orchestrator creates per (CV, run index).
Entries == Positions \X RunIdx

\* _mint_run_id: uuid5 of batch, application and index - not of the position.
RunId(e) == <<CvApps[e[1]], e[2]>>
Runs == {RunId(e) : e \in Entries}

\* No two CVs of the batch name the same application.
DistinctApps ==
    \A c, d \in Positions : CvApps[c] = CvApps[d] => c = d

-----------------------------------------------------------------------------

\* _status_key: strip and lower-case, on the spellings an engine uses.
StatusKey(s) ==
    CASE s = "Succeeded" -> "succeeded"
      [] s = "Completed" -> "completed"
      [] s = "Failed"    -> "failed"
      [] s = "Cancelled" -> "cancelled"
      [] s = "Partial"   -> "partial"
      [] OTHER           -> s

IsTerminalRunStatus(s) ==
    StatusKey(s) \in {"succeeded", "completed", "failed", "cancelled", "canceled"}

RunStates == {"queued", "dispatched"} \cup Statuses
AppStates == {"queued", "running", "completed", "failed", "cancelled", "partial"}
BatchStates == {"queued", "running", "completed", "cancelled"}

ProgressDoc ==
    [run : [Entries -> RunStates],
     app : [Positions -> AppStates],
     appRunsCompleted : [Positions -> Nat],
     runsDispatched : Nat,
     runsCompleted : Nat,
     cvsCompleted : Nat,
     status : BatchStates]

\* _build_initial_progress
InitialProgress ==
    [run |-> [e \in Entries |-> "queued"],
     app |-> [c \in Positions |-> "queued"],
     appRunsCompleted |-> [c \in Positions |-> 0],
     runsDispatched |-> 0,
     runsCompleted |-> 0,
     cvsCompleted |-> 0,
     status |-> "queued"]

RunsTotal == Len(CvApps) * RunCount
CvsTotal == Len(CvApps)

IsApplicationTerminal(p, c) == \A i \in RunIdx : IsTerminalRunStatus(p.run[<<c, i>>])

\* Variant: an application whose runs all agree takes their status key.
SummaryIsCommonKey(statuses) ==
    LET keys == {StatusKey(s) : s \in statuses}
    IN  IF Cardinality(keys) = 1 THEN CHOOSE k \in keys : TRUE ELSE "partial"

\* _summarize_application_status, on the run states of one application.
SummarizeApplicationStatus(statuses) ==
    LET keys == {StatusKey(s) : s \in statuses}
    IN  CASE keys \cap {"queued", "dispatched", "running", ""} # {} ->
                 IF keys = {"queued"} THEN "queued" ELSE "running"
          [] keys \subseteq {"succeeded", "completed"} -> "completed"
          [] keys \subseteq {"failed"}                 -> "failed"
          [] keys \subseteq {"cancelled", "canceled"}  -> "cancelled"
          [] OTHER                                     -> "partial"

\* _find_application_run: the first entry, in document order, with this run id.
FindApplicationRun(r) ==
    CHOOSE e \in Entries :
        /\ RunId(e) = r
        /\ \A f \in Entries : RunId(f) = r => e[1] <= f[1]

\* _find_application: the first application entry with this id.
FindApplication(a) ==
    CHOOSE c \in Positions :
        /\ CvApps[c] = a
        /\ \A d \in Positions : CvApps[d] = a => c <= d

\* Variant: runsDispatched grows with the first run of an application only.
RecordDispatchedOncePerCv(p, r) ==
    LET e == FindApplicationRun(r)
    IN  [p EXCEPT !.runsDispatched = @ + (IF p.app[e[1]] = "queued" THEN 1 ELSE 0),
                  !.run[e] = "dispatched",
                  !.app[e[1]] = "running",
                  !.status = "running"]

\* _record_dispatched_run
RecordDispatchedRun(p, r) ==
    LET e == FindApplicationRun(r)
    IN  [p EXCEPT !.runsDispatched = @ + (IF p.run[e] = "queued" THEN 1 ELSE 0),
                  !.run[e] = "dispatched",
                  !.app[e[1]] = "running",
                  !.status = "running"]

\* The ids of the applications of which some entry is terminal.
CompletedIds(p) == {CvApps[c] : c \in {d \in Positions : IsApplicationTerminal(p, d)}}

\* Variants: cvsCompleted is counted on the document as it was before the
\* result; a result is recorded over a terminal one.
RecordRunResultStale(p, r, s) ==
    LET e == FindApplicationRun(r)
        c == e[1]
        run == [p.run EXCEPT ![e] = s]
        q == [p EXCEPT !.run = run,
                       !.runsCompleted = @ + 1,
                       !.appRunsCompleted[c] = @ + 1,
                       !.app[c] = SummarizeApplicationStatus({run[<<c, i>>] : i \in RunIdx}),
                       !.status = "running"]
    IN  IF IsTerminalRunStatus(p.run[e]) THEN p
        ELSE IF IsApplicationTerminal(q, c)
             THEN [q EXCEPT !.cvsCompleted = Cardinality(CompletedIds(p))]
             ELSE q

RecordRunResultAgain(p, r, s) ==
    LET e == FindApplicationRun(r)
    IN  [p EXCEPT !.run[e] = s, !.runsCompleted = @ + 1]

\* _record_run_result: nothing for a run already terminal; cvsCompleted is
\* counted again only when this result made its application terminal.
RecordRunResult(p, r, s) ==
    LET e == FindApplicationRun(r)
        c == e[1]
        run == [p.run EXCEPT ![e] = s]
        q == [p EXCEPT !.run = run,
                       !.runsCompleted = @ + 1,
                       !.appRunsCompleted[c] = @ + 1,
                       !.app[c] = SummarizeApplicationStatus({run[<<c, i>>] : i \in RunIdx}),
                       !.status = "running"]
    IN  IF IsTerminalRunStatus(p.run[e]) THEN p
        ELSE IF IsApplicationTerminal(q, c)
             THEN [q EXCEPT !.cvsCompleted = Cardinality(CompletedIds(q))]
             ELSE q

\* _is_cancelled_batch
IsCancelledBatch(p) == \A c \in Positions : StatusKey(p.app[c]) \in {"cancelled", "canceled"}

\* Variant: the application events are forgotten.
NextSequenceOfRuns(p) == p.runsDispatched + p.runsCompleted + 1

\* _next_event_sequence: the number http_terminate gives its own live event,
\* computed from the progress document and not from the orchestrator's counter.
NextEventSequence(p) ==
    p.runsDispatched + p.runsCompleted
        + Cardinality({c \in Positions : IsApplicationTerminal(p, c)}) + 1
=============================================================================
