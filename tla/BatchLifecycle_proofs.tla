----------------------- MODULE BatchLifecycle_proofs -----------------------
(***************************************************************************)
(* Theorems about BatchLifecycle, for any number of calls, payloads and    *)
(* bounds.                                                                 *)
(***************************************************************************)
EXTENDS BatchLifecycle, FiniteSetTheorems, TLAPS

\* What a client is told has its reason in the instance or in result.json.
Founded(answer, doc, from) ==
    /\ answer = "accepted" => runtime' # "none"
    /\ answer \in Verdicts /\ from = "history" =>
          runtime \in Finished /\ answer = NormalizedStatus
    /\ answer = "completed" => runtime = "completed" \/ blob # NoDoc
    /\ doc # NoDoc => doc = blob \/ (runtime = "completed" /\ doc = output)

\* A step of call c as its client sees it ...
ClientHears(c) ==
    \/ UNCHANGED <<told, verdicts>>
    \/ \E answer \in Answers, doc \in Doc \cup {NoDoc}, from \in {"history", "blob"} :
           /\ told' = [told EXCEPT ![c] = [answer |-> answer, doc |-> doc]]
           /\ verdicts' = verdicts \cup
                 {[status |-> v, from |-> from] : v \in {answer} \cap Verdicts}
           /\ Founded(answer, doc, from)

\* ... and as the instance does.
InstanceFeels(c) ==
    \/ UNCHANGED <<runtime, input, starts, output, storing, blob, marked>>
    \/ at[c] \in {"start", "unheard"} /\ CanStart /\ Create(asked[c])

CallStep(c) == NewCall(c) \/ HandlerStep(c) \/ SubmitTimesOut(c)

Places == {"idle", "start", "unheard", "terminate", "blob"}

\* Every handler step answers with reason, and changes the instance by start_new
\* or not at all.
LEMMA CallStepDoes ==
    ASSUME TypeOK, NEW c \in Calls, CallStep(c)
    PROVE  ClientHears(c) /\ InstanceFeels(c) /\ at' \in [Calls -> Places] /\ purges' = purges
<1> USE DEF TellWith, Tell, Go
<1>1. ASSUME NEW p \in Payloads, Submit(c, p)
      PROVE  ClientHears(c) /\ InstanceFeels(c) /\ at' \in [Calls -> Places] /\ purges' = purges
  <2>1. UNCHANGED <<instance, purges>> /\ at' \in [Calls -> Places]
    BY <1>1 DEF Submit, TypeOK, Places
  <2>2. CASE StatusExists
    <3>1. Founded("accepted", NoDoc, "history")
      BY <2>1, <2>2 DEF Founded, StatusExists, Verdicts, instance
    <3>2. "accepted" \in Answers
      BY DEF Answers
    <3> QED
      BY <1>1, <2>1, <2>2, <3>1, <3>2 DEF Submit, ClientHears, InstanceFeels, instance
  <2>3. CASE ~StatusExists
    BY <1>1, <2>1, <2>3 DEF Submit, ClientHears, InstanceFeels, instance
  <2> QED
    BY <2>2, <2>3
<1>2. CASE StartNew(c)
  <2>1. purges' = purges /\ at' \in [Calls -> Places]
    BY <1>2 DEF StartNew, TypeOK, Places
  <2>2. CASE CanStart
    <3>1. Founded("accepted", NoDoc, "history")
      BY <1>2, <2>2 DEF Founded, StartNew, Create, Verdicts
    <3>2. "accepted" \in Answers
      BY DEF Answers
    <3> QED
      BY <1>2, <2>1, <2>2, <3>1, <3>2 DEF StartNew, ClientHears, InstanceFeels
  <2>3. CASE ~CanStart
    <3>1. Founded("upstreamError", NoDoc, "history") /\ "upstreamError" \in Answers
      BY DEF Founded, Verdicts, Answers
    <3> QED
      BY <1>2, <2>1, <2>3, <3>1 DEF StartNew, ClientHears, InstanceFeels, instance
  <2> QED
    BY <2>2, <2>3
<1>3. CASE StartNewUnheard(c)
  BY <1>3 DEF StartNewUnheard, ClientHears, InstanceFeels, instance, TypeOK, Places
<1>4. CASE SubmitTimesOut(c)
  <2>1. Founded("upstreamError", NoDoc, "history") /\ "upstreamError" \in Answers
    BY DEF Founded, Verdicts, Answers
  <2>2. {"upstreamError"} \cap Verdicts = {}
    BY DEF Verdicts
  <2>3. verdicts' = verdicts \cup
            {[status |-> v, from |-> "history"] : v \in {"upstreamError"} \cap Verdicts}
    BY <1>4, <2>2 DEF SubmitTimesOut
  <2> QED
    BY <1>4, <2>1, <2>3 DEF SubmitTimesOut, ClientHears, InstanceFeels, instance, TypeOK, Places
<1>5. CASE Status(c)
  <2>1. UNCHANGED <<instance, purges>> /\ at' \in [Calls -> Places]
    BY <1>5 DEF Status, TellCompleted, TypeOK, Places
  <2>2. CASE ~StatusExists
    BY <1>5, <2>1, <2>2 DEF Status, ClientHears, InstanceFeels, instance
  <2>3. CASE StatusExists /\ runtime = "completed"
    <3>1. Founded("completed", output, "history") /\ Founded("badResult", NoDoc, "history")
      BY <2>3 DEF Founded, Verdicts, Finished, NormalizedStatus
    <3>2. "completed" \in Answers /\ "badResult" \in Answers /\ output \in Doc \cup {NoDoc}
      BY DEF Answers, Verdicts, TypeOK
    <3>3. ClientHears(c)
      BY <1>5, <2>3, <3>1, <3>2 DEF Status, TellCompleted, ClientHears
    <3> QED
      BY <2>1, <3>3 DEF InstanceFeels, instance
  <2>4. CASE StatusExists /\ runtime # "completed"
    <3>1. runtime \in {"pending", "running", "failed", "terminated"}
      BY <2>4 DEF TypeOK, Live, Finished, StatusExists
    <3>2. Founded(NormalizedStatus, NoDoc, "history") /\ NormalizedStatus \in Answers
      BY <3>1 DEF Founded, Verdicts, Finished, NormalizedStatus, Answers
    <3>3. ClientHears(c)
      BY <1>5, <2>4, <3>2 DEF Status, ClientHears
    <3> QED
      BY <2>1, <3>3 DEF InstanceFeels, instance
  <2> QED
    BY <2>2, <2>3, <2>4
<1>6. CASE StatusFromBlob(c)
  <2>1. UNCHANGED <<instance, purges>> /\ at' \in [Calls -> Places]
    BY <1>6 DEF StatusFromBlob, TellCompleted, TypeOK, Places
  <2>2. Founded("notFound", NoDoc, "history") /\ Founded("badResult", NoDoc, "history")
        /\ (blob # NoDoc => Founded("completed", blob, "blob"))
    BY DEF Founded, Verdicts
  <2>3. "completed" \in Answers /\ "badResult" \in Answers /\ "notFound" \in Answers
        /\ blob \in Doc \cup {NoDoc}
    BY DEF Answers, Verdicts, TypeOK
  <2>4. ClientHears(c)
    BY <1>6, <2>2, <2>3 DEF StatusFromBlob, TellCompleted, ClientHears
  <2> QED
    BY <2>1, <2>4 DEF InstanceFeels, instance
<1>7. CASE Cancel(c)
  <2>1. UNCHANGED <<instance, purges>> /\ at' \in [Calls -> Places]
    BY <1>7 DEF Cancel, TypeOK, Places
  <2>2. /\ Founded("cancelling", NoDoc, "history")
        /\ runtime = "completed" => Founded("completed", NoDoc, "history")
        /\ runtime = "terminated" => Founded("cancelled", NoDoc, "history")
    BY DEF Founded, Verdicts, Finished, NormalizedStatus
  <2>3. "completed" \in Answers /\ "cancelled" \in Answers /\ "cancelling" \in Answers
    BY DEF Answers, Verdicts
  <2>4. ClientHears(c)
    BY <1>7, <2>2, <2>3 DEF Cancel, ClientHears
  <2> QED
    BY <2>1, <2>4 DEF InstanceFeels, instance
<1>8. CASE Terminate(c)
  <2>1. UNCHANGED <<runtime, input, starts, output, storing, blob, marked, purges>>
        /\ at' \in [Calls -> Places]
    BY <1>8 DEF Terminate, TypeOK, Places
  <2>2. Founded("cancelling", NoDoc, "history") /\ Founded("upstreamError", NoDoc, "history")
        /\ "cancelling" \in Answers /\ "upstreamError" \in Answers
    BY DEF Founded, Verdicts, Answers
  <2>3. ClientHears(c)
    BY <1>8, <2>2 DEF Terminate, ClientHears
  <2> QED
    BY <2>1, <2>3 DEF InstanceFeels
<1> QED
  BY <1>1, <1>2, <1>3, <1>4, <1>5, <1>6, <1>7, <1>8 DEF CallStep, NewCall, HandlerStep

-----------------------------------------------------------------------------
(* Types.                                                                  *)

Typed == TypeOK /\ PayloadsAreGiven

\* The variables start in their types.
LEMMA TypedInit == ASSUME Init PROVE Typed
<1>1. made \in 0 .. MaxCalls /\ purges \in 0 .. MaxPurges /\ starts \in Nat
  BY BoundsAssumption DEF Init
<1>2. /\ told \in [Calls -> [answer : Answers, doc : Doc \cup {NoDoc}]]
      /\ at \in [Calls -> {"idle", "start", "unheard", "terminate", "blob"}]
      /\ asked \in [Calls -> Payloads \cup {NoPayload}]
  BY DEF Init, Answers
<1>3. PayloadsAreGiven
  BY DEF Init, PayloadsAreGiven
<1> QED
  BY <1>1, <1>2, <1>3 DEF Init, Typed, TypeOK

\* What a client hears keeps its variables in their types.
LEMMA HeardIsTyped ==
    ASSUME TypeOK, NEW c \in Calls, ClientHears(c)
    PROVE  /\ told' \in [Calls -> [answer : Answers, doc : Doc \cup {NoDoc}]]
           /\ verdicts' \subseteq [status : Verdicts, from : {"history", "blob"}]
BY DEF ClientHears, TypeOK

\* start_new and terminate keep the instance in its types.
LEMMA FeltIsTyped ==
    ASSUME Typed, NEW c \in Calls, InstanceFeels(c)
    PROVE  /\ runtime' \in {"none"} \cup Live \cup Finished
           /\ input' \in Payloads \cup {NoPayload}
           /\ runtime' # "none" => input' \in Payloads
           /\ starts' \in Nat
           /\ output' \in Doc \cup {NoDoc}
           /\ storing' \subseteq [of : Payloads, by : Nat]
           /\ blob' \in Doc \cup {NoDoc}
           /\ marked' \subseteq Payloads
BY DEF InstanceFeels, Create, Typed, TypeOK, PayloadsAreGiven, Live

\* Every step keeps the types.
LEMMA TypedStep == ASSUME Typed, [Next]_vars PROVE Typed'
<1> USE DEF Typed
<1>1. ASSUME NEW c \in Calls, CallStep(c)
      PROVE  Typed'
  <2>1. ClientHears(c) /\ InstanceFeels(c) /\ at' \in [Calls -> Places] /\ purges' = purges
    BY <1>1, CallStepDoes
  <2>2. killing' \in BOOLEAN
    BY <1>1 DEF CallStep, NewCall, HandlerStep, Submit, StartNew, StartNewUnheard,
                SubmitTimesOut, Status, StatusFromBlob, Cancel, Terminate, Create,
                instance, TypeOK, StatusExists
  <2>3. asked' \in [Calls -> Payloads \cup {NoPayload}] /\ made' \in 0 .. MaxCalls
    BY <1>1, BoundsAssumption
       DEF CallStep, NewCall, HandlerStep, Submit, StartNew, StartNewUnheard, SubmitTimesOut,
           Status, StatusFromBlob, Cancel, Terminate, Call, TypeOK
  <2>4. \A d \in Calls : at'[d] \in {"start", "unheard"} => asked'[d] \in Payloads
    <3>1. CASE \E p \in Payloads : Submit(c, p)
      BY <3>1 DEF Submit, Call, Tell, TellWith, Go, TypeOK, PayloadsAreGiven
    <3>2. CASE ~\E p \in Payloads : Submit(c, p)
      <4>1. asked' = asked
        BY <1>1, <3>2 DEF CallStep, NewCall, HandlerStep, StartNew, StartNewUnheard,
                          SubmitTimesOut, Status, StatusFromBlob, Cancel, Terminate
      <4>2. \A d \in Calls : at'[d] \in {"start", "unheard"} =>
                at[d] \in {"start", "unheard"}
        BY <1>1, <3>2
           DEF CallStep, NewCall, HandlerStep, StartNew, StartNewUnheard, SubmitTimesOut,
               Status, StatusFromBlob, Cancel, Terminate, Tell, TellWith, TellCompleted, Go,
               TypeOK
      <4> QED
        BY <4>1, <4>2 DEF PayloadsAreGiven
    <3> QED
      BY <3>1, <3>2
  <2>5. purges' \in 0 .. MaxPurges
    BY <2>1 DEF TypeOK
  <2> QED
    BY <2>1, <2>2, <2>3, <2>4, <2>5, HeardIsTyped, FeltIsTyped
       DEF TypeOK, PayloadsAreGiven, Places
<1>2. CASE Run
  BY <1>2 DEF Run, client, TypeOK, PayloadsAreGiven, Live
<1>3. CASE ResultsArrive
  <2>1. runtime # "none"
    BY <1>3 DEF ResultsArrive, Finished
  <2> QED
    BY <1>3, <2>1 DEF ResultsArrive, client, TypeOK, PayloadsAreGiven
<1>4. ASSUME NEW f \in storing, NEW whole \in BOOLEAN, StoreResult(f, whole)
      PROVE  Typed'
  <2>1. [of |-> f.of, whole |-> whole] \in Doc
    BY DEF TypeOK, Doc
  <2> QED
    BY <1>4, <2>1 DEF StoreResult, client, TypeOK, PayloadsAreGiven
<1>5. CASE Complete
  BY <1>5 DEF Complete, client, TypeOK, PayloadsAreGiven, Finished
<1>6. CASE Fail
  BY <1>6 DEF Fail, client, TypeOK, PayloadsAreGiven, Finished
<1>7. CASE BeTerminated
  BY <1>7 DEF BeTerminated, client, TypeOK, PayloadsAreGiven, Finished, Live
<1>8. CASE Purge
  <2>1. purges' \in 0 .. MaxPurges
    BY <1>8, BoundsAssumption DEF Purge, TypeOK
  <2>2. PayloadsAreGiven'
    BY <1>8 DEF Purge, client, PayloadsAreGiven
  <2> QED
    BY <1>8, <2>1, <2>2 DEF Purge, client, TypeOK
<1>9. CASE UNCHANGED vars
  BY <1>9 DEF vars, instance, client, TypeOK, PayloadsAreGiven
<1> QED
  BY <1>1, <1>2, <1>3, <1>4, <1>5, <1>6, <1>7, <1>8, <1>9
     DEF Next, InstanceStep, CallStep

-----------------------------------------------------------------------------
(* The invariant.                                                          *)

\* A document is none of the values that stand for none.
LEMMA DocIsSomething == ASSUME NEW d \in Doc PROVE d # NoDoc
BY DEF Doc, NoDoc

\* The invariant holds of an empty host.
LEMMA LInvInit == ASSUME Init PROVE LInv
<1>1. Typed
  BY TypedInit
<1>2. VerdictIsOfInstance
  BY DEF Init, VerdictIsOfInstance, HistoryVerdicts
<1>3. AcceptedIsStarted /\ CompletedIsStored /\ StoredOnce /\ ResultIsHandoff /\ CompletedHasHandoff
  BY DEF Init, AcceptedIsStarted, CompletedIsStored, StoredOnce, ResultIsHandoff,
         CompletedHasHandoff
<1> QED
  BY <1>1, <1>2, <1>3 DEF LInv, Typed

\* What a client is told keeps the promises made to clients.
LEMMA ToldStep ==
    ASSUME LInv, NEW c \in Calls, ClientHears(c), InstanceFeels(c), purges' = purges
    PROVE  /\ AcceptedIsStarted' /\ VerdictIsOfInstance'
           /\ ResultIsHandoff' /\ CompletedHasHandoff'
<1> USE DEF LInv
<1>1. runtime # "none" => runtime' # "none"
  BY DEF InstanceFeels, Create
<1>2. blob' = blob /\ starts' \in {starts, starts + 1} /\ starts \in Nat
  BY DEF InstanceFeels, Create, TypeOK
<1>3. AcceptedIsStarted'
  BY <1>1 DEF ClientHears, Founded, AcceptedIsStarted, TypeOK
<1>4. CompletedHasHandoff'
  BY <1>2 DEF ClientHears, Founded, CompletedHasHandoff, CompletedIsStored
<1>5. ASSUME starts' <= 1
      PROVE  /\ starts <= 1
             /\ \/ runtime' = runtime /\ starts' = starts
                \/ starts = 0 /\ runtime' \in Live
  BY <1>2, <1>5 DEF InstanceFeels, Create, Live, TypeOK
<1>6. ResultIsHandoff'
  <2> SUFFICES ASSUME NEW d \in Calls, told'[d].doc # NoDoc, starts' <= 1
               PROVE  told'[d].doc = blob'
    BY DEF ResultIsHandoff
  <2>1. starts <= 1
    BY <1>5
  <2>2. CASE told'[d].doc = told[d].doc
    BY <1>2, <2>1, <2>2 DEF ResultIsHandoff
  <2>3. CASE told'[d].doc # told[d].doc
    <3>1. told'[d].doc = blob \/ (runtime = "completed" /\ told'[d].doc = output)
      BY <2>3 DEF ClientHears, Founded, TypeOK
    <3>2. output # NoDoc => output = blob
      BY <2>1 DEF StoredOnce
    <3> QED
      BY <1>2, <3>1, <3>2
  <2> QED
    BY <2>2, <2>3
<1>7. VerdictIsOfInstance'
  <2> SUFFICES ASSUME starts' <= 1
               PROVE  /\ runtime' \in Live \/ starts' = 0 => HistoryVerdicts' = {}
                      /\ runtime' \in Finished =>
                            \A v \in HistoryVerdicts' : v.status = NormalizedStatus'
                      /\ \A v, w \in HistoryVerdicts' : v = w
    BY DEF VerdictIsOfInstance
  <2>1. \A v \in HistoryVerdicts' \ HistoryVerdicts :
            /\ v = [status |-> NormalizedStatus, from |-> "history"]
            /\ runtime \in Finished
    <3>1. CASE UNCHANGED <<told, verdicts>>
      BY <3>1 DEF HistoryVerdicts
    <3>2. CASE ~UNCHANGED <<told, verdicts>>
      <4>1. PICK answer \in Answers, doc \in Doc \cup {NoDoc}, from \in {"history", "blob"} :
                /\ verdicts' = verdicts \cup
                      {[status |-> v, from |-> from] : v \in {answer} \cap Verdicts}
                /\ Founded(answer, doc, from)
        BY <3>2 DEF ClientHears
      <4> QED
        BY <4>1 DEF Founded, HistoryVerdicts
    <3> QED
      BY <3>1, <3>2
  <2>2. starts <= 1
    BY <1>5
  <2>3. HistoryVerdicts \subseteq HistoryVerdicts'
    BY DEF ClientHears, HistoryVerdicts
  <2>4. CASE starts = 0
    <3>1. runtime = "none" /\ HistoryVerdicts = {}
      BY <2>2, <2>4 DEF StoredOnce, VerdictIsOfInstance
    <3>2. HistoryVerdicts' = {}
      BY <2>1, <3>1 DEF Finished
    <3> QED
      BY <3>2
  <2>5. CASE starts # 0
    <3>1. runtime' = runtime /\ starts' = starts
      BY <1>5, <2>5
    <3>2. runtime \notin Finished => HistoryVerdicts' = HistoryVerdicts
      BY <2>1, <2>3
    <3>3. NormalizedStatus' = NormalizedStatus
      BY <3>1 DEF NormalizedStatus
    <3>4. runtime \in Live => HistoryVerdicts' = {}
      BY <2>2, <3>2 DEF VerdictIsOfInstance, Live, Finished
    <3>5. \A v \in HistoryVerdicts : v.from = "history"
             /\ v = [status |-> v.status, from |-> v.from]
      BY DEF HistoryVerdicts, TypeOK
    <3>6. runtime \in Finished => \A v \in HistoryVerdicts :
              v = [status |-> NormalizedStatus, from |-> "history"]
      BY <2>2, <3>5 DEF VerdictIsOfInstance
    <3>7. runtime \in Finished => \A v \in HistoryVerdicts' :
              v = [status |-> NormalizedStatus, from |-> "history"]
      BY <2>1, <3>6
    <3>8. \A v, w \in HistoryVerdicts' : v = w
      BY <2>2, <3>2, <3>7 DEF VerdictIsOfInstance
    <3>9. runtime' \in Finished => \A v \in HistoryVerdicts' : v.status = NormalizedStatus'
      BY <3>1, <3>3, <3>7
    <3> QED
      BY <2>5, <3>1, <3>4, <3>8, <3>9
  <2> QED
    BY <2>4, <2>5
<1> QED
  BY <1>3, <1>4, <1>6, <1>7

\* start_new and terminate keep what is known of the instance and of result.json.
LEMMA FeltStep ==
    ASSUME LInv, NEW c \in Calls, InstanceFeels(c)
    PROVE  CompletedIsStored' /\ StoredOnce'
<1> USE DEF LInv
<1>1. CASE UNCHANGED <<runtime, input, starts, output, storing, blob, marked>>
  BY <1>1 DEF CompletedIsStored, StoredOnce
<1>2. CASE CanStart /\ Create(asked[c])
  <2>1. runtime' # "completed" /\ output' = NoDoc /\ starts' = starts + 1 /\ starts \in Nat
    BY <1>2 DEF Create, TypeOK
  <2>2. starts' <= 1 => starts = 0
    BY <2>1
  <2> QED
    BY <1>2, <2>1, <2>2 DEF Create, CompletedIsStored, StoredOnce
<1> QED
  BY <1>1, <1>2 DEF InstanceFeels

\* The promises to clients survive what the instance does, if its verdict stays.
LEMMA UntoldStep ==
    ASSUME LInv, UNCHANGED client, starts' = starts, purges' = purges \/ purges' # 0,
           runtime' = "none" => runtime = "none" \/ purges' # 0,
           runtime' # runtime => runtime' = "none" \/ runtime \in Live,
           blob # NoDoc => blob' # NoDoc,
           starts <= 1 /\ blob # NoDoc => blob' = blob
    PROVE  /\ AcceptedIsStarted' /\ VerdictIsOfInstance'
           /\ ResultIsHandoff' /\ CompletedHasHandoff'
<1> USE DEF LInv, client
<1>1. AcceptedIsStarted'
  BY DEF AcceptedIsStarted
<1>2. CompletedHasHandoff'
  BY DEF CompletedHasHandoff
<1>3. ResultIsHandoff'
  <2>1. blob = NoDoc /\ starts <= 1 => \A c \in Calls : told[c].doc = NoDoc
    BY DEF ResultIsHandoff
  <2> QED
    BY <2>1 DEF ResultIsHandoff
<1>4. VerdictIsOfInstance'
  <2>1. HistoryVerdicts' = HistoryVerdicts
    BY DEF HistoryVerdicts
  <2>2. CASE runtime' = runtime
    <3>1. NormalizedStatus' = NormalizedStatus
      BY <2>2 DEF NormalizedStatus
    <3> QED
      BY <2>1, <2>2, <3>1 DEF VerdictIsOfInstance
  <2>3. CASE runtime' = "none" /\ runtime' # runtime
    BY <2>1, <2>3 DEF VerdictIsOfInstance, Finished, Live
  <2>4. CASE runtime \in Live
    BY <2>1, <2>4 DEF VerdictIsOfInstance
  <2> QED
    BY <2>2, <2>3, <2>4
<1> QED
  BY <1>1, <1>2, <1>3, <1>4

Promises == AcceptedIsStarted /\ VerdictIsOfInstance /\ ResultIsHandoff /\ CompletedHasHandoff

\* Every step preserves the invariant.
LEMMA LInvStep == ASSUME LInv, [Next]_vars PROVE LInv'
<1> USE DEF LInv
<1> SUFFICES CompletedIsStored' /\ StoredOnce' /\ Promises'
  <2>1. Typed'
    BY TypedStep DEF Typed
  <2> QED
    BY <2>1 DEF Typed, Promises
<1>1. ASSUME NEW c \in Calls, CallStep(c)
      PROVE  CompletedIsStored' /\ StoredOnce' /\ Promises'
  <2>1. ClientHears(c) /\ InstanceFeels(c) /\ purges' = purges
    BY <1>1, CallStepDoes
  <2> QED
    BY <2>1, ToldStep, FeltStep DEF Promises
<1>2. CASE Run
  <2>1. CompletedIsStored' /\ StoredOnce'
    BY <1>2 DEF Run, CompletedIsStored, StoredOnce
  <2>2. Promises'
    BY <1>2, UntoldStep DEF Run, Live, client, Promises
  <2> QED
    BY <2>1, <2>2
<1>3. CASE ResultsArrive
  <2>1. runtime # "none"
    BY <1>3 DEF ResultsArrive, Finished
  <2>2. starts <= 1 => storing = {} /\ blob = NoDoc
    BY <1>3, <2>1 DEF ResultsArrive, StoredOnce
  <2>3. \A f, g \in storing' : starts <= 1 => f = g
    BY <1>3, <2>2 DEF ResultsArrive
  <2>4. CompletedIsStored' /\ StoredOnce'
    BY <1>3, <2>1, <2>2, <2>3 DEF ResultsArrive, CompletedIsStored, StoredOnce
  <2>5. Promises'
    BY <1>3, <2>1, UntoldStep DEF ResultsArrive, client, Promises
  <2> QED
    BY <2>4, <2>5
<1>4. ASSUME NEW f \in storing, NEW whole \in BOOLEAN, StoreResult(f, whole)
      PROVE  CompletedIsStored' /\ StoredOnce' /\ Promises'
  <2>1. blob' # NoDoc
    <3>1. [of |-> f.of, whole |-> whole] \in Doc
      BY DEF TypeOK, Doc
    <3> QED
      BY <1>4, <3>1, DocIsSomething DEF StoreResult
  <2>2. starts <= 1 => blob = NoDoc /\ storing' = {} /\ output = NoDoc
    BY <1>4 DEF StoreResult, StoredOnce, CompletedIsStored
  <2>3. CompletedIsStored'
    BY <1>4, <2>1 DEF StoreResult, CompletedIsStored
  <2>4. StoredOnce'
    BY <1>4, <2>1, <2>2 DEF StoreResult, StoredOnce
  <2>5. Promises'
    BY <1>4, <2>1, <2>2, UntoldStep DEF StoreResult, client, Promises
  <2> QED
    BY <2>3, <2>4, <2>5
<1>5. CASE Complete
  <2>1. CompletedIsStored' /\ StoredOnce'
    BY <1>5 DEF Complete, CompletedIsStored, StoredOnce
  <2>2. Promises'
    BY <1>5, UntoldStep DEF Complete, Live, client, Promises
  <2> QED
    BY <2>1, <2>2
<1>6. CASE Fail
  <2>1. CompletedIsStored'
    BY <1>6 DEF Fail, CompletedIsStored
  <2>2. storing' \subseteq storing
    BY <1>6 DEF Fail
  <2>3. StoredOnce'
    BY <1>6, <2>2 DEF Fail, StoredOnce
  <2>4. Promises'
    BY <1>6, UntoldStep DEF Fail, Live, client, Promises
  <2> QED
    BY <2>1, <2>3, <2>4
<1>7. CASE BeTerminated
  <2>1. CompletedIsStored' /\ StoredOnce'
    BY <1>7 DEF BeTerminated, CompletedIsStored, StoredOnce, Live
  <2>2. Promises'
    BY <1>7, UntoldStep DEF BeTerminated, client, Promises
  <2> QED
    BY <2>1, <2>2
<1>8. CASE Purge
  <2>1. purges' # 0
    BY <1>8 DEF Purge, TypeOK
  <2>2. CompletedIsStored' /\ StoredOnce'
    BY <1>8 DEF Purge, CompletedIsStored, StoredOnce
  <2>3. Promises'
    BY <1>8, <2>1, UntoldStep DEF Purge, client, Promises
  <2> QED
    BY <2>2, <2>3
<1>9. CASE UNCHANGED vars
  <2>1. CompletedIsStored' /\ StoredOnce'
    BY <1>9 DEF vars, instance, CompletedIsStored, StoredOnce
  <2>2. AcceptedIsStarted' /\ ResultIsHandoff' /\ CompletedHasHandoff'
    BY <1>9 DEF vars, instance, client, AcceptedIsStarted, ResultIsHandoff,
                 CompletedHasHandoff
  <2>3. VerdictIsOfInstance'
    BY <1>9 DEF vars, instance, client, VerdictIsOfInstance, HistoryVerdicts,
                 NormalizedStatus
  <2> QED
    BY <2>1, <2>2, <2>3 DEF Promises
<1> QED
  BY <1>1, <1>2, <1>3, <1>4, <1>5, <1>6, <1>7, <1>8, <1>9
     DEF Next, InstanceStep, CallStep

-----------------------------------------------------------------------------
(* The theorems.                                                           *)

\* LInv holds in every reachable state.
THEOREM LifecycleInv == Spec => []LInv
<1>1. Init => LInv
  BY LInvInit
<1>2. LInv /\ [Next]_vars => LInv'
  BY LInvStep
<1> QED
  BY <1>1, <1>2, PTL DEF Spec

\* The variables of the API, the host routes and the instance keep their types.
THEOREM LifecycleTypeOK == Spec => []TypeOK
<1>1. LInv => TypeOK
  BY DEF LInv
<1> QED
  BY <1>1, LifecycleInv, PTL

\* submit_batch answers 202 only for a batch that exists, until it is purged.
THEOREM AcceptedIsStartedHolds == Spec => []AcceptedIsStarted
<1>1. LInv => AcceptedIsStarted
  BY DEF LInv
<1> QED
  BY <1>1, LifecycleInv, PTL

\* Status and cancel never contradict each other about a batch started once.
THEOREM OneVerdictHolds == Spec => []OneVerdict
<1>1. LInv => OneVerdict
  <2> SUFFICES ASSUME LInv, starts <= 1
               PROVE  Cardinality(HistoryVerdicts) <= 1
    BY DEF OneVerdict, HistoryVerdicts
  <2>1. \A v, w \in HistoryVerdicts : v = w
    BY DEF LInv, VerdictIsOfInstance
  <2>2. CASE HistoryVerdicts = {}
    <3>1. Cardinality({}) = 0
      BY FS_EmptySet
    <3>2. Cardinality(HistoryVerdicts) = 0
      BY <2>2, <3>1
    <3> QED
      BY <3>2
  <2>3. CASE HistoryVerdicts # {}
    <3>1. PICK v : HistoryVerdicts = {v}
      BY <2>1, <2>3
    <3>2. Cardinality({v}) = 1
      BY FS_Singleton
    <3>3. Cardinality(HistoryVerdicts) = 1
      BY <3>1, <3>2
    <3> QED
      BY <3>3
  <2> QED
    BY <2>2, <2>3
<1> QED
  BY <1>1, LifecycleInv, PTL

\* A result shown to a client is the one in result.json.
THEOREM ResultIsHandoffHolds == Spec => []ResultIsHandoff
<1>1. LInv => ResultIsHandoff
  BY DEF LInv
<1> QED
  BY <1>1, LifecycleInv, PTL

\* Whoever is told "completed" finds result.json there.
THEOREM CompletedHasHandoffHolds == Spec => []CompletedHasHandoff
<1>1. LInv => CompletedHasHandoff
  BY DEF LInv
<1> QED
  BY <1>1, LifecycleInv, PTL
=============================================================================
