-------------------------- MODULE DlqReplay_proofs --------------------------
(***************************************************************************)
(* Proofs about result intake and the engine's queues under dead-lettering *)
(* and replay, for any runs, statuses, invocations, delivery counts and    *)
(* any number of faults.                                                   *)
(***************************************************************************)
EXTENDS DlqReplay, ResultIntake_proofs

\* What intake knows is untouched by the queues: only where results are changes.
LEMMA OnlyInboundMoves ==
    ASSUME Inv, inbound' \subseteq Msgs,
           UNCHANGED <<index, step, msg, claimed, raised, live, crashes>>
    PROVE  Inv'
  BY DEF Inv, TypeOK, BusyHoldsResult, RaiserHasClaimed, EventIsClaimed, ClaimIsExclusive,
         EventRaisedOnce

\* An invocation that ends without returning gives nothing of its run away.
LEMMA InvocationEnds ==
    ASSUME Inv, inbound' \subseteq Msgs, NEW h \in Handlers,
           RaiseThrows(h) \/ InvocationLost(h)
    PROVE  Inv'
<1> USE NoMsgAssumption, CrashAssumption
<1> USE DEF RaiseThrows, InvocationLost, Release
<1>1. TypeOK' /\ BusyHoldsResult'
  BY DEF Inv, TypeOK, BusyHoldsResult, Steps
<1>2. RaiserHasClaimed' /\ EventIsClaimed' /\ ClaimIsExclusive' /\ EventRaisedOnce'
  BY DEF Inv, TypeOK, Steps, RaiserHasClaimed, EventIsClaimed, ClaimIsExclusive, EventRaisedOnce
<1> QED
  BY <1>1, <1>2 DEF Inv

\* The step of a replay for the one message x of kind k.
LEMMA SettleKeepsTypes ==
    ASSUME QueueTypes, NEW k \in Kinds, NEW xs \in SUBSET received[k], NEW back \in SUBSET xs,
           Settle(k, xs, back), discarded' \subseteq Msgs, faults' \in 0 .. MaxFaults
    PROVE  QueueTypes'
<1>1. CASE k = "runs"
  BY <1>1 DEF QueueTypes, Settle, SetDead, Dead, Kinds
<1>2. CASE k = "results"
  BY <1>2 DEF QueueTypes, Settle, SetDead, Dead, Kinds
<1> QED
  BY <1>1, <1>2 DEF Kinds

\* Every action keeps the queues and the replay in their types.
LEMMA DlqTypesAreInductive ==
    ASSUME Inv, QueueTypes, [DlqNext]_dlqVars
    PROVE  Inv' /\ QueueTypes'
<1> USE DeliveriesAssumption, FaultsAssumption
<1>t. TypeOK /\ BusyHoldsResult
  BY DEF Inv
<1>0. ASSUME [Next]_vars PROVE Inv'
  BY <1>0, InvIsInductive
<1>1. ASSUME NEW r \in Runs, DispatchRun(r) PROVE Inv' /\ QueueTypes'
  <2>1. Inv'
    BY <1>0, <1>1 DEF DispatchRun, Next, Environment
  <2> QED
    BY <1>1, <2>1 DEF DispatchRun, QueueTypes, replayVars
<1>2. ASSUME NEW r \in Runs, EngineAnswers(r) PROVE Inv' /\ QueueTypes'
  <2>1. Inv'
    <3>1. PICK s \in Statuses, f \in Forms :
              Report([run |-> r, status |-> s, via |-> "sb", form |-> f])
      BY <1>2 DEF EngineAnswers
    <3>2. [run |-> r, status |-> s, via |-> "sb", form |-> f] \in Msgs
      BY DEF Msgs, Channels
    <3> QED
      BY <1>0, <3>1, <3>2 DEF Next, Environment
  <2> QED
    BY <1>2, <2>1 DEF EngineAnswers, QueueTypes, replayVars
<1>3. ASSUME NEW r \in Runs, EnginePatches(r) PROVE Inv' /\ QueueTypes'
  <2>1. PICK s \in Statuses :
            Report([run |-> r, status |-> s, via |-> "http", form |-> "canonical"])
    BY <1>3 DEF EnginePatches
  <2>2. [run |-> r, status |-> s, via |-> "http", form |-> "canonical"] \in Msgs
    BY FormsAssumption DEF Msgs, Channels
  <2>3. Inv'
    BY <1>0, <2>1, <2>2 DEF Next, Environment
  <2> QED
    BY <1>3, <2>3 DEF EnginePatches, QueueTypes, replayVars, engineVars
<1>4. ASSUME NEW r \in Runs, EngineReturns(r) \/ EngineFails(r) PROVE Inv' /\ QueueTypes'
  <2>1. UNCHANGED vars
    BY <1>4 DEF EngineReturns, EngineFails
  <2>2. CASE EngineReturns(r)
    BY <1>0, <2>1, <2>2 DEF EngineReturns, QueueTypes, replayVars
  <2>3. CASE EngineFails(r)
    BY <1>0, <2>1, <2>3 DEF EngineFails, Fault, QueueTypes, replayVars
  <2> QED
    BY <1>4, <2>2, <2>3
<1>5. ASSUME NEW m \in inbound, DeliveryFails(m),
             UNCHANGED <<engineVars, replayVars>>, faults' \in 0 .. MaxFaults
      PROVE  QueueTypes' /\ inbound' \subseteq Msgs
  BY <1>t, <1>5 DEF DeliveryFails, QueueTypes, TypeOK, engineVars, replayVars
<1>6. ASSUME NEW m \in inbound, RejectResult(m) PROVE Inv' /\ QueueTypes'
  <2>1. faults' \in 0 .. MaxFaults
    BY <1>6 DEF RejectResult, Fault, QueueTypes
  <2> QED
    BY <1>5, <1>6, <2>1, OnlyInboundMoves DEF RejectResult, intakeVars
<1>7. ASSUME IntakeStep PROVE Inv' /\ QueueTypes'
  <2> USE DEF OthersOfIntake
  <2>1. ASSUME [Next]_vars, UNCHANGED <<OthersOfIntake, deadResults>>,
               resultTries' \in [Msgs -> 0 .. MaxDeliveries - 1]
        PROVE  Inv' /\ QueueTypes'
    BY <1>0, <2>1 DEF QueueTypes, engineVars, replayVars
  <2>2. ASSUME NEW h \in Handlers, (\E m \in inbound : Accept(h, m)) \/ Claim(h) \/ Raise(h),
               UNCHANGED <<resultTries, deadResults>>
        PROVE  Inv' /\ QueueTypes'
    BY <1>7, <2>1, <2>2 DEF IntakeStep, Next, HandlerStep, QueueTypes
  <2>3. ASSUME NEW m \in inbound, DropUnknown(m), UNCHANGED <<resultTries, deadResults>>
        PROVE  Inv' /\ QueueTypes'
    BY <1>7, <2>1, <2>3 DEF IntakeStep, Next, QueueTypes
  <2>4. ASSUME NEW h \in Handlers, Acknowledge(h) PROVE Inv' /\ QueueTypes'
    <3>0. 0 \in 0 .. MaxDeliveries - 1
      OBVIOUS
    <3>1. resultTries' \in [Msgs -> 0 .. MaxDeliveries - 1]
      BY <2>4, <3>0 DEF Acknowledge, QueueTypes
    <3> QED
      BY <1>7, <2>1, <2>4, <3>1 DEF Acknowledge, IntakeStep, Next, HandlerStep
  <2>5. ASSUME NEW h \in Handlers, RaiseThrows(h) \/ InvocationLost(h), NotReturned(msg[h])
        PROVE  Inv' /\ QueueTypes'
    <3>1. QueueTypes' /\ inbound' \subseteq Msgs
      <4>1. faults' \in 0 .. MaxFaults /\ UNCHANGED <<engineVars, replayVars>>
        BY <1>7 DEF IntakeStep, QueueTypes
      <4>2. CASE msg[h] \in inbound /\ DeliveryFails(msg[h])
        BY <1>5, <4>1, <4>2
      <4>3. CASE UNCHANGED <<resultTries, deadResults>> /\ inbound' \subseteq inbound
        BY <1>t, <4>1, <4>3 DEF QueueTypes, TypeOK, engineVars, replayVars
      <4> QED
        BY <2>5, <4>2, <4>3 DEF NotReturned, Undelivered
    <3> QED
      BY <2>5, <3>1, InvocationEnds
  <2> QED
    BY <1>7, <2>2, <2>3, <2>4, <2>5 DEF IntakeStep
<1>8. ASSUME NEW k \in Kinds, ReplayStep(k) PROVE Inv' /\ QueueTypes'
  <2>1. CASE ReceiveDead(k)
    <3>1. UNCHANGED vars
      BY <2>1 DEF ReceiveDead
    <3>2. CASE k = "runs"
      BY <1>0, <2>1, <3>1, <3>2 DEF ReceiveDead, SetDead, Dead, QueueTypes, Kinds
    <3>3. CASE k = "results"
      BY <1>0, <2>1, <3>1, <3>3 DEF ReceiveDead, SetDead, Dead, QueueTypes, Kinds
    <3> QED
      BY <3>2, <3>3 DEF Kinds
  <2>2. ASSUME NEW xs \in SUBSET received[k], NEW back \in SUBSET xs, Settle(k, xs, back),
               discarded' \subseteq Msgs, faults' \in 0 .. MaxFaults
        PROVE  Inv' /\ QueueTypes'
    <3>1. QueueTypes'
      BY <2>2, SettleKeepsTypes
    <3>2. UNCHANGED vars
      BY <2>2 DEF Settle
    <3> QED
      BY <1>0, <3>1, <3>2
  <2>3. ASSUME NEW x \in received[k], DiscardPoison(x), k = "results" PROVE Inv' /\ QueueTypes'
    <3>1. x \in Msgs /\ discarded' \subseteq Msgs /\ faults' \in 0 .. MaxFaults
      BY <2>3 DEF DiscardPoison, QueueTypes
    <3> QED
      BY <2>2, <2>3, <3>1 DEF DiscardPoison
  <2>4. ASSUME NEW x \in received[k], SendCopy(k, x) PROVE Inv' /\ QueueTypes'
    <3>1. inbound' \subseteq Msgs
      BY <1>t, <2>4 DEF SendCopy, QueueTypes, TypeOK, Kinds
    <3>2. runQueue \subseteq runQueue' /\ runQueue' \subseteq Runs
      BY <2>4 DEF SendCopy, QueueTypes, Kinds
    <3> QED
      BY <2>4, <3>1, <3>2, OnlyInboundMoves DEF SendCopy, QueueTypes, Kinds
  <2>5. ASSUME NEW x \in received[k], CompleteDead(k, x) PROVE Inv' /\ QueueTypes'
    BY <2>2, <2>5 DEF CompleteDead, QueueTypes
  <2>6. ASSUME NEW x \in received[k], ReplayFails(k, x) PROVE Inv' /\ QueueTypes'
    <3>1. discarded' \subseteq Msgs /\ faults' \in 0 .. MaxFaults
      BY <2>6 DEF ReplayFails, Fault, QueueTypes
    <3> QED
      BY <2>2, <2>6, <3>1 DEF ReplayFails
  <2> QED
    BY <1>8, <2>1, <2>3, <2>4, <2>5, <2>6 DEF ReplayStep, ReplayMessage
<1>9. CASE BatchStops
  BY <1>0, <1>9 DEF BatchStops, Next, Environment, QueueTypes, engineVars, replayVars
<1>10. CASE UNCHANGED dlqVars
  BY <1>0, <1>10 DEF dlqVars, QueueTypes, engineVars, replayVars
<1> QED
  BY <1>1, <1>2, <1>3, <1>4, <1>6, <1>7, <1>8, <1>9, <1>10 DEF DlqNext, EngineStep

\* Where messages are, dead or alive.
Pool == inbound \cup deadResults \cup received["results"]
RunPool == runQueue \cup deadRuns \cup received["runs"]

\* What a step may do to the messages: new results are of runs the engine has,
\* a result leaves only claimed or discarded (a PATCH at will), a run message only
\* answered, or as the original of a copy.
Moves ==
    /\ index \subseteq index' /\ claimed \subseteq claimed' /\ discarded \subseteq discarded'
    /\ \A m \in Pool' \ Pool : m.run \in runQueue
    /\ \A m \in Pool \ Pool' : m.via = "http" \/ m.run \in claimed' \/ m \in discarded'
    /\ RunPool' \subseteq RunPool \cup index'
    /\ index' \ index \subseteq RunPool'
    /\ \A r \in RunPool \ RunPool' : AccountedFor(r)

\* Nothing but the given variables concerns the messages.
LEMMA NothingMoves ==
    ASSUME index \subseteq index', claimed \subseteq claimed', discarded \subseteq discarded',
           index' \subseteq index, Pool' = Pool, RunPool' = RunPool
    PROVE  Moves
  BY DEF Moves

\* A replay's step for messages of kind k moves what stays dead, no more.
LEMMA SettleMoves ==
    ASSUME DlqInv, NEW k \in Kinds, NEW xs \in SUBSET received[k], NEW back \in SUBSET xs,
           Settle(k, xs, back), discarded \subseteq discarded',
           \A x \in xs \ back : \/ k = "results" /\ x \in discarded'
                                \/ x \in copied[k]
    PROVE  Moves
<1> USE DEF Settle, SetDead, Dead, Pool, RunPool, vars
<1>1. UNCHANGED <<index, claimed, inbound, runQueue>>
  OBVIOUS
<1>2. CASE k = "runs"
  <2>1. RunPool \ RunPool' \subseteq xs \ back /\ Pool' = Pool /\ RunPool' \subseteq RunPool
    BY <1>1, <1>2 DEF DlqInv, QueueTypes, Kinds
  <2>2. \A r \in RunPool \ RunPool' : r \in copied["runs"] /\ r \notin runQueue \cup deadRuns
    BY <1>1, <1>2, <2>1 DEF DlqInv, QueueTypes, Kinds
  <2>3. \A r \in RunPool \ RunPool' : AccountedFor(r)
    BY <2>2 DEF DlqInv, CopyIsTraced
  <2> QED
    BY <1>1, <2>1, <2>3 DEF Moves
<1>3. CASE k = "results"
  <2>1. Pool \ Pool' \subseteq xs \ back /\ Pool' \subseteq Pool /\ RunPool' = RunPool
    BY <1>1, <1>3 DEF DlqInv, QueueTypes, Kinds
  <2>2. \A m \in Pool \ Pool' : m \in discarded' \/ m.via # "sb" \/ m.run \in claimed
    BY <1>1, <1>3, <2>1 DEF DlqInv, CopyIsTraced, QueueTypes, Kinds
  <2>3. Pool \subseteq Msgs
    BY DEF DlqInv, Inv, TypeOK, QueueTypes
  <2> QED
    BY <1>1, <2>1, <2>2, <2>3 DEF Moves, Msgs, Channels
<1> QED
  BY <1>2, <1>3 DEF Kinds

\* Every action keeps the messages of dispatched runs, and moves them as it says.
LEMMA EveryStepMoves ==
    ASSUME DlqInv, DlqNext
    PROVE  Moves
<1> USE DEF Pool, RunPool
<1>t. TypeOK /\ BusyHoldsResult /\ QueueTypes
  BY DEF DlqInv, Inv
<1>1. ASSUME NEW r \in Runs, DispatchRun(r) PROVE Moves
  BY <1>1 DEF DispatchRun, IndexRun, intakeVars, replayVars, Moves
<1>2. ASSUME NEW r \in Runs, EngineAnswers(r) \/ EnginePatches(r) PROVE Moves
  BY <1>2 DEF EngineAnswers, EnginePatches, Report, intakeVars, replayVars, engineVars, Moves
<1>3. ASSUME NEW r \in Runs, EngineReturns(r) PROVE Moves
  BY <1>3 DEF EngineReturns, vars, replayVars, Moves, DlqInv, AnsweredIsAccountedFor
<1>4. ASSUME NEW r \in Runs, EngineFails(r) PROVE Moves
  BY <1>4 DEF EngineFails, vars, replayVars, Moves
<1>5. ASSUME NEW m \in inbound, DeliveryFails(m),
             UNCHANGED <<index, engineVars, replayVars>>, claimed \subseteq claimed'
      PROVE  Moves
  BY <1>5 DEF DeliveryFails, engineVars, replayVars, Moves
<1>6. ASSUME NEW m \in inbound, RejectResult(m) PROVE Moves
  BY <1>5, <1>6 DEF RejectResult, intakeVars
<1>7. ASSUME IntakeStep PROVE Moves
  <2>1. UNCHANGED <<engineVars, replayVars>>
    BY <1>7 DEF IntakeStep, OthersOfIntake
  <2> USE DEF engineVars, replayVars
  <2>2. ASSUME NEW h \in Handlers, (\E m \in inbound : Accept(h, m)) \/ Claim(h) \/ Raise(h),
               UNCHANGED <<resultTries, deadResults>>
        PROVE  Moves
    BY <2>1, <2>2, NothingMoves DEF Accept, Claim, Raise
  <2>3. ASSUME NEW m \in inbound, DropUnknown(m) PROVE Moves
    BY <2>3 DEF DropUnknown, DlqInv, MessagesAreOfRuns
  <2>4. ASSUME NEW h \in Handlers, Acknowledge(h) PROVE Moves
    BY <2>1, <2>4 DEF Acknowledge, Ack, DlqInv, AckIsClaimed, Moves
  <2>5. ASSUME NEW h \in Handlers, RaiseThrows(h) \/ InvocationLost(h), NotReturned(msg[h])
        PROVE  Moves
    <3>1. UNCHANGED <<index, claimed>>
      BY <2>5 DEF RaiseThrows, InvocationLost
    <3>2. CASE msg[h] \in inbound /\ DeliveryFails(msg[h])
      BY <1>5, <2>1, <3>1, <3>2
    <3>3. CASE UNCHANGED <<inbound, deadResults>>
      BY <2>1, <3>1, <3>3, NothingMoves
    <3>4. CASE /\ msg[h].via = "http"
               /\ inbound' = inbound \ {msg[h]}
               /\ UNCHANGED <<resultTries, deadResults>>
      BY <2>1, <3>1, <3>4 DEF Moves
    <3> QED
      BY <2>5, <3>2, <3>3, <3>4 DEF NotReturned, Undelivered
  <2> QED
    BY <1>7, <2>2, <2>3, <2>4, <2>5 DEF IntakeStep
<1>8. ASSUME NEW k \in Kinds, ReplayStep(k) PROVE Moves
  <2>1. CASE ReceiveDead(k)
    <3>1. UNCHANGED <<index, claimed, inbound, runQueue, discarded>>
      BY <2>1 DEF ReceiveDead, vars
    <3>2. Pool' = Pool /\ RunPool' = RunPool
      <4>1. CASE k = "runs"
        BY <1>t, <2>1, <3>1, <4>1 DEF ReceiveDead, SetDead, Dead, QueueTypes, Kinds
      <4>2. CASE k = "results"
        BY <1>t, <2>1, <3>1, <4>2 DEF ReceiveDead, SetDead, Dead, QueueTypes, Kinds
      <4> QED
        BY <4>1, <4>2 DEF Kinds
    <3> QED
      BY <3>1, <3>2, NothingMoves
  <2>2. ASSUME NEW x \in received[k], DiscardPoison(x), k = "results" PROVE Moves
    BY <2>2, SettleMoves DEF DiscardPoison
  <2>3. ASSUME NEW x \in received[k], SendCopy(k, x) PROVE Moves
    <3>1. UNCHANGED <<index, claimed, deadRuns, deadResults, received, discarded>>
      BY <2>3 DEF SendCopy
    <3>2. CASE k = "runs"
      <4>1. Pool' = Pool /\ RunPool' = RunPool
        BY <2>3, <3>1, <3>2 DEF SendCopy
      <4> QED
        BY <3>1, <4>1, NothingMoves
    <3>3. CASE k = "results"
      <4>1. Pool' = Pool /\ RunPool' = RunPool
        BY <2>3, <3>1, <3>3 DEF SendCopy
      <4> QED
        BY <3>1, <4>1, NothingMoves
    <3> QED
      BY <3>2, <3>3 DEF Kinds
  <2>4. ASSUME NEW x \in received[k], CompleteDead(k, x) PROVE Moves
    BY <2>4, SettleMoves DEF CompleteDead
  <2>5. ASSUME NEW x \in received[k], ReplayFails(k, x) PROVE Moves
    BY <2>5, SettleMoves DEF ReplayFails
  <2> QED
    BY <1>8, <2>1, <2>2, <2>3, <2>4, <2>5 DEF ReplayStep, ReplayMessage
<1>9. CASE BatchStops
  BY <1>9, NothingMoves DEF BatchStops, InstanceEnds, intakeVars, engineVars, replayVars
<1> QED
  BY <1>1, <1>2, <1>3, <1>4, <1>6, <1>7, <1>8, <1>9 DEF DlqNext, EngineStep

\* Moves keeps a run accounted for.
LEMMA StillAccountedFor ==
    ASSUME DlqInv, Moves, NEW r \in Runs, AccountedFor(r)
    PROVE  AccountedFor(r)'
  BY DEF Moves, AccountedFor, ResultsOf, Discarded, Pool

\* Whoever is about to acknowledge found the marker, or made it.
LEMMA AckStaysClaimed ==
    ASSUME DlqInv, DlqNext
    PROVE  AckIsClaimed'
<1> USE DEF AckIsClaimed
<1>t. TypeOK /\ RaiserHasClaimed /\ AckIsClaimed
  BY DEF DlqInv, Inv
<1>1. CASE UNCHANGED <<step, msg>>
  BY <1>1, <1>t, EveryStepMoves DEF Moves
<1>2. ASSUME NEW h \in Handlers, NEW m \in inbound, Accept(h, m) PROVE AckIsClaimed'
  BY <1>2, <1>t DEF Accept, TypeOK
<1>3. ASSUME NEW h \in Handlers, Claim(h) PROVE AckIsClaimed'
  BY <1>3, <1>t DEF Claim, TypeOK
<1>4. ASSUME NEW h \in Handlers, Raise(h) PROVE AckIsClaimed'
  BY <1>4, <1>t DEF Raise, TypeOK, RaiserHasClaimed
<1>5. ASSUME NEW h \in Handlers, Release(h), UNCHANGED claimed PROVE AckIsClaimed'
  BY <1>5, <1>t DEF Release, TypeOK
<1>6. CASE IntakeStep
  BY <1>1, <1>2, <1>3, <1>4, <1>5, <1>6
     DEF IntakeStep, DropUnknown, Acknowledge, Ack, RaiseThrows, InvocationLost, intakeVars
<1>7. ASSUME NEW k \in Kinds, ReplayStep(k) PROVE UNCHANGED <<step, msg>>
  BY <1>7 DEF ReplayStep, ReplayMessage, ReceiveDead, DiscardPoison, SendCopy, CompleteDead,
              ReplayFails, Settle, vars
<1>8. ASSUME NEW r \in Runs, DispatchRun(r) \/ EngineStep(r) PROVE UNCHANGED <<step, msg>>
  BY <1>8 DEF DispatchRun, IndexRun, EngineStep, EngineAnswers, EnginePatches, Report,
              EngineReturns, EngineFails, intakeVars, vars
<1> QED
  BY <1>1, <1>6, <1>7, <1>8 DEF DlqNext, RejectResult, BatchStops, InstanceEnds, intakeVars

\* An execution that is about to return has sent a result.
LEMMA AnsweredStaysAccountedFor ==
    ASSUME DlqInv, DlqNext
    PROVE  AnsweredIsAccountedFor'
<1>m. Moves
  BY EveryStepMoves
<1>t. answered \subseteq runQueue /\ runQueue \subseteq Runs
  BY DEF DlqInv, QueueTypes
<1>1. CASE answered' \subseteq answered
  BY <1>1, <1>m, <1>t, StillAccountedFor DEF AnsweredIsAccountedFor, DlqInv
<1>2. ASSUME NEW r \in Runs, EngineAnswers(r) PROVE AnsweredIsAccountedFor'
  <2>1. AccountedFor(r)'
    <3>1. PICK s \in Statuses, f \in Forms :
              Report([run |-> r, status |-> s, via |-> "sb", form |-> f])
      BY <1>2 DEF EngineAnswers
    <3>2. [run |-> r, status |-> s, via |-> "sb", form |-> f] \in ResultsOf(r)'
      BY <3>1 DEF Report, ResultsOf
    <3> QED
      BY <3>2 DEF AccountedFor
  <2>2. answered' = answered \cup {r}
    BY <1>2 DEF EngineAnswers
  <2> QED
    BY <1>m, <1>t, <2>1, <2>2, StillAccountedFor DEF AnsweredIsAccountedFor, DlqInv
<1>3. ASSUME NEW k \in Kinds, ReplayStep(k) PROVE UNCHANGED answered
  BY <1>3 DEF ReplayStep, ReplayMessage, ReceiveDead, DiscardPoison, SendCopy, CompleteDead,
              ReplayFails, Settle
<1> QED
  BY <1>1, <1>2, <1>3
     DEF DlqNext, DispatchRun, EngineStep, EnginePatches, EngineReturns, EngineFails,
         IntakeStep, OthersOfIntake, RejectResult, BatchStops, engineVars

\* The original of a copy stays superfluous until it is completed.
LEMMA CopyStaysTraced ==
    ASSUME DlqInv, DlqNext
    PROVE  CopyIsTraced'
<1>m. Moves
  BY EveryStepMoves
<1>t. QueueTypes /\ CopyIsTraced /\ MessagesAreOfRuns /\ AckIsClaimed
  BY DEF DlqInv
<1>r. ASSUME NEW r \in Runs, AccountedFor(r) PROVE AccountedFor(r)'
  BY <1>m, <1>r, StillAccountedFor
<1>1. ASSUME UNCHANGED copied,
             \A m \in copied["results"] :
                 m \in inbound \cup deadResults =>
                     \/ m \in inbound' \cup deadResults'
                     \/ m.via = "http" \/ m.run \in claimed',
             \A r \in copied["runs"] :
                 r \in runQueue \cup deadRuns =>
                     r \in runQueue' \cup deadRuns' \/ AccountedFor(r)
      PROVE  CopyIsTraced'
  BY <1>1, <1>m, <1>r, <1>t DEF CopyIsTraced, Moves, QueueTypes, Kinds
<1>2. ASSUME UNCHANGED copied, inbound \cup deadResults \subseteq inbound' \cup deadResults',
             runQueue \cup deadRuns \subseteq runQueue' \cup deadRuns'
      PROVE  CopyIsTraced'
  BY <1>1, <1>2
<1>3. ASSUME NEW r \in Runs, DispatchRun(r) \/ EngineAnswers(r) \/ EnginePatches(r) \/ EngineFails(r)
      PROVE  CopyIsTraced'
  BY <1>2, <1>3 DEF DispatchRun, IndexRun, EngineAnswers, EnginePatches, EngineFails, Report,
                    vars, engineVars, replayVars
<1>4. ASSUME NEW r \in Runs, EngineReturns(r) PROVE CopyIsTraced'
  <2>1. AccountedFor(r)
    BY <1>4 DEF EngineReturns, DlqInv, AnsweredIsAccountedFor
  <2> QED
    BY <1>1, <1>4, <2>1 DEF EngineReturns, vars, replayVars
<1>5. ASSUME IntakeStep PROVE CopyIsTraced'
  <2>1. UNCHANGED <<runQueue, deadRuns, received, copied>>
    BY <1>5 DEF IntakeStep, OthersOfIntake, engineVars, replayVars
  <2>2. \A m \in copied["results"] : m.run \in index
    BY <1>t DEF QueueTypes, MessagesAreOfRuns, Kinds
  <2>3. ASSUME NEW m \in inbound, DeliveryFails(m) PROVE CopyIsTraced'
    BY <1>2, <2>1, <2>3 DEF DeliveryFails
  <2>4. ASSUME NEW m \in inbound,
               m.run \notin index \/ m.run \in claimed \/ m.via = "http",
               inbound' = inbound \ {m}, UNCHANGED deadResults
        PROVE  CopyIsTraced'
    BY <1>1, <1>m, <2>1, <2>2, <2>4 DEF Moves
  <2>5. CASE UNCHANGED <<inbound, deadResults>>
    BY <1>2, <2>1, <2>5
  <2>6. ASSUME NEW h \in Handlers, Acknowledge(h) PROVE CopyIsTraced'
    <3>1. msg[h].run \in claimed /\ inbound' = inbound \ {msg[h]} /\ UNCHANGED deadResults
      BY <1>t, <2>6 DEF Acknowledge, Ack, AckIsClaimed
    <3> QED
      BY <2>4, <2>5, <3>1
  <2>7. ASSUME NEW h \in Handlers, NotReturned(msg[h]) PROVE CopyIsTraced'
    BY <2>3, <2>4, <2>5, <2>7 DEF NotReturned, Undelivered
  <2>8. ASSUME NEW h \in Handlers, (\E m \in inbound : Accept(h, m)) \/ Claim(h) \/ Raise(h),
               UNCHANGED <<resultTries, deadResults>>
        PROVE  CopyIsTraced'
    BY <2>5, <2>8 DEF Accept, Claim, Raise
  <2>9. ASSUME NEW m \in inbound, DropUnknown(m), UNCHANGED <<resultTries, deadResults>>
        PROVE  CopyIsTraced'
    BY <2>4, <2>9 DEF DropUnknown
  <2> QED
    BY <1>5, <2>6, <2>7, <2>8, <2>9 DEF IntakeStep
<1>6. ASSUME NEW m \in inbound, RejectResult(m) PROVE CopyIsTraced'
  BY <1>2, <1>6 DEF RejectResult, DeliveryFails, engineVars, replayVars
<1>7. ASSUME NEW k \in Kinds, ReceiveDead(k) PROVE CopyIsTraced'
  <2>1. copied[k] = {} /\ UNCHANGED <<copied, inbound, runQueue>>
    BY <1>7, <1>t DEF ReceiveDead, QueueTypes, vars
  <2>2. CASE k = "runs"
    BY <1>1, <1>7, <2>1, <2>2 DEF ReceiveDead, SetDead
  <2>3. CASE k = "results"
    BY <1>1, <1>7, <2>1, <2>3 DEF ReceiveDead, SetDead
  <2> QED
    BY <2>2, <2>3 DEF Kinds
<1>8. ASSUME NEW k \in Kinds, NEW xs, NEW back, Settle(k, xs, back) PROVE CopyIsTraced'
  <2>1. /\ copied'[k] = {}
        /\ \A j \in Kinds \ {k} : copied'[j] = copied[j]
        /\ UNCHANGED <<inbound, claimed, runQueue>>
    BY <1>8, <1>t DEF Settle, QueueTypes, vars
  <2>2. deadRuns \subseteq deadRuns' /\ deadResults \subseteq deadResults'
    BY <1>8 DEF Settle, SetDead, Dead, Kinds
  <2> QED
    BY <1>r, <1>t, <2>1, <2>2 DEF CopyIsTraced, QueueTypes, Kinds
<1>9. ASSUME NEW k \in Kinds, NEW x \in received[k], SendCopy(k, x) PROVE CopyIsTraced'
  <2>1. /\ copied' = [copied EXCEPT ![k] = {x}]
        /\ UNCHANGED <<claimed, deadRuns, deadResults>>
    BY <1>9 DEF SendCopy
  <2>2. /\ inbound \subseteq inbound' /\ runQueue \subseteq runQueue'
        /\ k = "runs" => x \in runQueue'
        /\ k = "results" => x \in inbound'
    BY <1>9 DEF SendCopy, Kinds
  <2> QED
    BY <1>r, <1>t, <2>1, <2>2 DEF CopyIsTraced, QueueTypes, Kinds
<1>10. ASSUME NEW k \in Kinds, ReplayStep(k) PROVE CopyIsTraced'
  BY <1>7, <1>8, <1>9, <1>10
     DEF ReplayStep, ReplayMessage, DiscardPoison, CompleteDead, ReplayFails
<1>11. CASE BatchStops
  BY <1>2, <1>11 DEF BatchStops, InstanceEnds, engineVars, replayVars
<1> QED
  BY <1>3, <1>4, <1>5, <1>6, <1>10, <1>11 DEF DlqNext, EngineStep

\* Every step preserves the invariant, part by part.
LEMMA DlqInvIsInductive == DlqInv /\ [DlqNext]_dlqVars => DlqInv'
<1>1. ASSUME DlqInv, DlqNext PROVE DlqInv'
  <2>m. Moves
    BY <1>1, EveryStepMoves
  <2>1. Inv' /\ QueueTypes'
    BY <1>1, DlqTypesAreInductive DEF DlqInv
  <2>2. AckIsClaimed' /\ AnsweredIsAccountedFor' /\ CopyIsTraced'
    BY <1>1, AckStaysClaimed, AnsweredStaysAccountedFor, CopyStaysTraced
  <2>3. MessagesAreOfRuns'
    BY <1>1, <2>m DEF DlqInv, MessagesAreOfRuns, Moves, Pool, RunPool
  <2>4. NoRunIsLost'
    <3>1. SUFFICES ASSUME NEW r \in index' PROVE Traced(r)' \/ Discarded(r)'
      BY DEF NoRunIsLost
    <3>2. r \in Runs
      BY <2>1 DEF Inv, TypeOK
    <3>3. CASE r \in RunPool'
      BY <3>3 DEF Traced, RunPool
    <3>4. CASE AccountedFor(r)
      BY <1>1, <2>m, <3>2, <3>4, StillAccountedFor DEF AccountedFor, Traced
    <3>5. r \in index => r \in RunPool \/ AccountedFor(r)
      BY <1>1 DEF DlqInv, NoRunIsLost, Traced, RunPool, AccountedFor
    <3> QED
      BY <2>m, <3>3, <3>4, <3>5 DEF Moves
  <2> QED
    BY <2>1, <2>2, <2>3, <2>4 DEF DlqInv
<1>2. ASSUME DlqInv, UNCHANGED dlqVars PROVE DlqInv'
  BY <1>2 DEF dlqVars, vars, engineVars, replayVars, DlqInv, Inv, TypeOK, QueueTypes,
              BusyHoldsResult, RaiserHasClaimed, EventIsClaimed, ClaimIsExclusive,
              EventRaisedOnce, MessagesAreOfRuns, AckIsClaimed, AnsweredIsAccountedFor,
              CopyIsTraced, NoRunIsLost, Traced, Discarded, ResultsOf, AccountedFor
<1> QED
  BY <1>1, <1>2

\* The invariant holds of every execution of queues, intake and replay.
THEOREM DlqInvariant == DlqSpec => []DlqInv
<1>1. DlqInit => DlqInv
  <2> SUFFICES ASSUME DlqInit PROVE DlqInv
    OBVIOUS
  <2>1. Inv
    BY NoMsgAssumption, CrashAssumption
       DEF DlqInit, Init, Inv, TypeOK, Steps, BusyHoldsResult, RaiserHasClaimed, EventIsClaimed,
           ClaimIsExclusive, EventRaisedOnce
  <2>2. QueueTypes
    BY DeliveriesAssumption, FaultsAssumption DEF DlqInit, QueueTypes, Nobody, Kinds
  <2> QED
    BY <2>1, <2>2 DEF DlqInit, Init, DlqInv, MessagesAreOfRuns, AckIsClaimed,
          AnsweredIsAccountedFor, CopyIsTraced, NoRunIsLost, Nobody, Kinds
<1> QED
  BY <1>1, DlqInvIsInductive, PTL DEF DlqSpec

\* Types of intake and of the queues.
THEOREM DlqTypeOKHolds == DlqSpec => []DlqTypeOK
<1>1. DlqInv => DlqTypeOK
  BY DEF DlqInv, Inv, DlqTypeOK
<1> QED
  BY <1>1, DlqInvariant, PTL

\* One event per run, also when run messages and results are dead-lettered and
\* replayed any number of times.
THEOREM ReplayRaisesNothingTwice == DlqSpec => []EventRaisedOnce
<1>1. DlqInv => EventRaisedOnce
  BY DEF DlqInv, Inv
<1> QED
  BY <1>1, DlqInvariant, PTL

\* The marker stays a lock when results are replayed.
THEOREM ReplayKeepsClaimExclusive == DlqSpec => []ClaimIsExclusive
<1>1. DlqInv => ClaimIsExclusive
  BY DEF DlqInv, Inv
<1> QED
  BY <1>1, DlqInvariant, PTL

\* send_messages before complete_message: no failure, and no cut in a replay,
\* makes a dispatched run disappear, unless the poison check discards a result.
THEOREM NoRunIsLostHolds == DlqSpec => []NoRunIsLost
<1>1. DlqInv => NoRunIsLost
  BY DEF DlqInv
<1> QED
  BY <1>1, DlqInvariant, PTL
=============================================================================
