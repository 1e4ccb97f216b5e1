------------------------ MODULE ResultIntake_proofs ------------------------
(***************************************************************************)
(* Proofs about result intake, for every set of runs, statuses and         *)
(* concurrent invocations and every number of lost invocations.            *)
(***************************************************************************)
EXTENDS ResultIntake, TLAPS

\* The types, with the fact that lets Claim and Raise read a run off the message.
Typed == TypeOK /\ BusyHoldsResult

\* Every action keeps the variables in their types, and an invocation at work
\* holds a result.
LEMMA TypedIsInductive == Typed /\ [Next]_vars => Typed'
<1> SUFFICES ASSUME Typed, [Next]_vars PROVE Typed'
  OBVIOUS
<1> USE NoMsgAssumption, CrashAssumption
<1> USE DEF Typed, TypeOK, BusyHoldsResult, Steps, intakeVars
<1>1. ASSUME NEW r \in Runs, IndexRun(r) PROVE Typed'
  BY <1>1 DEF IndexRun
<1>2. ASSUME NEW m \in Msgs, Report(m) PROVE Typed'
  BY <1>2 DEF Report
<1>3. CASE InstanceEnds
  BY <1>3 DEF InstanceEnds
<1>4. ASSUME NEW m \in inbound, DropUnknown(m) PROVE Typed'
  BY <1>4 DEF DropUnknown
<1>5. ASSUME NEW h \in Handlers, NEW m \in inbound, Accept(h, m) PROVE Typed'
  BY <1>5 DEF Accept
<1>6. ASSUME NEW h \in Handlers, Claim(h) PROVE Typed'
  BY <1>6 DEF Claim, Msgs
<1>7. ASSUME NEW h \in Handlers, Raise(h) PROVE Typed'
  BY <1>7 DEF Raise, Msgs
<1>8. ASSUME NEW h \in Handlers, RaiseFails(h) PROVE Typed'
  BY <1>8 DEF RaiseFails, RaiseThrows, Undelivered, Release
<1>9. ASSUME NEW h \in Handlers, Ack(h) PROVE Typed'
  BY <1>9 DEF Ack, Release
<1>10. ASSUME NEW h \in Handlers, Crash(h) PROVE Typed'
  BY <1>10 DEF Crash, InvocationLost, Undelivered, Release
<1>11. CASE UNCHANGED vars
  BY <1>11 DEF vars
<1> QED
  BY <1>1, <1>2, <1>3, <1>4, <1>5, <1>6, <1>7, <1>8, <1>9, <1>10, <1>11
     DEF Next, Environment, HandlerStep

\* The whole invariant is kept by every action.  The three actions that matter
\* are Claim, which takes the lock, Raise, which uses it, and the ones that give
\* an invocation up, which never return it.
LEMMA InvIsInductive == Inv /\ [Next]_vars => Inv'
<1> SUFFICES ASSUME Inv, [Next]_vars PROVE Inv'
  OBVIOUS
<1>0. TypeOK' /\ BusyHoldsResult'
  BY TypedIsInductive DEF Typed, Inv
<1> USE DEF RaiserHasClaimed, EventIsClaimed, ClaimIsExclusive, EventRaisedOnce
<1> DEFINE Rest == RaiserHasClaimed /\ EventIsClaimed /\ ClaimIsExclusive /\ EventRaisedOnce
<1>1. CASE UNCHANGED <<step, msg, claimed, raised>>
  BY <1>0, <1>1 DEF Inv
<1>2. ASSUME NEW h \in Handlers, NEW m \in inbound, Accept(h, m) PROVE Rest'
  BY <1>2 DEF Accept, Inv, TypeOK, Steps
<1>3. ASSUME NEW h \in Handlers, Claim(h) PROVE Rest'
  <2>1. CASE msg[h].run \notin claimed
    BY <1>3, <2>1 DEF Claim, Inv, TypeOK, BusyHoldsResult, Msgs, Steps
  <2>2. CASE msg[h].run \in claimed
    BY <1>3, <2>2 DEF Claim, Inv, TypeOK, Steps
  <2> QED
    BY <2>1, <2>2
<1>4. ASSUME NEW h \in Handlers, Raise(h) PROVE Rest'
  <2>1. msg[h].run \in Runs /\ msg[h].status \in Statuses
    BY <1>4 DEF Raise, Inv, BusyHoldsResult, Msgs
  <2>2. /\ raised[msg[h].run] = <<>>
        /\ raised' = [raised EXCEPT ![msg[h].run] = Append(<<>>, msg[h].status)]
    BY <1>4 DEF Raise, Inv
  <2>3. Len(raised'[msg[h].run]) = 1
    BY <2>1, <2>2 DEF Inv, TypeOK
  <2>4. /\ step' = [step EXCEPT ![h] = "ack"]
        /\ step[h] = "raise"
        /\ UNCHANGED <<msg, claimed>>
    BY <1>4 DEF Raise
  <2>5. RaiserHasClaimed' /\ EventIsClaimed'
    BY <2>1, <2>2, <2>4 DEF Inv, TypeOK
  <2>6. ClaimIsExclusive'
    BY <2>1, <2>2, <2>4 DEF Inv, TypeOK
  <2>7. EventRaisedOnce'
    BY <2>1, <2>2, <2>3 DEF Inv, TypeOK
  <2> QED
    BY <2>5, <2>6, <2>7
<1>5. ASSUME NEW h \in Handlers, Release(h), UNCHANGED <<claimed, raised>> PROVE Rest'
  BY <1>5 DEF Release, Inv, TypeOK, Steps
<1>6. ASSUME Rest' PROVE Inv'
  BY <1>0, <1>6 DEF Inv
<1> QED
  BY <1>1, <1>2, <1>3, <1>4, <1>5, <1>6
     DEF Next, Environment, HandlerStep, IndexRun, Report, InstanceEnds,
         DropUnknown, RaiseFails, RaiseThrows, Ack, Crash, InvocationLost, vars, intakeVars

\* The invariant holds of every execution of result intake.
THEOREM IntakeInvariant == Spec => []Inv
<1>1. Init => Inv
  BY NoMsgAssumption, CrashAssumption
     DEF Init, Inv, TypeOK, Steps, BusyHoldsResult, RaiserHasClaimed, EventIsClaimed,
         ClaimIsExclusive, EventRaisedOnce
<1> QED
  BY <1>1, InvIsInductive, PTL DEF Spec

\* Type correctness of result intake.
THEOREM IntakeTypeOK == Spec => []TypeOK
<1>1. Inv => TypeOK
  BY DEF Inv
<1> QED
  BY <1>1, IntakeInvariant, PTL

\* _claim_result_delivery makes at-least-once delivery over two channels raise
\* at most one event per run, whatever is repeated, contradicted or lost.
THEOREM EventRaisedOnceHolds == Spec => []EventRaisedOnce
<1>1. Inv => EventRaisedOnce
  BY DEF Inv
<1> QED
  BY <1>1, IntakeInvariant, PTL

\* Only one invocation at a time is past the marker of a run.
THEOREM ClaimIsExclusiveHolds == Spec => []ClaimIsExclusive
<1>1. Inv => ClaimIsExclusive
  BY DEF Inv
<1> QED
  BY <1>1, IntakeInvariant, PTL
=============================================================================
