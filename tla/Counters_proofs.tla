--------------------------- MODULE Counters_proofs ---------------------------
(***************************************************************************)
(* The counters of the progress document are those of the results taken,   *)
(* for every list of CVs that names each application once.                 *)
(***************************************************************************)
EXTENDS BatchOrchestrator_proofs

-----------------------------------------------------------------------------
(* With distinct applications a run id has one entry and one wait.         *)

\* The entry _find_application_run finds is the one the run id was minted for.
LEMMA EntryOfRun ==
  ASSUME DistinctApps, NEW e \in Entries
  PROVE  /\ FindApplicationRun(RunId(e)) = e
         /\ \A f \in Entries : RunId(f) = RunId(e) => f = e
<1>1. ASSUME NEW f \in Entries, RunId(f) = RunId(e) PROVE f = e
  <2>1. e[1] \in Positions /\ f[1] \in Positions /\ e = <<e[1], e[2]>> /\ f = <<f[1], f[2]>>
    BY DEF Entries
  <2>2. CvApps[f[1]] = CvApps[e[1]] /\ f[2] = e[2]
    BY <1>1 DEF RunId
  <2>3. f[1] = e[1]
    BY <2>1, <2>2 DEF DistinctApps
  <2> QED
    BY <2>1, <2>2, <2>3
<1>2. e[1] <= e[1]
  <2>1. e[1] \in Int
    BY CvsAssumption DEF Entries, Positions
  <2> QED
    BY <2>1
<1>3. RunId(e) = RunId(e) /\ \A f \in Entries : RunId(f) = RunId(e) => e[1] <= f[1]
  BY <1>1, <1>2
<1>4. \A f \in Entries :
         RunId(f) = RunId(e) /\ (\A g \in Entries : RunId(g) = RunId(e) => f[1] <= g[1]) => f = e
  BY <1>1
<1> QED
  BY <1>1, <1>3, <1>4 DEF FindApplicationRun

\* The sizes of the smallest sets.
LEMMA SmallSets == Cardinality({}) = 0 /\ \A x : Cardinality({x}) = 1
<1>1. Cardinality({}) = 0
  BY FS_EmptySet
<1>2. \A x : Cardinality({x}) = 1
  BY FS_Singleton
<1> QED
  BY <1>1, <1>2

\* Hence one result is taken of it.
LEMMA OneWait == ASSUME DistinctApps, NEW r \in Runs PROVE Waits(r) = 1
<1>1. PICK e \in Entries : r = RunId(e)
  BY DEF Runs
<1>2. {f \in Entries : RunId(f) = r} = {e}
  BY <1>1, EntryOfRun
<1> QED
  BY <1>2, SmallSets DEF Waits

\* Adding a new element to a set of which a count is the size.
LEMMA CountOneMore ==
  ASSUME NEW S, NEW T, NEW x, IsFiniteSet(S), x \notin S, T = S \cup {x}
  PROVE  Cardinality(T) = Cardinality(S) + 1
BY FS_AddElement

\* A batch has finitely many runs.
LEMMA RunsFinite == IsFiniteSet(Runs) /\ IsFiniteSet(RunIdx)
<1> DEFINE ids == [e \in Entries |-> RunId(e)]
<1>1. ids \in Surjection(Entries, Runs)
  BY DEF Surjection, Runs
<1>2. IsFiniteSet(RunIdx)
  <2>1. 0 \in Int /\ RunCount - 1 \in Int
    BY RunCountAssumption
  <2> QED
    BY <2>1, FS_Interval DEF RunIdx
<1> QED
  BY <1>1, <1>2, EntriesFinite, FS_Surjection

-----------------------------------------------------------------------------
(* What one announcement and one result do to the counters.                *)

\* Which applications are completed is a matter of the runs alone.
LEMMA CompletedIdsOfRuns ==
  ASSUME NEW p, NEW q, p.run = q.run
  PROVE  CompletedIds(p) = CompletedIds(q)
BY DEF CompletedIds, IsApplicationTerminal

\* A result leaves every application alone but its own, which had not completed.
LEMMA OtherApplicationsKept ==
  ASSUME NEW p \in ProgressDoc, NEW q \in ProgressDoc, NEW e \in Entries, NEW s,
         q.run = [p.run EXCEPT ![e] = s], ~IsTerminalRunStatus(p.run[e])
  PROVE  /\ ~IsApplicationTerminal(p, e[1])
         /\ \A d \in Positions \ {e[1]} :
                IsApplicationTerminal(q, d) <=> IsApplicationTerminal(p, d)
<1>1. e[1] \in Positions /\ e[2] \in RunIdx /\ e = <<e[1], e[2]>>
  BY DEF Entries
<1>2. ~IsApplicationTerminal(p, e[1])
  BY <1>1 DEF IsApplicationTerminal
<1>3. ASSUME NEW d \in Positions \ {e[1]}
      PROVE  IsApplicationTerminal(q, d) <=> IsApplicationTerminal(p, d)
  <2>1. \A i \in RunIdx : q.run[<<d, i>>] = p.run[<<d, i>>]
    <3> TAKE i \in RunIdx
    <3>1. <<d, i>> \in Entries /\ <<d, i>> # e
      BY <1>1 DEF Entries
    <3> QED
      BY <3>1 DEF ProgressDoc
  <2> QED
    BY <2>1 DEF IsApplicationTerminal
<1> QED
  BY <1>2, <1>3

\* An application completed before a result is completed after it, and of the
\* others only the result's own may become so.
LEMMA CompletedIdsGrow ==
  ASSUME NEW p \in ProgressDoc, NEW q \in ProgressDoc, NEW e \in Entries, NEW s,
         q.run = [p.run EXCEPT ![e] = s], ~IsTerminalRunStatus(p.run[e])
  PROVE  /\ CompletedIds(p) \subseteq CompletedIds(q)
         /\ CompletedIds(q) \subseteq CompletedIds(p) \cup {CvApps[e[1]]}
         /\ ~IsApplicationTerminal(q, e[1]) => CompletedIds(q) = CompletedIds(p)
BY OtherApplicationsKept DEF CompletedIds

\* A result counts once, everywhere it has to.
LEMMA ResultCounts ==
  ASSUME NEW p \in ProgressDoc, NEW e \in Entries, NEW s \in Statuses, DistinctApps,
         ~IsTerminalRunStatus(p.run[e]), p.cvsCompleted = Cardinality(CompletedIds(p))
  PROVE  LET q == RecordRunResult(p, RunId(e), s)
         IN  /\ q.run = [p.run EXCEPT ![e] = s]
             /\ q.runsDispatched = p.runsDispatched
             /\ q.runsCompleted = p.runsCompleted + 1
             /\ q.appRunsCompleted = [p.appRunsCompleted EXCEPT ![e[1]] = @ + 1]
             /\ q.cvsCompleted = Cardinality(CompletedIds(q))
<1> DEFINE c == e[1]
           run == [p.run EXCEPT ![e] = s]
           q == RecordRunResult(p, RunId(e), s)
           summary == SummarizeApplicationStatus({run[<<c, i>>] : i \in RunIdx})
           m == [p EXCEPT !.run = run,
                          !.runsCompleted = @ + 1,
                          !.appRunsCompleted[c] = @ + 1,
                          !.app[c] = summary,
                          !.status = "running"]
           n == Cardinality(CompletedIds(m))
<1>1. q = IF IsApplicationTerminal(m, c) THEN [m EXCEPT !.cvsCompleted = n] ELSE m
  <2>1. FindApplicationRun(RunId(e)) = e
    BY EntryOfRun
  <2> QED
    BY <2>1 DEF RecordRunResult, ProgressDoc
<1> HIDE DEF q
<1>2. /\ m.run = run
      /\ m.runsDispatched = p.runsDispatched
      /\ m.runsCompleted = p.runsCompleted + 1
      /\ m.appRunsCompleted = [p.appRunsCompleted EXCEPT ![c] = @ + 1]
      /\ m.cvsCompleted = p.cvsCompleted
  <2> HIDE DEF summary, run
  <2> QED
    BY DEF ProgressDoc
<1>3. /\ q.run = m.run
      /\ q.runsDispatched = m.runsDispatched
      /\ q.runsCompleted = m.runsCompleted
      /\ q.appRunsCompleted = m.appRunsCompleted
      /\ IF IsApplicationTerminal(m, c) THEN q.cvsCompleted = n
         ELSE q.cvsCompleted = m.cvsCompleted
  <2>0. DOMAIN m = DOMAIN p /\ "cvsCompleted" \in DOMAIN p
    BY DEF ProgressDoc
  <2> HIDE DEF m, n
  <2> QED
    BY <1>1, <2>0
<1>4. q \in ProgressDoc
  BY RecordRunResultType DEF q
<1>5. q.cvsCompleted = Cardinality(CompletedIds(q))
  <2>1. CompletedIds(q) = CompletedIds(m)
    <3> HIDE DEF m
    <3> QED
      BY <1>3, CompletedIdsOfRuns
  <2>2. CASE IsApplicationTerminal(m, c)
    BY <1>3, <2>1, <2>2
  <2>3. CASE ~IsApplicationTerminal(m, c)
    <3>1. ~IsApplicationTerminal(q, c)
      <4> HIDE DEF m
      <4> QED
        BY <1>3, <2>3 DEF IsApplicationTerminal
    <3>2. CompletedIds(q) = CompletedIds(p)
      <4>1. q.run = [p.run EXCEPT ![e] = s]
        BY <1>2, <1>3
      <4> HIDE DEF m
      <4> QED
        BY <1>4, <3>1, <4>1, CompletedIdsGrow
    <3>3. q.cvsCompleted = p.cvsCompleted
      <4> HIDE DEF m
      <4> QED
        BY <1>2, <1>3, <2>3
    <3> QED
      BY <3>2, <3>3
  <2> QED
    BY <2>2, <2>3
<1>6. /\ q.run = run /\ q.runsDispatched = p.runsDispatched
      /\ q.runsCompleted = p.runsCompleted + 1
      /\ q.appRunsCompleted = [p.appRunsCompleted EXCEPT ![c] = @ + 1]
  <2> HIDE DEF m
  <2> QED
    BY <1>2, <1>3
<1> QED
  BY <1>5, <1>6 DEF q

\* An announcement counts once.
LEMMA DispatchCounts ==
  ASSUME NEW p \in ProgressDoc, NEW e \in Entries, DistinctApps, p.run[e] = "queued"
  PROVE  LET q == RecordDispatchedRun(p, RunId(e))
         IN  /\ q.run = [p.run EXCEPT ![e] = "dispatched"]
             /\ q.runsDispatched = p.runsDispatched + 1
             /\ q.runsCompleted = p.runsCompleted
             /\ q.appRunsCompleted = p.appRunsCompleted
             /\ q.cvsCompleted = p.cvsCompleted
<1>1. FindApplicationRun(RunId(e)) = e
  BY EntryOfRun
<1> QED
  BY <1>1 DEF RecordDispatchedRun, ProgressDoc

\* Nothing is completed while no run is terminal.
LEMMA NoneCompleted ==
  ASSUME NEW p, \A e \in Entries : ~IsTerminalRunStatus(p.run[e])
  PROVE  CompletedIds(p) = {}
<1>1. 0 \in RunIdx
  BY RunCountAssumption DEF RunIdx
<1>2. \A c \in Positions : ~IsApplicationTerminal(p, c)
  BY <1>1 DEF IsApplicationTerminal, Entries
<1> QED
  BY <1>2 DEF CompletedIds

\* Distinct applications: as many completed ids as completed positions.
LEMMA CompletedIdsCount ==
  ASSUME DistinctApps, NEW p
  PROVE  /\ IsFiniteSet(CompletedIds(p))
         /\ Cardinality(CompletedIds(p))
              = Cardinality({c \in Positions : IsApplicationTerminal(p, c)})
         /\ \A c \in Positions : CvApps[c] \in CompletedIds(p) <=> IsApplicationTerminal(p, c)
<1> DEFINE S == {d \in Positions : IsApplicationTerminal(p, d)}
           ids == [c \in S |-> CvApps[c]]
<1>1. IsFiniteSet(S)
  BY EntriesFinite, FS_Subset
<1>2. ids \in Bijection(S, CompletedIds(p))
  <2>1. ids \in [S -> CompletedIds(p)]
    BY DEF CompletedIds
  <2>2. \A c, d \in S : ids[c] = ids[d] => c = d
    BY DEF DistinctApps
  <2>3. \A a \in CompletedIds(p) : \E c \in S : ids[c] = a
    BY DEF CompletedIds
  <2> HIDE DEF ids, S
  <2>4. ids \in Injection(S, CompletedIds(p)) /\ ids \in Surjection(S, CompletedIds(p))
    BY <2>1, <2>2, <2>3 DEF Injection, Surjection, IsInjective
  <2> QED
    BY <2>4 DEF Bijection
<1>3. Cardinality(S) = Cardinality(CompletedIds(p)) /\ IsFiniteSet(CompletedIds(p))
  BY <1>1, <1>2, FS_Bijection DEF ExistsBijection
<1>4. \A c \in Positions : CvApps[c] \in CompletedIds(p) <=> IsApplicationTerminal(p, c)
  BY DEF CompletedIds, DistinctApps
<1> QED
  BY <1>3, <1>4

-----------------------------------------------------------------------------
(* The invariant.                                                          *)

\* A run is terminal only by a result, so its first result is recorded.
FirstResultCounts ==
    \A e \in Entries : collected[RunId(e)] = <<>> => ~IsTerminalRunStatus(progress.run[e])

\* A run is queued until it is announced, so its announcement is counted.
QueuedUntilAnnounced ==
    pc \in {"staging", "dispatching", "announcing"} =>
        \A e \in Entries \ announced : progress.run[e] = "queued"

\* Between results the applications with an event are the completed ones; after a
\* result its own application may be due.
DueIsCurrent ==
    pc \notin Ended =>
        /\ emitted \subseteq CompletedIds(progress)
        /\ CompletedIds(progress) \subseteq
              emitted \cup (IF pc = "runEvent" THEN {current[1]} ELSE {})

\* One number per announcement, result and application, and one for the batch.
Numbered ==
    pc \notin Ended =>
        seq = progress.runsDispatched + progress.runsCompleted + Cardinality(emitted)
                + (IF pc = "batchEvent" THEN 1 ELSE 0)

Counters ==
    /\ progress.runsCompleted = Cardinality({r \in Runs : collected[r] # <<>>})
    /\ progress.runsDispatched = Cardinality(announced)
    /\ progress.cvsCompleted = Cardinality(CompletedIds(progress))
    /\ \A c \in Positions :
           progress.appRunsCompleted[c] =
               Cardinality({i \in RunIdx : collected[<<CvApps[c], i>>] # <<>>})

CInv ==
    /\ FirstResultCounts
    /\ QueuedUntilAnnounced
    /\ DueIsCurrent
    /\ Numbered
    /\ Counters

\* A new instance has taken, announced and numbered nothing.
LEMMA CInvInit == ASSUME Init, DistinctApps PROVE CInv
<1>1. \A e \in Entries : ~IsTerminalRunStatus(progress.run[e])
  BY QueuedIsNotTerminal DEF Init, InitialProgress
<1>2. CompletedIds(progress) = {}
  BY <1>1, NoneCompleted
<1>3. FirstResultCounts /\ QueuedUntilAnnounced /\ DueIsCurrent
  BY <1>1, <1>2 DEF Init, InitialProgress, FirstResultCounts, QueuedUntilAnnounced, DueIsCurrent
<1>4. Numbered
  BY SmallSets DEF Init, InitialProgress, Numbered, Ended
<1>5. {r \in Runs : collected[r] # <<>>} = {}
  BY DEF Init
<1>6. \A c \in Positions : {i \in RunIdx : collected[<<CvApps[c], i>>] # <<>>} = {}
  BY RunsType DEF Init
<1>7. Counters
  BY <1>2, <1>5, <1>6, SmallSets DEF Init, InitialProgress, Counters
<1> QED
  BY <1>3, <1>4, <1>7 DEF CInv

\* An announcement is of a queued run, and counted.
LEMMA AnnounceKeepsCounters ==
  ASSUME OInv, OInv', CInv, DistinctApps, NEW e \in Entries, Announce(e)
  PROVE  CInv'
<1> USE DEF OInv
<1>1. /\ progress \in ProgressDoc /\ pc \in {"dispatching", "announcing"} /\ pc' = "announcing"
      /\ e \notin announced /\ announced' = announced \cup {e} /\ seq' = seq + 1
      /\ progress' = RecordDispatchedRun(progress, RunId(e))
      /\ collected' = collected /\ emitted' = emitted /\ IsFiniteSet(announced)
  BY EntriesFinite, FS_Subset DEF Announce, NextToAnnounce, TypeOK
<1>2. progress.run[e] = "queued"
  BY <1>1 DEF CInv, QueuedUntilAnnounced
<1>3. /\ progress'.run = [progress.run EXCEPT ![e] = "dispatched"]
      /\ progress'.runsDispatched = progress.runsDispatched + 1
      /\ progress'.runsCompleted = progress.runsCompleted
      /\ progress'.appRunsCompleted = progress.appRunsCompleted
      /\ progress'.cvsCompleted = progress.cvsCompleted
  BY <1>1, <1>2, DispatchCounts
<1>4. CompletedIds(progress) = {} /\ CompletedIds(progress)' = {}
  <2>1. \A f \in Entries : ~IsTerminalRunStatus(progress.run[f])
    BY <1>1 DEF NoResultYet
  <2>2. \A f \in Entries : ~IsTerminalRunStatus(progress'.run[f])
    BY <1>1 DEF NoResultYet
  <2>3. CompletedIds(progress') = {}
    BY <2>2, NoneCompleted
  <2> QED
    BY <2>1, <2>3, NoneCompleted
<1>5. FirstResultCounts'
  BY <1>1 DEF NoResultYet, FirstResultCounts
<1>6. QueuedUntilAnnounced'
  BY <1>1, <1>3 DEF CInv, QueuedUntilAnnounced, ProgressDoc
<1>7. DueIsCurrent'
  BY <1>1, <1>4 DEF CInv, DueIsCurrent, Ended
<1>8. Numbered'
  <2>1. emitted = {}
    BY <1>1, <1>4 DEF CInv, DueIsCurrent, Ended
  <2>2. seq = progress.runsDispatched + progress.runsCompleted + Cardinality(emitted)
    <3>1. progress.runsDispatched \in Nat /\ progress.runsCompleted \in Nat
      BY <1>1 DEF ProgressDoc
    <3> QED
      BY <1>1, <2>1, <3>1, SmallSets DEF CInv, Numbered, Ended
  <2>3. progress.runsDispatched \in Nat /\ progress.runsCompleted \in Nat
    BY <1>1 DEF ProgressDoc
  <2> QED
    BY <1>1, <1>3, <2>1, <2>2, <2>3, SmallSets DEF Numbered
<1>9. Counters'
  <2>1. Cardinality(announced') = Cardinality(announced) + 1
    BY <1>1, CountOneMore
  <2> QED
    BY <1>1, <1>3, <1>4, <2>1 DEF CInv, Counters
<1> QED
  BY <1>5, <1>6, <1>7, <1>8, <1>9 DEF CInv

\* A result is the first one of its run, and counted.
LEMMA CollectKeepsCounters ==
  ASSUME OInv, OInv', CInv, DistinctApps, NEW r \in Runs, Collect(r)
  PROVE  CInv'
<1> USE DEF OInv
<1>1. PICK e \in Entries : r = RunId(e)
  BY DEF Runs
<1>2. collected[r] = <<>> /\ collected \in [Runs -> Seq(Statuses)]
  BY OneWait DEF Collect, Pending, TypeOK
<1> DEFINE s == raised[r][Len(collected[r]) + 1]
<1>3. /\ progress \in ProgressDoc /\ progress' \in ProgressDoc
      /\ pc = "collecting" /\ pc' = "runEvent" /\ current' = r
      /\ seq' = seq + 1 /\ emitted' = emitted /\ announced' = announced
      /\ collected' = [collected EXCEPT ![r] = Append(@, s)]
      /\ progress' = RecordRunResult(progress, RunId(e), s)
  BY <1>1 DEF Collect, TypeOK
<1>4. s \in Statuses
  BY DEF Collect, TypeOK
<1> HIDE DEF s
<1>5. /\ ~IsTerminalRunStatus(progress.run[e])
      /\ progress.cvsCompleted = Cardinality(CompletedIds(progress))
  BY <1>1, <1>2 DEF CInv, FirstResultCounts, Counters
<1>6. /\ progress'.run = [progress.run EXCEPT ![e] = s]
      /\ progress'.runsDispatched = progress.runsDispatched
      /\ progress'.runsCompleted = progress.runsCompleted + 1
      /\ progress'.appRunsCompleted = [progress.appRunsCompleted EXCEPT ![e[1]] = @ + 1]
      /\ progress'.cvsCompleted = Cardinality(CompletedIds(progress'))
  BY <1>3, <1>4, <1>5, ResultCounts
<1>7. collected'[r] # <<>> /\ \A q \in Runs \ {r} : collected'[q] = collected[q]
  <2>1. collected'[r] = Append(collected[r], s)
    BY <1>2, <1>3
  <2>2. Append(collected[r], s) # <<>>
    BY <1>2, <1>4
  <2> QED
    BY <1>2, <1>3, <2>1, <2>2
<1>8. \A f \in Entries : RunId(f) \in Runs /\ (f # e => RunId(f) # r)
  BY <1>1, EntryOfRun DEF Runs
<1>9. FirstResultCounts'
  <2> SUFFICES ASSUME NEW f \in Entries, collected'[RunId(f)] = <<>>
               PROVE  ~IsTerminalRunStatus(progress'.run[f])
    BY DEF FirstResultCounts
  <2>1. f # e
    BY <1>1, <1>7
  <2>2. collected[RunId(f)] = <<>>
    BY <1>7, <1>8, <2>1
  <2>3. progress'.run[f] = progress.run[f]
    BY <1>3, <1>6, <2>1 DEF ProgressDoc
  <2> QED
    BY <2>2, <2>3 DEF CInv, FirstResultCounts
<1>10. QueuedUntilAnnounced'
  BY <1>3 DEF QueuedUntilAnnounced
<1>11. DueIsCurrent'
  <2>1. /\ CompletedIds(progress) \subseteq CompletedIds(progress')
        /\ CompletedIds(progress') \subseteq CompletedIds(progress) \cup {CvApps[e[1]]}
    BY <1>3, <1>5, <1>6, CompletedIdsGrow
  <2>2. current'[1] = CvApps[e[1]]
    BY <1>1, <1>3 DEF RunId
  <2>3. emitted = CompletedIds(progress)
    BY <1>3 DEF CInv, DueIsCurrent, Ended
  <2> QED
    BY <1>3, <2>1, <2>2, <2>3 DEF DueIsCurrent
<1>12. Numbered'
  <2>1. /\ progress.runsDispatched \in Nat /\ progress.runsCompleted \in Nat
        /\ Cardinality(emitted) \in Nat
    <3>1. emitted = CompletedIds(progress)
      BY <1>3 DEF CInv, DueIsCurrent, Ended
    <3> QED
      BY <1>3, <3>1, CompletedIdsType DEF ProgressDoc
  <2>2. seq = progress.runsDispatched + progress.runsCompleted + Cardinality(emitted)
    BY <1>3, <2>1 DEF CInv, Numbered, Ended
  <2> QED
    BY <1>3, <1>6, <2>1, <2>2 DEF Numbered
<1>13. Counters'
  <2>1. Cardinality({q \in Runs : collected'[q] # <<>>})
          = Cardinality({q \in Runs : collected[q] # <<>>}) + 1
    <3> DEFINE S == {q \in Runs : collected[q] # <<>>}
               T == {q \in Runs : collected'[q] # <<>>}
    <3>1. r \notin S /\ T = S \cup {r}
      BY <1>2, <1>7
    <3>2. IsFiniteSet(S)
      BY RunsFinite, FS_Subset
    <3> HIDE DEF S, T
    <3>3. Cardinality(T) = Cardinality(S) + 1
      BY <3>1, <3>2, CountOneMore
    <3> QED
      BY <3>3 DEF S, T
  <2>2. ASSUME NEW c \in Positions
        PROVE  progress'.appRunsCompleted[c]
                 = Cardinality({i \in RunIdx : collected'[<<CvApps[c], i>>] # <<>>})
    <3> DEFINE S == {i \in RunIdx : collected[<<CvApps[c], i>>] # <<>>}
               T == {i \in RunIdx : collected'[<<CvApps[c], i>>] # <<>>}
    <3>0. progress.appRunsCompleted[c] = Cardinality(S)
          /\ progress.appRunsCompleted \in [Positions -> Nat]
      BY <1>3 DEF CInv, Counters, ProgressDoc
    <3>1. /\ e[1] \in Positions /\ e[2] \in RunIdx /\ r = <<CvApps[e[1]], e[2]>>
          /\ \A i \in RunIdx : <<CvApps[c], i>> \in Runs
      BY <1>1, RunsType DEF Entries, RunId
    <3>2. CASE c = e[1]
      <4>1. e[2] \notin S /\ T = S \cup {e[2]}
        <5>1. e[2] \notin S
          BY <1>2, <3>1, <3>2
        <5>2. ASSUME NEW i \in RunIdx PROVE i \in T <=> i \in S \/ i = e[2]
          <6>1. CASE i = e[2]
            BY <1>7, <3>1, <3>2, <6>1
          <6>2. CASE i # e[2]
            <7>1. <<CvApps[c], i>> \in Runs \ {r}
              BY <3>1, <6>2
            <7> QED
              BY <1>7, <6>2, <7>1
          <6> QED
            BY <6>1, <6>2
        <5> QED
          BY <3>1, <5>1, <5>2
      <4>2. IsFiniteSet(S)
        BY RunsFinite, FS_Subset
      <4>3. progress'.appRunsCompleted[c] = progress.appRunsCompleted[c] + 1
        BY <1>6, <3>0, <3>1, <3>2
      <4> HIDE DEF S, T
      <4>4. Cardinality(T) = Cardinality(S) + 1
        BY <4>1, <4>2, CountOneMore
      <4>5. progress'.appRunsCompleted[c] = Cardinality(T)
        BY <3>0, <4>3, <4>4
      <4> QED
        BY <4>5 DEF T
    <3>3. CASE c # e[1]
      <4>1. CvApps[c] # CvApps[e[1]]
        BY <3>1, <3>3 DEF DistinctApps
      <4>2. \A i \in RunIdx : <<CvApps[c], i>> \in Runs \ {r}
        BY <3>1, <4>1
      <4>3. T = S
        BY <1>7, <4>2
      <4>4. progress'.appRunsCompleted[c] = progress.appRunsCompleted[c]
        BY <1>6, <3>0, <3>1, <3>3
      <4> QED
        BY <3>0, <4>3, <4>4
    <3> QED
      BY <3>2, <3>3
  <2>3. progress'.runsCompleted = Cardinality({q \in Runs : collected'[q] # <<>>})
    BY <1>6, <2>1 DEF CInv, Counters
  <2>4. progress'.runsDispatched = Cardinality(announced')
    BY <1>3, <1>6 DEF CInv, Counters
  <2>5. CompletedIds(progress)' = CompletedIds(progress')
    BY DEF CompletedIds, IsApplicationTerminal
  <2> QED
    BY <1>6, <2>2, <2>3, <2>4, <2>5 DEF Counters
<1> QED
  BY <1>9, <1>10, <1>11, <1>12, <1>13 DEF CInv

\* The application event is the one that is due.
LEMMA AfterRunEventKeepsCounters ==
  ASSUME OInv, CInv, DistinctApps, AfterRunEvent
  PROVE  CInv'
<1> USE DEF OInv
<1>1. /\ pc = "runEvent" /\ pc' \in {"appEvent", "collecting", "finalizing"}
      /\ UNCHANGED <<collected, announced, progress>>
      /\ progress \in ProgressDoc /\ current \in Runs
  BY DEF AfterRunEvent, ContinueLoop, TypeOK
<1>2. PICK e \in Entries : current = RunId(e)
  BY <1>1 DEF Runs
<1> DEFINE a == current[1]
<1>3. e[1] \in Positions /\ a = CvApps[e[1]]
  BY <1>2 DEF RunId, Entries
<1>4. FindApplication(a) = e[1]
  <2>1. \A c \in Positions : c \in Int
    BY CvsAssumption DEF Positions
  <2>2. e[1] <= e[1]
    BY <1>3, <2>1
  <2>3. \A c \in Positions : CvApps[c] = a <=> c = e[1]
    BY <1>3 DEF DistinctApps
  <2> HIDE DEF a
  <2> QED
    BY <1>3, <2>2, <2>3 DEF FindApplication
<1>5. IsApplicationTerminal(progress, FindApplication(a)) <=> a \in CompletedIds(progress)
  BY <1>3, <1>4, CompletedIdsCount
<1>6. /\ emitted \subseteq CompletedIds(progress)
      /\ CompletedIds(progress) \subseteq emitted \cup {a}
      /\ IsFiniteSet(emitted)
  <2>1. IsFiniteSet(CompletedIds(progress))
    BY CompletedIdsCount
  <2> QED
    BY <1>1, <2>1, FS_Subset DEF CInv, DueIsCurrent, Ended
<1>7. CompletedIds(progress)' = CompletedIds(progress)
  BY <1>1 DEF CompletedIds, IsApplicationTerminal
<1>8. /\ progress.runsDispatched \in Nat /\ progress.runsCompleted \in Nat
      /\ Cardinality(emitted) \in Nat
      /\ seq = progress.runsDispatched + progress.runsCompleted + Cardinality(emitted)
  <2>1. /\ progress.runsDispatched \in Nat /\ progress.runsCompleted \in Nat
        /\ Cardinality(emitted) \in Nat
    BY <1>1, <1>6, FS_CardinalityType DEF ProgressDoc
  <2> QED
    BY <1>1, <2>1 DEF CInv, Numbered, Ended
<1>9. FirstResultCounts' /\ QueuedUntilAnnounced'
  BY <1>1 DEF CInv, FirstResultCounts, QueuedUntilAnnounced
<1>10. Counters'
  BY <1>1, <1>7 DEF CInv, Counters
<1>11. CASE a \in CompletedIds(progress) /\ a \notin emitted
  <2>1. emitted' = emitted \cup {a} /\ seq' = seq + 1
    BY <1>5, <1>11 DEF AfterRunEvent
  <2>2. Cardinality(emitted') = Cardinality(emitted) + 1
    BY <1>6, <1>11, <2>1, CountOneMore
  <2>3. DueIsCurrent'
    BY <1>1, <1>6, <1>7, <1>11, <2>1 DEF DueIsCurrent
  <2>4. Numbered'
    BY <1>1, <1>8, <2>1, <2>2 DEF Numbered
  <2> QED
    BY <1>9, <1>10, <2>3, <2>4 DEF CInv
<1>12. CASE ~(a \in CompletedIds(progress) /\ a \notin emitted)
  <2>1. emitted' = emitted /\ seq' = seq
    BY <1>5, <1>12 DEF AfterRunEvent
  <2>2. emitted = CompletedIds(progress)
    BY <1>6, <1>12
  <2>3. DueIsCurrent'
    BY <1>7, <2>1, <2>2 DEF DueIsCurrent
  <2>4. Numbered'
    BY <1>1, <1>8, <2>1 DEF Numbered
  <2> QED
    BY <1>9, <1>10, <2>3, <2>4 DEF CInv
<1> QED
  BY <1>11, <1>12

\* The batch's own event takes the next number and changes no counter.
LEMMA AfterFinalizeKeepsCounters ==
  ASSUME OInv, CInv, DistinctApps, AfterFinalize
  PROVE  CInv'
<1> USE DEF OInv
<1>1. /\ pc = "finalizing" /\ pc' = "batchEvent" /\ seq' = seq + 1
      /\ UNCHANGED <<collected, announced, emitted, current>>
      /\ progress \in ProgressDoc
  BY DEF AfterFinalize, TypeOK
<1>2. /\ progress'.run = progress.run
      /\ progress'.runsDispatched = progress.runsDispatched
      /\ progress'.runsCompleted = progress.runsCompleted
      /\ progress'.appRunsCompleted = progress.appRunsCompleted
      /\ progress'.cvsCompleted = progress.cvsCompleted
  BY <1>1 DEF AfterFinalize, ProgressDoc
<1>3. CompletedIds(progress)' = CompletedIds(progress)
  BY <1>2 DEF CompletedIds, IsApplicationTerminal
<1>4. FirstResultCounts' /\ QueuedUntilAnnounced' /\ Counters'
  BY <1>1, <1>2, <1>3 DEF CInv, FirstResultCounts, QueuedUntilAnnounced, Counters
<1>5. DueIsCurrent'
  BY <1>1, <1>3 DEF CInv, DueIsCurrent, Ended
<1>6. Numbered'
  <2>1. IsFiniteSet(emitted)
    <3>1. IsFiniteSet(CompletedIds(progress))
      BY CompletedIdsCount
    <3> QED
      BY <1>1, <3>1, FS_Subset DEF CInv, DueIsCurrent, Ended
  <2>2. /\ progress.runsDispatched \in Nat /\ progress.runsCompleted \in Nat
        /\ Cardinality(emitted) \in Nat
    BY <1>1, <2>1, FS_CardinalityType DEF ProgressDoc
  <2>3. seq = progress.runsDispatched + progress.runsCompleted + Cardinality(emitted)
    BY <1>1, <2>2 DEF CInv, Numbered, Ended
  <2> QED
    BY <1>1, <1>2, <2>2, <2>3 DEF Numbered
<1> QED
  BY <1>4, <1>5, <1>6 DEF CInv

\* Where the orchestrator may go without counting or numbering anything.
Onward ==
    \/ pc' = pc
    \/ pc' \in Ended
    \/ /\ pc \notin Ended \cup {"runEvent", "batchEvent"}
       /\ pc' \notin {"runEvent", "batchEvent"}
       /\ pc' \in {"staging", "dispatching", "announcing"} =>
             pc \in {"staging", "dispatching", "announcing"}

\* The other steps keep the invariant.
LEMMA OtherStepsKeepCounters ==
  ASSUME CInv, Onward, UNCHANGED <<collected, announced, current, progress, seq, emitted>>
  PROVE  CInv'
<1>1. CompletedIds(progress)' = CompletedIds(progress)
  BY DEF CompletedIds, IsApplicationTerminal
<1>2. FirstResultCounts' /\ Counters'
  BY <1>1 DEF CInv, FirstResultCounts, Counters
<1>3. QueuedUntilAnnounced'
  BY DEF Onward, CInv, QueuedUntilAnnounced, Ended
<1>4. DueIsCurrent' /\ Numbered'
  BY <1>1 DEF Onward, CInv, DueIsCurrent, Numbered
<1> QED
  BY <1>2, <1>3, <1>4 DEF CInv

\* Every step preserves the invariant.
LEMMA CInvIsInductive == ASSUME OInv, CInv, DistinctApps, [Next]_vars PROVE CInv'
<1>1. OInv'
  BY OInvIsInductive
<1>2. ASSUME NEW e \in Entries, Announce(e) PROVE CInv'
  BY <1>1, <1>2, AnnounceKeepsCounters
<1>3. ASSUME NEW r \in Runs, Collect(r) PROVE CInv'
  BY <1>1, <1>3, CollectKeepsCounters
<1>4. CASE AfterRunEvent
  BY <1>4, AfterRunEventKeepsCounters
<1>5. CASE AfterFinalize
  BY <1>5, AfterFinalizeKeepsCounters
<1>6. CASE Onward /\ UNCHANGED <<collected, announced, current, progress, seq, emitted>>
  BY <1>6, OtherStepsKeepCounters
<1>7. ASSUME NEW e \in Entries, DispatchAdvances(e) \/ DispatchFaults(e)
      PROVE  Onward /\ UNCHANGED <<collected, announced, current, progress, seq, emitted>>
  BY <1>7 DEF DispatchAdvances, DispatchFaults, WriteIndex, SendRun, ReportDispatch,
              RestartDispatch, DispatchFails, Onward, Ended
<1>8. StagePrompt \/ StageFails \/ StartCollecting \/ AfterAppEvent \/ Complete =>
          Onward /\ UNCHANGED <<collected, announced, current, progress, seq, emitted>>
  BY DEF StagePrompt, StageFails, StartCollecting, AfterAppEvent, ContinueLoop, Complete,
         Onward, Ended
<1>9. WriteDocument \/ WriteLateDocument \/ FinalizeFails \/ Environment \/ UNCHANGED vars =>
          Onward /\ UNCHANGED <<collected, announced, current, progress, seq, emitted>>
  BY DEF WriteDocument, WriteLateDocument, FinalizeFails, Environment, ReceiveEvent, TakeRun,
         Terminate, vars, ownVars, Onward, Ended
<1> QED
  BY <1>2, <1>3, <1>4, <1>5, <1>6, <1>7, <1>8, <1>9 DEF Next, BatchStep, Advance

-----------------------------------------------------------------------------
(* The theorems.                                                           *)

\* The invariant holds of every execution with distinct applications.
THEOREM CountersInvariant == Spec => [](DistinctApps => CInv)
<1>1. Init => (DistinctApps => CInv)
  BY CInvInit
<1>2. OInv /\ (DistinctApps => CInv) /\ [Next]_vars => (DistinctApps => CInv)'
  BY CInvIsInductive DEF DistinctApps
<1> QED
  BY <1>1, <1>2, OrchestratorInvariant, PTL DEF Spec

\* The counters the status route publishes are those of the results taken.
THEOREM CountersMatchLedgerHolds == Spec => []CountersMatchLedger
<1>1. (DistinctApps => CInv) => CountersMatchLedger
  BY DEF CInv, Counters, CountersMatchLedger
<1> QED
  BY <1>1, CountersInvariant, PTL

\* Between results, application.completed has been published of exactly the
\* applications that are completed.
THEOREM EmittedAreTerminalHolds == Spec => []EmittedAreTerminal
<1>1. (DistinctApps => CInv) => EmittedAreTerminal
  BY DEF CInv, DueIsCurrent, EmittedAreTerminal, Ended
<1> QED
  BY <1>1, CountersInvariant, PTL

\* _next_event_sequence derives the orchestrator's next number from the progress
\* document, or the last one, or is one ahead where an application event is due.
THEOREM SequencesAgreeHolds == Spec => []SequencesAgree
<1>1. OInv /\ (DistinctApps => CInv) => SequencesAgree
  <2> SUFFICES ASSUME OInv, CInv, DistinctApps PROVE SequencesAgree
    BY DEF SequencesAgree
  <2> DEFINE due == IF pc = "runEvent" /\ current[1] \in CompletedIds(progress) \ emitted
                    THEN 1 ELSE 0
             n == progress.runsDispatched + progress.runsCompleted
  <2>1. n \in Nat
    BY DEF OInv, TypeOK, ProgressDoc
  <2>2. NextEventSequence(progress) = n + Cardinality(CompletedIds(progress)) + 1
    BY CompletedIdsCount DEF NextEventSequence
  <2>3. ASSUME pc \notin Ended
        PROVE  /\ IsFiniteSet(emitted) /\ Cardinality(emitted) \in Nat
               /\ Cardinality(CompletedIds(progress)) = Cardinality(emitted) + due
    <3>1. /\ emitted \subseteq CompletedIds(progress)
          /\ CompletedIds(progress) \subseteq
                emitted \cup (IF pc = "runEvent" THEN {current[1]} ELSE {})
      BY <2>3 DEF CInv, DueIsCurrent
    <3>2. IsFiniteSet(CompletedIds(progress))
      BY CompletedIdsCount
    <3>3. IsFiniteSet(emitted) /\ Cardinality(emitted) \in Nat
      BY <3>1, <3>2, FS_Subset, FS_CardinalityType
    <3>4. CASE due = 1
      <4>1. CompletedIds(progress) = emitted \cup {current[1]} /\ current[1] \notin emitted
        BY <3>1, <3>4
      <4> QED
        BY <3>3, <3>4, <4>1, CountOneMore
    <3>5. CASE due = 0
      <4>1. CompletedIds(progress) = emitted
        BY <3>1, <3>5
      <4> QED
        BY <3>3, <3>5, <4>1
    <3> QED
      BY <3>3, <3>4, <3>5
  <2>4. ASSUME pc \in Phases \ ({"batchEvent"} \cup Ended)
        PROVE  NextEventSequence(progress) = seq + 1 + due
    <3>1. seq = n + Cardinality(emitted)
      BY <2>1, <2>3, <2>4 DEF CInv, Numbered
    <3>2. due \in Nat
      OBVIOUS
    <3> HIDE DEF due, n
    <3> QED
      BY <2>1, <2>2, <2>3, <2>4, <3>1, <3>2
  <2>5. ASSUME pc = "batchEvent"
        PROVE  NextEventSequence(progress) = seq
    <3>1. pc \notin Ended /\ due = 0
      BY <2>5 DEF Ended
    <3>2. seq = n + Cardinality(emitted) + 1
      BY <2>1, <2>5, <3>1 DEF CInv, Numbered
    <3> HIDE DEF due, n
    <3> QED
      BY <2>1, <2>2, <2>3, <3>1, <3>2
  <2> QED
    BY <2>4, <2>5 DEF SequencesAgree
<1> QED
  BY <1>1, CountersInvariant, OrchestratorInvariant, PTL
-----------------------------------------------------------------------------
(* A completed batch is whole, where every status of the engine is one the *)
(* orchestrator takes for terminal ("Partial" is not: the orchestrator     *)
(* then completes a batch of which some CV never does).                    *)

TerminalStatuses == \A s \in Statuses : IsTerminalRunStatus(s)

\* There are as many runs as entries, and the totals the document starts with.
LEMMA Totals ==
  ASSUME DistinctApps
  PROVE  /\ Cardinality(Positions) = CvsTotal
         /\ Cardinality(Entries) = RunsTotal
         /\ Cardinality(Runs) = RunsTotal
<1>1. Len(CvApps) \in Nat /\ Len(CvApps) >= 1 /\ RunCount \in Nat /\ RunCount >= 1
  BY CvsAssumption, RunCountAssumption
<1>2. IsFiniteSet(Positions) /\ Cardinality(Positions) = Len(CvApps)
  <2>1. IsFiniteSet(1 .. Len(CvApps)) /\ Cardinality(1 .. Len(CvApps)) = Len(CvApps) - 1 + 1
    BY <1>1, FS_Interval
  <2> QED
    BY <1>1, <2>1 DEF Positions
<1>3. IsFiniteSet(RunIdx) /\ Cardinality(RunIdx) = RunCount
  <2>1. /\ IsFiniteSet(0 .. RunCount - 1)
        /\ Cardinality(0 .. RunCount - 1) = (RunCount - 1) - 0 + 1
    <3>1. RunCount - 1 \in Int /\ ~(0 > RunCount - 1)
      BY <1>1
    <3> QED
      BY <3>1, FS_Interval
  <2> QED
    BY <1>1, <2>1 DEF RunIdx
<1>4. IsFiniteSet(Entries) /\ Cardinality(Entries) = RunsTotal
  <2>1. IsFiniteSet(Positions \X RunIdx)
        /\ Cardinality(Positions \X RunIdx) = Cardinality(Positions) * Cardinality(RunIdx)
    BY <1>2, <1>3, FS_Product
  <2> QED
    BY <1>2, <1>3, <2>1 DEF Entries, RunsTotal
<1>5. Cardinality(Runs) = Cardinality(Entries)
  <2> DEFINE ids == [e \in Entries |-> RunId(e)]
  <2>1. ids \in [Entries -> Runs] /\ \A r \in Runs : \E e \in Entries : ids[e] = r
    BY DEF Runs
  <2>2. \A e, f \in Entries : ids[e] = ids[f] => e = f
    BY EntryOfRun
  <2> HIDE DEF ids
  <2>3. ids \in Bijection(Entries, Runs)
    BY <2>1, <2>2 DEF Bijection, Injection, Surjection, IsInjective
  <2> QED
    BY <1>4, <2>3, FS_Bijection DEF ExistsBijection
<1> QED
  BY <1>2, <1>4, <1>5 DEF CvsTotal

\* Every result makes its run terminal.
TakenIsTerminal ==
    \A e \in Entries : collected[RunId(e)] # <<>> => IsTerminalRunStatus(progress.run[e])

\* The collect loop starts after the last announcement and ends with the last result.
LoopsAreWhole ==
    /\ pc \in {"collecting", "runEvent", "appEvent", "finalizing", "batchEvent", "completed"} =>
          announced = Entries
    /\ pc \in {"finalizing", "batchEvent", "completed"} =>
          \A r \in Runs : collected[r] # <<>>

\* The batch completes with an event for each completed application.
CompletedIsEmitted == pc = "completed" => emitted = CompletedIds(progress)

WInv ==
    /\ TakenIsTerminal
    /\ LoopsAreWhole
    /\ CompletedIsEmitted

\* With the results of all runs taken, all is counted.
LEMMA WholeAtEnd ==
  ASSUME DistinctApps, CInv, WInv
  PROVE  CompletedIsWhole
<1> SUFFICES ASSUME pc = "completed"
             PROVE  /\ progress.runsDispatched = RunsTotal
                    /\ progress.runsCompleted = RunsTotal
                    /\ progress.cvsCompleted = CvsTotal
                    /\ emitted = {CvApps[c] : c \in Positions}
  BY DEF CompletedIsWhole
<1>1. announced = Entries /\ \A r \in Runs : collected[r] # <<>>
  BY DEF WInv, LoopsAreWhole
<1>2. {r \in Runs : collected[r] # <<>>} = Runs
  BY <1>1
<1>3. \A c \in Positions : IsApplicationTerminal(progress, c)
  <2>1. \A e \in Entries : IsTerminalRunStatus(progress.run[e])
    BY <1>1 DEF WInv, TakenIsTerminal, Runs
  <2> QED
    BY <2>1 DEF IsApplicationTerminal, Entries
<1>4. CompletedIds(progress) = {CvApps[c] : c \in Positions}
  BY <1>3 DEF CompletedIds
<1>5. Cardinality(CompletedIds(progress)) = Cardinality(Positions)
  <2>1. {c \in Positions : IsApplicationTerminal(progress, c)} = Positions
    BY <1>3
  <2> QED
    BY <2>1, CompletedIdsCount
<1>6. emitted = CompletedIds(progress)
  BY DEF WInv, CompletedIsEmitted
<1> QED
  BY <1>1, <1>2, <1>4, <1>5, <1>6, Totals DEF CInv, Counters

\* A result is taken of one run, and recorded as it came.
LEMMA CollectKeepsWhole ==
  ASSUME OInv, CInv, WInv, DistinctApps, TerminalStatuses, NEW r \in Runs, Collect(r)
  PROVE  WInv'
<1> USE DEF OInv
<1>1. PICK e \in Entries : r = RunId(e)
  BY DEF Runs
<1> DEFINE s == raised[r][Len(collected[r]) + 1]
<1>2. collected[r] = <<>>
  <2>1. Len(collected[r]) < 1 /\ collected[r] \in Seq(Statuses)
    BY OneWait DEF Collect, Pending, TypeOK
  <2> QED
    BY <2>1
<1>3. /\ pc = "collecting" /\ pc' = "runEvent" /\ announced' = announced
      /\ progress \in ProgressDoc /\ progress' = RecordRunResult(progress, r, s)
      /\ collected' = [collected EXCEPT ![r] = Append(@, s)]
      /\ collected \in [Runs -> Seq(Statuses)]
  BY DEF Collect, TypeOK
<1>4. s \in Statuses
  BY DEF Collect, TypeOK
<1> HIDE DEF s
<1>5. /\ ~IsTerminalRunStatus(progress.run[e])
      /\ progress.cvsCompleted = Cardinality(CompletedIds(progress))
  BY <1>1, <1>2 DEF CInv, FirstResultCounts, Counters
<1>6. progress'.run = [progress.run EXCEPT ![e] = s]
  <2>1. FindApplicationRun(RunId(e)) = e
    BY EntryOfRun
  <2>2. RecordRunResult(progress, RunId(e), s).run = [progress.run EXCEPT ![e] = s]
    BY <1>3, <1>5, <2>1 DEF RecordRunResult, ProgressDoc
  <2> QED
    BY <1>1, <1>3, <2>2
<1>7. TakenIsTerminal'
  <2> SUFFICES ASSUME NEW f \in Entries, collected'[RunId(f)] # <<>>
               PROVE  IsTerminalRunStatus(progress'.run[f])
    BY DEF TakenIsTerminal
  <2>1. CASE f = e
    <3>1. progress'.run[f] = s
      BY <1>3, <1>6, <2>1 DEF ProgressDoc
    <3> QED
      BY <1>4, <3>1 DEF TerminalStatuses
  <2>2. CASE f # e
    <3>1. RunId(f) \in Runs /\ RunId(f) # r
      BY <1>1, <2>2, EntryOfRun DEF Runs
    <3>2. collected[RunId(f)] # <<>>
      BY <1>3, <3>1
    <3>3. progress'.run[f] = progress.run[f]
      BY <1>3, <1>6, <2>2 DEF ProgressDoc
    <3> QED
      BY <3>2, <3>3 DEF WInv, TakenIsTerminal
  <2> QED
    BY <2>1, <2>2
<1>8. LoopsAreWhole' /\ CompletedIsEmitted'
  BY <1>3 DEF WInv, LoopsAreWhole, CompletedIsEmitted
<1> QED
  BY <1>7, <1>8 DEF WInv

\* The loop is left with no wait pending.
LEMMA LoopEndsWhole ==
  ASSUME OInv, WInv, pc \in {"runEvent", "appEvent"}, ContinueLoop \/ pc' = "appEvent",
         UNCHANGED <<collected, announced, progress>>
  PROVE  WInv'
<1>1. pc' \in {"collecting", "finalizing", "appEvent"}
  BY DEF ContinueLoop
<1>2. ASSUME pc' = "finalizing", NEW r \in Runs PROVE collected[r] # <<>>
  <2>1. ~Pending(r)
    BY <1>2 DEF ContinueLoop
  <2>2. Waits(r) \in Nat /\ Waits(r) >= 1
    BY WaitsType, WaitsPositive
  <2> QED
    BY <2>1, <2>2 DEF Pending
<1>3. TakenIsTerminal' /\ LoopsAreWhole' /\ CompletedIsEmitted'
  BY <1>1, <1>2 DEF WInv, TakenIsTerminal, LoopsAreWhole, CompletedIsEmitted
<1> QED
  BY <1>3 DEF WInv

\* Every step preserves the invariant.
LEMMA WInvIsInductive ==
  ASSUME OInv, CInv, WInv, DistinctApps, TerminalStatuses, [Next]_vars
  PROVE  WInv'
<1> USE DEF WInv
<1>1. ASSUME NEW r \in Runs, Collect(r) PROVE WInv'
  BY <1>1, CollectKeepsWhole
<1>2. CASE AfterRunEvent \/ AfterAppEvent
  <2>1. /\ pc \in {"runEvent", "appEvent"}
        /\ ContinueLoop \/ pc' = "appEvent"
        /\ UNCHANGED <<collected, announced, progress>>
    BY <1>2 DEF AfterRunEvent, AfterAppEvent
  <2> QED
    BY <2>1, LoopEndsWhole
<1>3. ASSUME NEW e \in Entries, Announce(e) PROVE WInv'
  <2>1. /\ pc \in {"dispatching", "announcing"} /\ pc' = "announcing"
        /\ collected' = collected
    BY <1>3 DEF Announce
  <2>2. OInv'
    BY OInvIsInductive
  <2>3. TakenIsTerminal'
    <3> SUFFICES ASSUME NEW f \in Entries, collected[RunId(f)] # <<>> PROVE FALSE
      BY <2>1 DEF TakenIsTerminal
    <3> QED
      BY <2>1 DEF OInv, NoResultYet, TakenIsTerminal
  <2>4. LoopsAreWhole' /\ CompletedIsEmitted'
    BY <2>1 DEF LoopsAreWhole, CompletedIsEmitted
  <2> QED
    BY <2>3, <2>4
<1>4. CASE AfterFinalize
  <2>1. /\ pc = "finalizing" /\ pc' = "batchEvent" /\ progress'.run = progress.run
        /\ UNCHANGED <<collected, announced>>
    BY <1>4 DEF AfterFinalize, OInv, TypeOK, ProgressDoc
  <2> QED
    BY <2>1 DEF TakenIsTerminal, LoopsAreWhole, CompletedIsEmitted
<1>5. CASE Complete
  <2>1. /\ pc = "batchEvent" /\ pc' = "completed"
        /\ UNCHANGED <<collected, announced, progress, emitted>>
    BY <1>5 DEF Complete
  <2>2. emitted = CompletedIds(progress)
    BY <2>1 DEF CInv, DueIsCurrent, Ended
  <2>3. CompletedIds(progress)' = CompletedIds(progress)
    BY <2>1 DEF CompletedIds, IsApplicationTerminal
  <2> QED
    BY <2>1, <2>2, <2>3 DEF TakenIsTerminal, LoopsAreWhole, CompletedIsEmitted
<1>6. CASE StartCollecting
  <2>1. /\ announced = Entries /\ pc' = "collecting"
        /\ UNCHANGED <<collected, announced, progress>>
    BY <1>6 DEF StartCollecting
  <2> QED
    BY <2>1 DEF TakenIsTerminal, LoopsAreWhole, CompletedIsEmitted
<1>7. ASSUME UNCHANGED <<collected, announced, progress, emitted>>,
             pc' \in {pc, "dispatching", "failed", "terminated"}
      PROVE  WInv'
  <2>1. CompletedIds(progress)' = CompletedIds(progress)
    BY <1>7 DEF CompletedIds, IsApplicationTerminal
  <2> QED
    BY <1>7, <2>1 DEF TakenIsTerminal, LoopsAreWhole, CompletedIsEmitted
<1>8. ASSUME NEW e \in Entries, DispatchAdvances(e) \/ DispatchFaults(e)
      PROVE  /\ UNCHANGED <<collected, announced, progress, emitted>>
             /\ pc' \in {pc, "dispatching", "failed", "terminated"}
  BY <1>8 DEF DispatchAdvances, DispatchFaults, WriteIndex, SendRun, ReportDispatch,
              RestartDispatch, DispatchFails
<1>9. StagePrompt \/ StageFails \/ WriteDocument \/ WriteLateDocument \/ FinalizeFails
        \/ Environment \/ UNCHANGED vars
      => /\ UNCHANGED <<collected, announced, progress, emitted>>
         /\ pc' \in {pc, "dispatching", "failed", "terminated"}
  BY DEF StagePrompt, StageFails, WriteDocument, WriteLateDocument, FinalizeFails,
         Environment, ReceiveEvent, TakeRun, Terminate, vars, ownVars
<1> QED
  BY <1>1, <1>2, <1>3, <1>4, <1>5, <1>6, <1>7, <1>8, <1>9 DEF Next, BatchStep, Advance

\* A batch that completes has dispatched and completed every run, completed every
\* CV and published an event of each, provided that every status the engine may
\* report counts as terminal and that no two CVs name the same application.
THEOREM CompletedIsWholeHolds ==
  ASSUME DistinctApps, TerminalStatuses
  PROVE  Spec => []CompletedIsWhole
<1>1. Init => WInv
  BY DEF Init, WInv, TakenIsTerminal, LoopsAreWhole, CompletedIsEmitted, Runs
<1>2. OInv /\ (DistinctApps => CInv) /\ WInv /\ [Next]_vars => WInv'
  BY WInvIsInductive
<1>3. (DistinctApps => CInv) /\ WInv => CompletedIsWhole
  BY WholeAtEnd
<1> QED
  BY <1>1, <1>2, <1>3, OrchestratorInvariant, CountersInvariant, PTL DEF Spec
=============================================================================
