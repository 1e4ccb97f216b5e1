------------------------- MODULE Aggregation_proofs -------------------------
(***************************************************************************)
(* Proofs about the aggregates: what _aggregate_cv_scoring computes of any *)
(* finite family of documents, and what the handoff therefore says of the  *)
(* results in the ledger, for every list of CVs and set of documents.      *)
(***************************************************************************)
EXTENDS Finalization_proofs

-----------------------------------------------------------------------------
(* Sorting.                                                                *)

\* The arrangements of T that put the values of f in ascending order.
Orders(T, f) ==
    {b \in Bijection(1 .. Cardinality(T), T) :
        \A i, j \in 1 .. Cardinality(T) : i < j => f[b[i]] <= f[b[j]]}

\* Some element has the least value.
LEMMA LeastScore ==
  ASSUME NEW T, T # {}, NEW f, \A x \in T : f[x] \in Nat
  PROVE  \E x \in T : \A y \in T : f[x] <= f[y]
<1> DEFINE values == {f[x] : x \in T}
<1>1. values \subseteq Nat /\ values # {}
  OBVIOUS
<1>2. PICK n \in values : \A m \in values : n <= m
  <2> HIDE DEF values
  <2> QED
    BY <1>1, LeastNumber
<1> QED
  BY <1>2

\* An element of least value goes before an arrangement of the others.
LEMMA LeastGoesFirst ==
  ASSUME NEW T, IsFiniteSet(T), NEW f, \A y \in T : f[y] \in Nat,
         NEW x \in T, \A y \in T : f[x] <= f[y],
         NEW b \in Orders(T \ {x}, f)
  PROVE  Orders(T, f) # {}
<1> DEFINE n == Cardinality(T)
           m == Cardinality(T \ {x})
           c == [i \in 1 .. n |-> IF i = 1 THEN x ELSE b[i - 1]]
<1>1. m \in Nat /\ n = m + 1
  <2>1. IsFiniteSet(T \ {x}) /\ Cardinality(T \ {x}) = Cardinality(T) - 1
    BY FS_RemoveElement
  <2>2. Cardinality(T) \in Nat /\ Cardinality(T \ {x}) \in Nat
    BY <2>1, FS_CardinalityType
  <2> QED
    BY <2>1, <2>2
<1>2. /\ b \in [1 .. m -> T \ {x}]
      /\ \A i, j \in 1 .. m : b[i] = b[j] => i = j
      /\ \A t \in T \ {x} : \E i \in 1 .. m : b[i] = t
      /\ \A i, j \in 1 .. m : i < j => f[b[i]] <= f[b[j]]
  BY DEF Orders, Bijection, Injection, Surjection, IsInjective
<1> HIDE DEF m, n
<1>3. \A i \in 1 .. n : i = 1 \/ (i - 1 \in 1 .. m /\ c[i] = b[i - 1])
  BY <1>1
<1>4. c[1] = x /\ 1 \in 1 .. n
  BY <1>1
<1>5. c \in [1 .. n -> T]
  BY <1>1, <1>2
<1> HIDE DEF c
<1>6. ASSUME NEW i \in 1 .. n, NEW j \in 1 .. n, c[i] = c[j] PROVE i = j
  <2>1. CASE i = 1 \/ j = 1
    BY <1>2, <1>3, <1>4, <1>6, <2>1
  <2>2. CASE i # 1 /\ j # 1
    <3>1. b[i - 1] = b[j - 1] /\ i - 1 \in 1 .. m /\ j - 1 \in 1 .. m
      BY <1>3, <1>6, <2>2
    <3>2. i - 1 = j - 1
      BY <1>2, <3>1
    <3> QED
      BY <1>1, <3>2
  <2> QED
    BY <2>1, <2>2
<1>7. ASSUME NEW t \in T PROVE \E i \in 1 .. n : c[i] = t
  <2>1. CASE t = x
    BY <1>4, <2>1
  <2>2. CASE t # x
    <3>1. PICK i \in 1 .. m : b[i] = t
      BY <1>2, <2>2
    <3>2. i + 1 \in 1 .. n /\ i + 1 # 1 /\ (i + 1) - 1 = i
      BY <1>1
    <3> QED
      BY <1>3, <3>1, <3>2
  <2> QED
    BY <2>1, <2>2
<1>8. ASSUME NEW i \in 1 .. n, NEW j \in 1 .. n, i < j PROVE f[c[i]] <= f[c[j]]
  <2>1. CASE i = 1
    BY <1>4, <1>5, <2>1
  <2>2. CASE i # 1
    <3>1. /\ i - 1 \in 1 .. m /\ j - 1 \in 1 .. m /\ i - 1 < j - 1
          /\ c[i] = b[i - 1] /\ c[j] = b[j - 1]
      BY <1>1, <1>3, <1>8, <2>2
    <3> QED
      BY <1>2, <3>1
  <2> QED
    BY <2>1, <2>2
<1>9. c \in Bijection(1 .. n, T)
  BY <1>5, <1>6, <1>7 DEF Bijection, Injection, Surjection, IsInjective
<1> QED
  BY <1>8, <1>9 DEF Orders, n

\* Every finite family of numbers can be sorted: a least set that cannot be would
\* be one element larger than one that can.
LEMMA OrderExists ==
  ASSUME NEW S, IsFiniteSet(S), NEW f, \A x \in S : f[x] \in Nat
  PROVE  Orders(S, f) # {}
<1> DEFINE Bad == {T \in SUBSET S : Orders(T, f) = {}}
           R == StrictSubsetOrdering(S)
<1>1. SUFFICES ASSUME Bad # {} PROVE FALSE
  OBVIOUS
<1>2. PICK T \in Bad : \A U \in Bad : <<U, T>> \notin R
  <2>1. IsWellFoundedOn(R, FiniteSubsetsOf(S))
    BY FS_StrictSubsetOrderingWellFounded
  <2>2. Bad \subseteq FiniteSubsetsOf(S)
    BY FS_Subset DEF FiniteSubsetsOf
  <2> HIDE DEF Bad, R
  <2> QED
    BY <1>1, <2>1, <2>2, WFMin
<1>3. T \subseteq S /\ IsFiniteSet(T) /\ \A x \in T : f[x] \in Nat
  BY <1>2, FS_Subset
<1>4. CASE T = {}
  <2>1. Cardinality(T) = 0
    BY <1>4, FS_EmptySet
  <2>2. 1 .. Cardinality(T) = {}
    BY <2>1
  <2>3. [i \in {} |-> i] \in Orders(T, f)
    BY <1>4, <2>2 DEF Orders, Bijection, Injection, Surjection, IsInjective
  <2> QED
    BY <1>2, <2>3
<1>5. CASE T # {}
  <2>1. PICK x \in T : \A y \in T : f[x] <= f[y]
    BY <1>3, <1>5, LeastScore
  <2>2. <<T \ {x}, T>> \in R
    BY <1>3, <2>1 DEF StrictSubsetOrdering
  <2>3. T \ {x} \notin Bad
    BY <1>2, <2>2
  <2>4. Orders(T \ {x}, f) # {}
    BY <1>3, <2>3
  <2>5. PICK b : b \in Orders(T \ {x}, f)
    BY <2>4
  <2>6. Orders(T, f) # {}
    BY <1>3, <2>1, <2>5, LeastGoesFirst
  <2> QED
    BY <1>2, <2>6
<1> QED
  BY <1>4, <1>5

\* m is the k-th smallest value of f, by counting.
IsNth(f, m, k) ==
    /\ Cardinality({x \in DOMAIN f : f[x] < m}) < k
    /\ Cardinality({x \in DOMAIN f : f[x] <= m}) >= k

\* The k-th in the order is the k-th smallest: fewer than k values are below it, at
\* least k are not above it.
LEMMA OrderCounts ==
  ASSUME NEW f, IsFiniteSet(DOMAIN f), \A x \in DOMAIN f : f[x] \in Nat,
         NEW b \in Orders(DOMAIN f, f), NEW k \in 1 .. Cardinality(DOMAIN f)
  PROVE  b[k] \in DOMAIN f /\ IsNth(f, f[b[k]], k)
<1> DEFINE S == DOMAIN f
           n == Cardinality(S)
           below == {x \in S : f[x] < f[b[k]]}
           upto == {x \in S : f[x] <= f[b[k]]}
           first == {b[i] : i \in 1 .. k}
           before == {b[i] : i \in 1 .. k - 1}
<1>1. n \in Nat /\ k \in Int /\ k - 1 \in Int
  BY FS_CardinalityType
<1>2. /\ b \in [1 .. n -> S]
      /\ \A i, j \in 1 .. n : b[i] = b[j] => i = j
      /\ \A t \in S : \E i \in 1 .. n : b[i] = t
      /\ \A i, j \in 1 .. n : i < j => f[b[i]] <= f[b[j]]
  BY DEF Orders, Bijection, Injection, Surjection, IsInjective
<1> HIDE DEF n
<1>3. k \in 1 .. n
  BY DEF n
<1>4. \A i \in 1 .. n : b[i] \in S /\ f[b[i]] \in Nat
  BY <1>2
<1>5. /\ IsFiniteSet(1 .. k) /\ Cardinality(1 .. k) = k
      /\ IsFiniteSet(1 .. k - 1) /\ Cardinality(1 .. k - 1) = k - 1
  <2>1. \A j \in Int : j >= 0 => IsFiniteSet(1 .. j) /\ Cardinality(1 .. j) = j
    <3> TAKE j \in Int
    <3> HAVE j >= 0
    <3>1. IsFiniteSet(1 .. j) /\ Cardinality(1 .. j) = IF 1 > j THEN 0 ELSE j - 1 + 1
      BY FS_Interval
    <3> QED
      BY <3>1
  <2> QED
    BY <1>1, <1>3, <2>1
<1>6. IsFiniteSet(before) /\ Cardinality(before) <= k - 1
  <2> DEFINE g == [i \in 1 .. k - 1 |-> b[i]]
  <2>1. g \in Surjection(1 .. k - 1, before)
    BY DEF Surjection
  <2> HIDE DEF g, before
  <2> QED
    BY <1>5, <2>1, FS_Surjection
<1>7. IsFiniteSet(first) /\ Cardinality(first) = k
  <2> DEFINE g == [i \in 1 .. k |-> b[i]]
  <2>1. g \in [1 .. k -> first] /\ \A t \in first : \E i \in 1 .. k : g[i] = t
    OBVIOUS
  <2>2. \A i, j \in 1 .. k : g[i] = g[j] => i = j
    BY <1>1, <1>2, <1>3
  <2> HIDE DEF g, first
  <2>3. g \in Bijection(1 .. k, first)
    BY <2>1, <2>2 DEF Bijection, Injection, Surjection, IsInjective
  <2> QED
    BY <1>5, <2>3, FS_Bijection DEF ExistsBijection
<1>8. below \subseteq before
  <2> SUFFICES ASSUME NEW x \in S, f[x] < f[b[k]] PROVE x \in before
    OBVIOUS
  <2>1. PICK i \in 1 .. n : b[i] = x
    BY <1>2
  <2>2. ~(k <= i)
    <3>1. CASE i = k
      BY <1>3, <1>4, <2>1, <3>1
    <3>2. CASE k < i
      <4>1. f[b[k]] <= f[b[i]] /\ f[b[k]] \in Nat /\ f[b[i]] \in Nat
        BY <1>2, <1>3, <1>4, <3>2
      <4> QED
        BY <2>1, <4>1
    <3> QED
      BY <1>1, <3>1, <3>2
  <2>3. i \in 1 .. k - 1
    BY <1>1, <2>2
  <2> QED
    BY <2>1, <2>3
<1>9. first \subseteq upto
  <2> SUFFICES ASSUME NEW i \in 1 .. k PROVE b[i] \in S /\ f[b[i]] <= f[b[k]]
    OBVIOUS
  <2>1. i \in 1 .. n /\ (i = k \/ i < k)
    BY <1>1, <1>3
  <2>2. CASE i = k
    BY <1>3, <1>4, <2>2
  <2>3. CASE i < k
    BY <1>2, <1>3, <1>4, <2>1, <2>3
  <2> QED
    BY <2>1, <2>2, <2>3
<1>10. Cardinality(below) < k
  <2>1. Cardinality(below) <= Cardinality(before) /\ IsFiniteSet(below)
    BY <1>6, <1>8, FS_Subset
  <2>2. Cardinality(below) \in Nat /\ Cardinality(before) \in Nat
    BY <1>6, <2>1, FS_CardinalityType
  <2> HIDE DEF below, before
  <2> QED
    BY <1>1, <1>6, <2>1, <2>2
<1>11. Cardinality(upto) >= k
  <2>1. IsFiniteSet(upto)
    BY FS_Subset
  <2>2. Cardinality(first) <= Cardinality(upto)
    <3> HIDE DEF first, upto
    <3> QED
      BY <1>9, <2>1, FS_Subset
  <2>3. Cardinality(upto) \in Nat
    BY <2>1, FS_CardinalityType
  <2> HIDE DEF first, upto
  <2> QED
    BY <1>1, <1>7, <2>2, <2>3
<1> QED
  BY <1>3, <1>4, <1>10, <1>11 DEF IsNth
-----------------------------------------------------------------------------
(* What _aggregate_cv_scoring computes of a finite family of documents.    *)

\* The median, doubled, is the sum of the two middle values, or twice the middle.
LEMMA MedianIsMiddle ==
  ASSUME NEW scores, IsFiniteSet(DOMAIN scores), DOMAIN scores # {},
         \A x \in DOMAIN scores : scores[x] \in Nat
  PROVE  LET n == Cardinality(DOMAIN scores)
         IN  \E x, y \in DOMAIN scores :
                 /\ IsNth(scores, scores[x], (n + 1) \div 2)
                 /\ IsNth(scores, scores[y], n \div 2 + 1)
                 /\ Median(scores) = scores[x] + scores[y]
<1> DEFINE S == DOMAIN scores
           n == Cardinality(S)
           sorted == CHOOSE f \in Ascending(scores) : TRUE
<1>1. n \in Nat /\ n # 0
  BY FS_CardinalityType, FS_EmptySet
<1>2. sorted \in Orders(S, scores)
  <2>1. Orders(S, scores) # {}
    BY OrderExists
  <2>2. Ascending(scores) = Orders(S, scores)
    BY DEF Ascending, Orders
  <2> QED
    BY <2>1, <2>2
<1>3. (n + 1) \div 2 \in 1 .. n /\ n \div 2 + 1 \in 1 .. n
  <2> HIDE DEF n
  <2> QED
    BY <1>1
<1>4. Median(scores) = scores[sorted[(n + 1) \div 2]] + scores[sorted[n \div 2 + 1]]
  BY DEF Median
<1> HIDE DEF sorted
<1>5. ASSUME NEW k \in 1 .. n
      PROVE  sorted[k] \in S /\ IsNth(scores, scores[sorted[k]], k)
  BY <1>2, OrderCounts
<1> DEFINE x == sorted[(n + 1) \div 2]
           y == sorted[n \div 2 + 1]
<1>6. x \in S /\ IsNth(scores, scores[x], (n + 1) \div 2)
  BY <1>3, <1>5
<1>7. y \in S /\ IsNth(scores, scores[y], n \div 2 + 1)
  BY <1>3, <1>5
<1>8. Median(scores) = scores[x] + scores[y]
  BY <1>4
<1> HIDE DEF x, y
<1> QED
  BY <1>6, <1>7, <1>8

\* A score is a number or none.
LEMMA ScoreType ==
  ASSUME NEW o \in OutputDocs
  PROVE  ScoreOf(o) \in Int /\ (ScoreOf(o) >= 0 => ScoreOf(o) \in Nat)
BY DEF ScoreOf, OutputDocs, NoScore, TextScore

\* The scores of a family are numbers of its documents.
LEMMA ScoresType ==
  ASSUME NEW outputs, IsFiniteSet(DOMAIN outputs),
         \A x \in DOMAIN outputs : outputs[x] \in OutputDocs
  PROVE  /\ IsFiniteSet(Parsed(outputs))
         /\ Cardinality(Parsed(outputs)) \in Nat
         /\ Cardinality(Parsed(outputs)) <= Cardinality(DOMAIN outputs)
         /\ IsFiniteSet(DOMAIN Scores(outputs))
         /\ DOMAIN Scores(outputs) = {x \in Parsed(outputs) : ScoreOf(outputs[x]) >= 0}
         /\ \A x \in DOMAIN Scores(outputs) :
                Scores(outputs)[x] = ScoreOf(outputs[x]) /\ Scores(outputs)[x] \in Nat
         /\ Scores(outputs) = <<>> <=> DOMAIN Scores(outputs) = {}
<1>1. /\ IsFiniteSet(Parsed(outputs))
      /\ Cardinality(Parsed(outputs)) <= Cardinality(DOMAIN outputs)
  <2>1. Parsed(outputs) \subseteq DOMAIN outputs
    BY DEF Parsed
  <2> QED
    BY <2>1, FS_Subset
<1>2. DOMAIN Scores(outputs) = {x \in Parsed(outputs) : ScoreOf(outputs[x]) >= 0}
  BY DEF Scores
<1>3. IsFiniteSet(DOMAIN Scores(outputs))
  BY <1>1, <1>2, FS_Subset
<1>4. \A x \in DOMAIN Scores(outputs) :
         Scores(outputs)[x] = ScoreOf(outputs[x]) /\ Scores(outputs)[x] \in Nat
  BY ScoreType DEF Scores, Parsed
<1>5. Scores(outputs) = <<>> <=> DOMAIN Scores(outputs) = {}
  <2> DEFINE T == {y \in Parsed(outputs) : ScoreOf(outputs[y]) >= 0}
  <2>1. Scores(outputs) = [x \in T |-> ScoreOf(outputs[x])]
    BY DEF Scores
  <2> HIDE DEF T
  <2> QED
    BY <2>1
<1> QED
  BY <1>1, <1>2, <1>3, <1>4, <1>5, FS_CardinalityType

\* What every aggregate of a family says of it.
LEMMA AggregateSays ==
  ASSUME NEW outputs, IsFiniteSet(DOMAIN outputs),
         \A x \in DOMAIN outputs : outputs[x] \in OutputDocs,
         NEW block \in AggregateCvScoring(outputs)
  PROVE  LET n == Cardinality(DOMAIN Scores(outputs))
         IN  /\ block \in AggregateDocs
             /\ block.runsCount = Cardinality(Parsed(outputs))
             /\ (block = NoAggregate) <=> (Parsed(outputs) = {})
             /\ (block.finalScore = NoScore) <=> (n = 0)
             /\ n > 0 =>
                   \E x, y \in DOMAIN Scores(outputs) :
                       /\ IsNth(Scores(outputs), Scores(outputs)[x], (n + 1) \div 2)
                       /\ IsNth(Scores(outputs), Scores(outputs)[y], n \div 2 + 1)
                       /\ block.finalScore = Scores(outputs)[x] + Scores(outputs)[y]
             /\ Parsed(outputs) # {} =>
                   /\ block.mustHaveResult = \A x \in Parsed(outputs) : MustAllMet(outputs[x])
                   /\ block.finalDecision \in Decisions
                   /\ \A d \in Decisions :
                          Frequency(outputs, d) <= Frequency(outputs, block.finalDecision)
<1> DEFINE scores == Scores(outputs)
           n == Cardinality(DOMAIN scores)
           parsed == Parsed(outputs)
<1>1. /\ IsFiniteSet(parsed) /\ Cardinality(parsed) \in Nat
      /\ IsFiniteSet(DOMAIN scores) /\ DOMAIN scores \subseteq parsed
      /\ \A x \in DOMAIN scores : scores[x] \in Nat
      /\ scores = <<>> <=> DOMAIN scores = {}
  BY ScoresType
<1>2. n \in Nat /\ (n = 0 <=> DOMAIN scores = {})
  BY <1>1, FS_CardinalityType, FS_EmptySet
<1>3. Cardinality(parsed) = 0 <=> parsed = {}
  BY <1>1, FS_EmptySet
<1>4. n > 0 => \E x, y \in DOMAIN scores :
                   /\ IsNth(scores, scores[x], (n + 1) \div 2)
                   /\ IsNth(scores, scores[y], n \div 2 + 1)
                   /\ Median(scores) = scores[x] + scores[y]
  <2> HIDE DEF scores
  <2>1. CASE DOMAIN scores # {}
    BY <1>1, <2>1, MedianIsMiddle
  <2>2. CASE DOMAIN scores = {}
    BY <1>2, <2>2
  <2> QED
    BY <2>1, <2>2
<1>5. n > 0 => Median(scores) \in Nat
  <2> SUFFICES ASSUME n > 0 PROVE Median(scores) \in Nat
    OBVIOUS
  <2>1. PICK x \in DOMAIN scores, y \in DOMAIN scores : Median(scores) = scores[x] + scores[y]
    BY <1>4
  <2> QED
    BY <1>1, <2>1
<1>6. CASE parsed = {}
  <2>1. block = NoAggregate
    BY <1>6 DEF AggregateCvScoring
  <2>2. block \in AggregateDocs /\ block.runsCount = 0 /\ block.finalScore = NoScore
    BY <2>1 DEF NoAggregate, AggregateDocs
  <2>3. n = 0
    BY <1>1, <1>2, <1>6
  <2> QED
    BY <1>3, <1>6, <2>1, <2>2, <2>3
<1>7. CASE parsed # {}
  <2> DEFINE score == IF scores = <<>> THEN NoScore ELSE Median(scores)
             must == \A x \in parsed : MustAllMet(outputs[x])
             Most(d) == \A f \in Decisions : Frequency(outputs, f) <= Frequency(outputs, d)
  <2>1. PICK d \in Decisions :
           /\ Most(d)
           /\ block = [finalScore |-> score, finalDecision |-> d, mustHaveResult |-> must,
                       runsCount |-> Cardinality(parsed)]
    BY <1>7 DEF AggregateCvScoring
  <2>2. /\ score \in Nat \cup {NoScore} /\ (score = NoScore <=> n = 0)
        /\ n > 0 => score = Median(scores)
    BY <1>1, <1>2, <1>5 DEF NoScore
  <2>3. must \in BOOLEAN
    OBVIOUS
  <2> HIDE DEF score, must, Most, parsed, scores, n
  <2>4. /\ block.finalScore = score /\ block.finalDecision = d /\ block.mustHaveResult = must
        /\ block.runsCount = Cardinality(parsed) /\ block \in AggregateDocs
    BY <1>1, <2>1, <2>2, <2>3 DEF AggregateDocs
  <2>5. block # NoAggregate
    BY <1>3, <1>7, <2>4 DEF NoAggregate
  <2> QED
    BY <1>2, <1>4, <1>7, <2>1, <2>2, <2>4, <2>5 DEF score, must, Most, parsed, scores, n
<1> QED
  BY <1>6, <1>7
-----------------------------------------------------------------------------
(* The ledger of a CV.                                                     *)

\* What the aggregate of a CV may be if all artifacts are read.
AggregatesOf(c) == AggregateCvScoring(OutputsOf(c, Succeeded(c)))

\* The types the artifacts and results have.
Typed ==
    /\ collected \in [Runs -> Seq(Statuses)]
    /\ artifact \in [Runs -> Seq(Outputs \cup {NoOutput})]
    /\ \A r \in Runs : Len(artifact[r]) = Len(collected[r])

\* The succeeded results of a CV are finitely many, each with a document.
LEMMA LedgerType ==
  ASSUME Typed, NEW c \in Positions
  PROVE  /\ IsFiniteSet(Succeeded(c))
         /\ \A x \in Succeeded(c) : ArtifactOf(c, x) \in OutputDocs
<1>1. IsFiniteSet(RunIdx) /\ IsFiniteSet(1 .. RunsTotal)
  <2>1. Len(CvApps) \in Nat /\ RunCount \in Nat
    BY CvsAssumption, RunCountAssumption
  <2>2. 0 \in Int /\ RunCount - 1 \in Int /\ 1 \in Int /\ RunsTotal \in Int
    BY <2>1 DEF RunsTotal
  <2> QED
    BY <2>2, FS_Interval DEF RunIdx
<1>2. IsFiniteSet(RunIdx \X (1 .. RunsTotal))
  BY <1>1, FS_Product
<1>3. IsFiniteSet(Succeeded(c))
  <2>1. Succeeded(c) \subseteq RunIdx \X (1 .. RunsTotal)
    BY DEF Succeeded, ResultsOf
  <2> QED
    BY <1>2, <2>1, FS_Subset
<1>4. NoOutput \in OutputDocs
  BY DEF NoOutput, OutputDocs
<1>5. ASSUME NEW x \in Succeeded(c) PROVE ArtifactOf(c, x) \in OutputDocs
  <2> DEFINE r == <<CvApps[c], x[1]>>
  <2>1. x \in RunIdx \X (1 .. RunsTotal) /\ x[2] <= Len(collected[r])
    BY DEF Succeeded, ResultsOf
  <2>2. r \in Runs
    BY <2>1, RunsType
  <2> HIDE DEF r
  <2>3. artifact[r] \in Seq(Outputs \cup {NoOutput}) /\ x[2] \in 1 .. Len(artifact[r])
    <3>1. x[2] \in Int /\ x[2] >= 1 /\ Len(artifact[r]) \in Nat
      BY <2>1, <2>2 DEF Typed
    <3> QED
      BY <2>1, <2>2, <3>1 DEF Typed
  <2>4. artifact[r][x[2]] \in Outputs \cup {NoOutput}
    BY <2>3
  <2> QED
    BY <1>4, <2>4, OutputsAssumption DEF ArtifactOf, r
<1> QED
  BY <1>3, <1>5

\* The same of the documents that are read, some reads failing.
LEMMA OutputsType ==
  ASSUME Typed, NEW c \in Positions, NEW results \in SUBSET Succeeded(c)
  PROVE  /\ DOMAIN OutputsOf(c, results) = results
         /\ IsFiniteSet(results)
         /\ Cardinality(results) <= Cardinality(Succeeded(c))
         /\ \A x \in results : /\ OutputsOf(c, results)[x] = ArtifactOf(c, x)
                               /\ OutputsOf(c, results)[x] \in OutputDocs
BY LedgerType, FS_Subset DEF OutputsOf

\* What the property calls evidence is what the code parses.
LEMMA EvidenceIsParsed ==
  ASSUME Typed, NEW c \in Positions
  PROVE  LET outputs == OutputsOf(c, Succeeded(c))
         IN  /\ Parsed(outputs) = Evidence(c)
             /\ DOMAIN Scores(outputs) = Scored(c)
             /\ \A x \in Scored(c) : Scores(outputs)[x] = ScoreAt(c, x)
             /\ \A d : Frequency(outputs, d) = Deciding(c, d)
             /\ \A x \in Evidence(c) : outputs[x] = ArtifactOf(c, x)
<1> DEFINE outputs == OutputsOf(c, Succeeded(c))
<1>1. /\ DOMAIN outputs = Succeeded(c)
      /\ \A x \in Succeeded(c) : outputs[x] = ArtifactOf(c, x)
  BY OutputsType
<1> HIDE DEF outputs
<1>2. Parsed(outputs) = Evidence(c)
  BY <1>1 DEF Parsed, Evidence
<1>3. Evidence(c) \subseteq Succeeded(c)
  BY DEF Evidence
<1>4. DOMAIN Scores(outputs) = Scored(c)
  BY <1>1, <1>2, <1>3 DEF Scores, Scored
<1>5. \A x \in Scored(c) : Scores(outputs)[x] = ScoreAt(c, x)
  BY <1>1, <1>2, <1>3, <1>4 DEF Scores, Scored, ScoreAt
<1>6. ASSUME NEW d PROVE Frequency(outputs, d) = Deciding(c, d)
  <2>1. {x \in Parsed(outputs) : DecisionOf(outputs[x]) = d}
          = {x \in Evidence(c) : DecisionOf(ArtifactOf(c, x)) = d}
    BY <1>1, <1>2, <1>3
  <2> QED
    BY <2>1 DEF Frequency, Deciding
<1> QED
  BY <1>1, <1>2, <1>3, <1>4, <1>5, <1>6 DEF outputs

\* An aggregate of all the artifacts says of the ledger what it should.
LEMMA AggregateOfLedger ==
  ASSUME Typed, NEW c \in Positions, NEW block \in AggregatesOf(c)
  PROVE  LET n == Cardinality(Scored(c))
         IN  /\ block \in AggregateDocs
             /\ block.runsCount = Cardinality(Evidence(c))
             /\ (block = NoAggregate) <=> (Evidence(c) = {})
             /\ (block.finalScore = NoScore) <=> (n = 0)
             /\ n > 0 =>
                   \E x, y \in Scored(c) :
                       /\ IsNthScore(c, ScoreAt(c, x), (n + 1) \div 2)
                       /\ IsNthScore(c, ScoreAt(c, y), n \div 2 + 1)
                       /\ block.finalScore = ScoreAt(c, x) + ScoreAt(c, y)
             /\ Evidence(c) # {} =>
                   /\ block.mustHaveResult =
                         ~\E x \in Evidence(c) : ~MustAllMet(ArtifactOf(c, x))
                   /\ block.finalDecision \in Decisions
                   /\ \A d \in Decisions : Deciding(c, d) <= Deciding(c, block.finalDecision)
<1> DEFINE outputs == OutputsOf(c, Succeeded(c))
           scores == Scores(outputs)
           n == Cardinality(Scored(c))
<1>1. /\ IsFiniteSet(DOMAIN outputs)
      /\ \A x \in DOMAIN outputs : outputs[x] \in OutputDocs
      /\ block \in AggregateCvScoring(outputs)
  BY OutputsType DEF AggregatesOf
<1>2. /\ Parsed(outputs) = Evidence(c)
      /\ DOMAIN scores = Scored(c)
      /\ \A x \in Scored(c) : scores[x] = ScoreAt(c, x)
      /\ \A d : Frequency(outputs, d) = Deciding(c, d)
      /\ \A x \in Evidence(c) : outputs[x] = ArtifactOf(c, x)
  BY EvidenceIsParsed
<1> HIDE DEF outputs
<1>3. /\ block \in AggregateDocs
      /\ block.runsCount = Cardinality(Parsed(outputs))
      /\ (block = NoAggregate) <=> (Parsed(outputs) = {})
      /\ (block.finalScore = NoScore) <=> (Cardinality(DOMAIN scores) = 0)
      /\ Cardinality(DOMAIN scores) > 0 =>
            \E x, y \in DOMAIN scores :
                /\ IsNth(scores, scores[x], (Cardinality(DOMAIN scores) + 1) \div 2)
                /\ IsNth(scores, scores[y], Cardinality(DOMAIN scores) \div 2 + 1)
                /\ block.finalScore = scores[x] + scores[y]
      /\ Parsed(outputs) # {} =>
            /\ block.mustHaveResult = \A x \in Parsed(outputs) : MustAllMet(outputs[x])
            /\ block.finalDecision \in Decisions
            /\ \A d \in Decisions :
                   Frequency(outputs, d) <= Frequency(outputs, block.finalDecision)
  BY <1>1, AggregateSays
<1> HIDE DEF scores
<1>4. ASSUME NEW m, NEW k, IsNth(scores, m, k) PROVE IsNthScore(c, m, k)
  <2>1. /\ {x \in DOMAIN scores : scores[x] < m} = {x \in Scored(c) : ScoreAt(c, x) < m}
        /\ {x \in DOMAIN scores : scores[x] <= m} = {x \in Scored(c) : ScoreAt(c, x) <= m}
    BY <1>2
  <2> QED
    BY <1>4, <2>1 DEF IsNth, IsNthScore
<1>5. n > 0 => \E x, y \in Scored(c) :
                   /\ IsNthScore(c, ScoreAt(c, x), (n + 1) \div 2)
                   /\ IsNthScore(c, ScoreAt(c, y), n \div 2 + 1)
                   /\ block.finalScore = ScoreAt(c, x) + ScoreAt(c, y)
  <2> SUFFICES ASSUME n > 0
               PROVE  \E x, y \in Scored(c) :
                          /\ IsNthScore(c, ScoreAt(c, x), (n + 1) \div 2)
                          /\ IsNthScore(c, ScoreAt(c, y), n \div 2 + 1)
                          /\ block.finalScore = ScoreAt(c, x) + ScoreAt(c, y)
    OBVIOUS
  <2>1. PICK x \in Scored(c), y \in Scored(c) :
           /\ IsNth(scores, scores[x], (n + 1) \div 2)
           /\ IsNth(scores, scores[y], n \div 2 + 1)
           /\ block.finalScore = scores[x] + scores[y]
    BY <1>2, <1>3
  <2>2. scores[x] = ScoreAt(c, x) /\ scores[y] = ScoreAt(c, y)
    BY <1>2
  <2>3. /\ IsNthScore(c, ScoreAt(c, x), (n + 1) \div 2)
        /\ IsNthScore(c, ScoreAt(c, y), n \div 2 + 1)
        /\ block.finalScore = ScoreAt(c, x) + ScoreAt(c, y)
    BY <1>4, <2>1, <2>2
  <2> QED
    BY <2>3
<1>6. Evidence(c) # {} =>
         block.mustHaveResult = ~\E x \in Evidence(c) : ~MustAllMet(ArtifactOf(c, x))
  BY <1>2, <1>3
<1>7. Evidence(c) # {} =>
         /\ block.finalDecision \in Decisions
         /\ \A d \in Decisions : Deciding(c, d) <= Deciding(c, block.finalDecision)
  <2>1. SUFFICES ASSUME Evidence(c) # {}
                 PROVE  /\ block.finalDecision \in Decisions
                        /\ \A d \in Decisions :
                               Deciding(c, d) <= Deciding(c, block.finalDecision)
    OBVIOUS
  <2>2. /\ block.finalDecision \in Decisions
        /\ \A d \in Decisions :
               Frequency(outputs, d) <= Frequency(outputs, block.finalDecision)
    BY <1>2, <1>3, <2>1
  <2>3. \A d : Frequency(outputs, d) = Deciding(c, d)
    BY <1>2
  <2>4. ASSUME NEW d \in Decisions PROVE Deciding(c, d) <= Deciding(c, block.finalDecision)
    <3>1. Frequency(outputs, d) <= Frequency(outputs, block.finalDecision)
      BY <2>2
    <3>2. Frequency(outputs, d) = Deciding(c, d)
      BY <2>3
    <3>3. Frequency(outputs, block.finalDecision) = Deciding(c, block.finalDecision)
      BY <2>3
    <3> QED
      BY <3>1, <3>2, <3>3
  <2> QED
    BY <2>2, <2>4
<1>8. /\ block \in AggregateDocs
      /\ block.runsCount = Cardinality(Evidence(c))
      /\ (block = NoAggregate) <=> (Evidence(c) = {})
      /\ (block.finalScore = NoScore) <=> (n = 0)
  BY <1>2, <1>3
<1> HIDE DEF n
<1> QED
  BY <1>5, <1>6, <1>7, <1>8, Zenon DEF n

\* With no tie there is one aggregate.
LEMMA OneAggregate ==
  ASSUME Typed, NEW c \in Positions, ~Tied(c),
         NEW a \in AggregatesOf(c), NEW b \in AggregatesOf(c)
  PROVE  a = b
<1> DEFINE outputs == OutputsOf(c, Succeeded(c))
<1>1. Parsed(outputs) = Evidence(c) /\ \A d : Frequency(outputs, d) = Deciding(c, d)
  BY EvidenceIsParsed
<1>2. CASE Parsed(outputs) = {}
  BY <1>2 DEF AggregatesOf, AggregateCvScoring
<1>3. CASE Parsed(outputs) # {}
  <2>1. \A d : Deciding(c, d) \in Nat
    <3> TAKE d
    <3>1. {x \in Evidence(c) : DecisionOf(ArtifactOf(c, x)) = d} \subseteq Succeeded(c)
      BY DEF Evidence
    <3> QED
      BY <3>1, LedgerType, FS_Subset, FS_CardinalityType DEF Deciding
  <2>2. Deciding(c, "Approve") # Deciding(c, "Reject")
    BY <1>1, <1>3 DEF Tied
  <2>3. \A d, e \in Decisions :
           /\ \A f \in Decisions : Deciding(c, f) <= Deciding(c, d)
           /\ \A f \in Decisions : Deciding(c, f) <= Deciding(c, e)
           => d = e
    BY <2>1, <2>2 DEF Decisions
  <2> DEFINE score == IF Scores(outputs) = <<>> THEN NoScore ELSE Median(Scores(outputs))
             must == \A x \in Parsed(outputs) : MustAllMet(outputs[x])
             With(d) == [finalScore |-> score, finalDecision |-> d, mustHaveResult |-> must,
                         runsCount |-> Cardinality(Parsed(outputs))]
             most == {e \in Decisions :
                         \A f \in Decisions : Frequency(outputs, f) <= Frequency(outputs, e)}
  <2>4. AggregatesOf(c) = {With(d) : d \in most}
    BY <1>3 DEF AggregatesOf, AggregateCvScoring
  <2>5. \A d, e \in most : d = e
    BY <1>1, <2>3
  <2> HIDE DEF With, most
  <2> QED
    BY <2>4, <2>5
<1> QED
  BY <1>2, <1>3
-----------------------------------------------------------------------------
(* The executions.                                                         *)

\* The aggregates of an execution are there while it runs, CV by CV, and what it
\* uploads is all of them.
ExecutionShape ==
    /\ exec = "none" => blocks = <<>>
    /\ Len(blocks) <= Len(CvApps)
    /\ exec = "uploaded" => Len(blocks) = Len(CvApps) /\ stored = blocks
    /\ returned # Nothing => stored # Nothing
    /\ stored # Nothing => final # "none"

\* No aggregate counts more runs than succeeded, whatever reads failed.
CountsOfLedger ==
    \A c \in DOMAIN blocks : blocks[c].runsCount <= Cardinality(Succeeded(c))

\* What is computed, stored and returned is an aggregate of the ledger.
AggregatesOfLedger ==
    Undisturbed =>
        /\ \A c \in DOMAIN blocks : blocks[c] \in AggregatesOf(c)
        /\ stored # Nothing => \A c \in Positions : stored[c] \in AggregatesOf(c)
        /\ returned # Nothing => \A c \in Positions : returned[c] \in AggregatesOf(c)

AInv ==
    /\ FinalTypeOK
    /\ ExecutionShape
    /\ CountsOfLedger
    /\ AggregatesOfLedger

\* The ledger of a CV is the results and artifacts, and no other state.
LEMMA LedgerKept ==
  ASSUME collected' = collected
  PROVE  /\ \A c : Succeeded(c)' = Succeeded(c)
         /\ artifact' = artifact => \A c : AggregatesOf(c)' = AggregatesOf(c)
<1>1. \A c : ResultsOf(c)' = ResultsOf(c)
  BY DEF ResultsOf
<1>2. \A c : Succeeded(c)' = Succeeded(c)
  BY <1>1 DEF Succeeded, StatusOf
<1>3. ASSUME artifact' = artifact PROVE \A c : AggregatesOf(c)' = AggregatesOf(c)
  <2>1. \A c : OutputsOf(c, Succeeded(c))' = OutputsOf(c, Succeeded(c))
    BY <1>2, <1>3 DEF OutputsOf, ArtifactOf
  <2> QED
    BY <2>1 DEF AggregatesOf
<1> QED
  BY <1>2, <1>3

\* Nothing is there before the first execution.
LEMMA AInvInit == FinalInit => AInv
<1> SUFFICES ASSUME FinalInit PROVE AInv
  OBVIOUS
<1>1. FinalTypeOK
  BY ExecutionsAssumption DEF FinalInit, Init, FinalTypeOK, Nothing
<1>2. ExecutionShape
  <2>1. Len(CvApps) \in Nat
    BY CvsAssumption
  <2> QED
    BY <2>1 DEF FinalInit, ExecutionShape, Nothing
<1>3. CountsOfLedger /\ AggregatesOfLedger
  BY DEF FinalInit, CountsOfLedger, AggregatesOfLedger, Nothing
<1> QED
  BY <1>1, <1>2, <1>3 DEF AInv

\* A step that leaves ledger and aggregates alone.
LEMMA AggregatesKept ==
  ASSUME AInv, UNCHANGED <<collected, artifact, disturbances, blocks, stored, returned>>,
         \/ UNCHANGED <<exec, executions>>
         \/ exec = "none" /\ exec' = "running" /\ executions' \in 0 .. MaxExecutions,
         final # "none" => final' # "none"
  PROVE  AInv'
<1> USE DEF AInv
<1>1. FinalTypeOK' /\ ExecutionShape'
  BY DEF FinalTypeOK, ExecutionShape
<1>2. CountsOfLedger' /\ AggregatesOfLedger'
  BY LedgerKept DEF CountsOfLedger, AggregatesOfLedger, Undisturbed
<1> QED
  BY <1>1, <1>2

\* The aggregate of the next CV is one of its ledger, if no read is lost.
LEMMA AggregateNextKeeps ==
  ASSUME TypeOK, AInv, AggregateNext
  PROVE  AInv'
<1> USE DEF AInv
<1> DEFINE c == Len(blocks) + 1
<1>1. /\ c \in Positions /\ exec = "running"
      /\ UNCHANGED <<vars, artifact, exec, stored, returned, executions>>
  BY DEF AggregateNext
<1>2. Typed
  BY DEF TypeOK, FinalTypeOK, Typed
<1>3. PICK lost \in SUBSET Succeeded(c) :
         /\ disturbances + Cardinality(lost) <= MaxDisturbances
         /\ disturbances' = disturbances + Cardinality(lost)
         /\ \E aggregated \in AggregateCvScoring(OutputsOf(c, Succeeded(c) \ lost)) :
               blocks' = Append(blocks, aggregated)
  BY DEF AggregateNext
<1>4. PICK aggregated \in AggregateCvScoring(OutputsOf(c, Succeeded(c) \ lost)) :
         blocks' = Append(blocks, aggregated)
  BY <1>3
<1> DEFINE results == Succeeded(c) \ lost
           outputs == OutputsOf(c, results)
<1>5. /\ DOMAIN outputs = results /\ IsFiniteSet(results)
      /\ Cardinality(results) <= Cardinality(Succeeded(c))
      /\ \A x \in results : outputs[x] \in OutputDocs
  BY <1>1, <1>2, OutputsType
<1>6. /\ Cardinality(lost) \in Nat /\ (Cardinality(lost) = 0 => lost = {})
      /\ Cardinality(results) \in Nat /\ Cardinality(Succeeded(c)) \in Nat
  BY <1>1, <1>2, <1>5, LedgerType, FS_Subset, FS_CardinalityType, FS_EmptySet
<1>7. /\ aggregated \in AggregateDocs
      /\ aggregated.runsCount <= Cardinality(Succeeded(c))
  <2>1. /\ aggregated \in AggregateDocs
        /\ aggregated.runsCount = Cardinality(Parsed(outputs))
    BY <1>4, <1>5, AggregateSays
  <2>2. /\ Cardinality(Parsed(outputs)) \in Nat
        /\ Cardinality(Parsed(outputs)) <= Cardinality(results)
    BY <1>5, ScoresType
  <2> QED
    BY <1>5, <1>6, <2>1, <2>2
<1>8. /\ blocks \in Seq(AggregateDocs) /\ blocks' \in Seq(AggregateDocs)
      /\ Len(blocks) \in Nat /\ Len(blocks') = c
      /\ \A d \in DOMAIN blocks' : IF d = c THEN blocks'[d] = aggregated
                                   ELSE d \in DOMAIN blocks /\ blocks'[d] = blocks[d]
  BY <1>4, <1>7 DEF FinalTypeOK
<1>9. /\ \A d : Succeeded(d)' = Succeeded(d)
      /\ \A d : AggregatesOf(d)' = AggregatesOf(d)
  BY <1>1, LedgerKept DEF vars, ownVars
<1>10. FinalTypeOK'
  <2>1. disturbances' \in 0 .. MaxDisturbances
    BY <1>3, <1>6, ExecutionsAssumption DEF FinalTypeOK
  <2> QED
    BY <1>1, <1>8, <2>1 DEF FinalTypeOK, vars, ownVars
<1>11. ExecutionShape'
  <2>1. c <= Len(CvApps)
    BY <1>1 DEF Positions
  <2> QED
    BY <1>1, <1>8, <2>1 DEF ExecutionShape, vars, ownVars
<1>12. CountsOfLedger'
  BY <1>7, <1>8, <1>9 DEF CountsOfLedger
<1>13. AggregatesOfLedger'
  <2> SUFFICES
        ASSUME Undisturbed'
        PROVE  /\ \A d \in DOMAIN blocks' : blocks'[d] \in AggregatesOf(d)
               /\ stored # Nothing => \A d \in Positions : stored[d] \in AggregatesOf(d)
               /\ returned # Nothing => \A d \in Positions : returned[d] \in AggregatesOf(d)
    BY <1>1, <1>9 DEF AggregatesOfLedger
  <2>1. Undisturbed /\ lost = {}
    BY <1>3, <1>6 DEF Undisturbed, FinalTypeOK
  <2>2. aggregated \in AggregatesOf(c)
    BY <1>4, <2>1 DEF AggregatesOf
  <2> QED
    BY <1>8, <2>1, <2>2 DEF AggregatesOfLedger
<1> QED
  BY <1>10, <1>11, <1>12, <1>13

\* What is uploaded are the aggregates of all CVs.
LEMMA UploadKeeps ==
  ASSUME AInv, FInv, UploadResult
  PROVE  AInv'
<1> USE DEF AInv
<1>1. /\ exec = "running" /\ exec' = "uploaded" /\ Len(blocks) = Len(CvApps)
      /\ stored' = blocks /\ final # "none" /\ final' # "none"
      /\ UNCHANGED <<collected, artifact, blocks, returned, executions, disturbances>>
  BY DEF UploadResult, FInv
<1>2. /\ blocks \in [Positions -> AggregateDocs] /\ DOMAIN blocks = Positions
      /\ blocks # Nothing
  <2>1. blocks \in Seq(AggregateDocs) /\ Len(CvApps) \in Nat /\ Len(CvApps) >= 1
    BY CvsAssumption DEF FinalTypeOK
  <2> QED
    BY <1>1, <2>1 DEF Positions, Nothing
<1>3. FinalTypeOK'
  BY <1>1, <1>2 DEF FinalTypeOK
<1>4. ExecutionShape'
  BY <1>1, <1>2 DEF ExecutionShape
<1>5. CountsOfLedger' /\ AggregatesOfLedger'
  BY <1>1, <1>2, LedgerKept DEF CountsOfLedger, AggregatesOfLedger, Undisturbed
<1> QED
  BY <1>3, <1>4, <1>5

\* What is returned first is what is stored then.
LEMMA ReportKeeps ==
  ASSUME AInv, ReportResult
  PROVE  AInv'
<1> USE DEF AInv
<1>1. /\ exec = "uploaded" /\ exec' = "none" /\ blocks' = <<>> /\ stored = blocks
      /\ returned' = returned \/ returned' = stored
      /\ UNCHANGED <<collected, final, artifact, stored, executions, disturbances>>
  BY DEF ReportResult, vars, ownVars, ExecutionShape
<1>2. stored # Nothing
  <2>1. Len(stored) >= 1
    BY <1>1, CvsAssumption DEF ExecutionShape
  <2> QED
    BY <2>1 DEF Nothing
<1>3. FinalTypeOK'
  BY <1>1 DEF FinalTypeOK
<1>4. ExecutionShape'
  BY <1>1, <1>2, CvsAssumption DEF ExecutionShape
<1>5. CountsOfLedger' /\ AggregatesOfLedger'
  BY <1>1, <1>2, LedgerKept DEF CountsOfLedger, AggregatesOfLedger, Undisturbed
<1> QED
  BY <1>3, <1>4, <1>5

\* An execution that ends without a result leaves nothing behind.
LEMMA LostKeeps ==
  ASSUME AInv, FInv, ReportFailure \/ ExecutionLost
  PROVE  AInv'
<1> USE DEF AInv
<1>1. /\ exec' = "none" /\ blocks' = <<>> /\ (final # "none" => final' # "none")
      /\ UNCHANGED <<collected, artifact, stored, returned, executions, disturbances>>
  BY DEF ReportFailure, ExecutionLost, vars, ownVars
<1>2. FinalTypeOK'
  BY <1>1 DEF FinalTypeOK
<1>3. ExecutionShape'
  BY <1>1, CvsAssumption DEF ExecutionShape
<1>4. CountsOfLedger' /\ AggregatesOfLedger'
  BY <1>1, LedgerKept DEF CountsOfLedger, AggregatesOfLedger, Undisturbed
<1> QED
  BY <1>2, <1>3, <1>4

\* Results are taken before there is anything to aggregate.
LEMMA CollectKeeps ==
  ASSUME TypeOK, AInv, FInv, NEW r \in Runs, CollectOutput(r)
  PROVE  AInv'
<1> USE DEF AInv
<1>1. /\ final = "none" /\ final' = "none"
      /\ UNCHANGED <<execVars, disturbances>>
  BY DEF CollectOutput, Collect, FInv, Ended
<1>2. /\ exec = "none" /\ blocks = <<>> /\ stored = Nothing /\ returned = Nothing
      /\ UNCHANGED <<exec, blocks, stored, returned, executions>>
  BY <1>1 DEF FInv, ExecutionShape, execVars
<1>3. PICK o \in Outputs \cup {NoOutput}, s \in Statuses :
         /\ artifact' = [artifact EXCEPT ![r] = Append(@, o)]
         /\ collected' = [collected EXCEPT ![r] = Append(@, s)]
  <2>1. raised[r][Len(collected[r]) + 1] \in Statuses
    BY DEF CollectOutput, Collect, TypeOK
  <2> QED
    BY <2>1 DEF CollectOutput, Collect
<1>4. FinalTypeOK'
  <2>1. /\ artifact' \in [Runs -> Seq(Outputs \cup {NoOutput})]
        /\ \A q \in Runs : Len(artifact'[q]) = Len(collected'[q])
    BY <1>3 DEF TypeOK, FinalTypeOK
  <2> QED
    BY <1>1, <1>2, <2>1 DEF FinalTypeOK
<1>5. ExecutionShape' /\ CountsOfLedger' /\ AggregatesOfLedger'
  BY <1>1, <1>2 DEF ExecutionShape, CountsOfLedger, AggregatesOfLedger
<1> QED
  BY <1>4, <1>5

\* An artifact written again counts as a disturbance.
LEMMA RewriteKeeps ==
  ASSUME TypeOK, AInv, NEW r \in Runs, NEW k \in DOMAIN collected[r], Rewrite(r, k)
  PROVE  AInv'
<1> USE DEF AInv
<1>1. /\ disturbances' = disturbances + 1 /\ disturbances < MaxDisturbances
      /\ UNCHANGED <<collected, final, exec, blocks, stored, returned, executions>>
  BY DEF Rewrite, vars, ownVars, execVars
<1>2. PICK o \in Outputs : artifact' = [artifact EXCEPT ![r][k] = o]
  BY DEF Rewrite
<1>3. FinalTypeOK'
  <2>1. /\ artifact[r] \in Seq(Outputs \cup {NoOutput}) /\ k \in 1 .. Len(artifact[r])
    BY DEF TypeOK, FinalTypeOK
  <2>2. /\ [artifact[r] EXCEPT ![k] = o] \in Seq(Outputs \cup {NoOutput})
        /\ Len([artifact[r] EXCEPT ![k] = o]) = Len(artifact[r])
    BY <2>1
  <2>3. /\ artifact' \in [Runs -> Seq(Outputs \cup {NoOutput})]
        /\ \A q \in Runs : Len(artifact'[q]) = Len(artifact[q])
    BY <1>2, <2>2 DEF FinalTypeOK
  <2>4. disturbances' \in 0 .. MaxDisturbances /\ disturbances' # 0
    BY <1>1, ExecutionsAssumption DEF FinalTypeOK
  <2> QED
    BY <1>1, <2>3, <2>4 DEF FinalTypeOK
<1>4. ExecutionShape' /\ CountsOfLedger'
  BY <1>1, LedgerKept DEF ExecutionShape, CountsOfLedger
<1>5. AggregatesOfLedger'
  <2>1. disturbances' # 0
    BY <1>1 DEF FinalTypeOK
  <2> QED
    BY <2>1 DEF AggregatesOfLedger, Undisturbed
<1> QED
  BY <1>3, <1>4, <1>5

\* Every step preserves the invariant.
LEMMA AInvIsInductive == TypeOK /\ FInv /\ AInv /\ [FinalNext]_finalVars => AInv'
<1> SUFFICES ASSUME TypeOK, FInv, AInv, [FinalNext]_finalVars PROVE AInv'
  OBVIOUS
<1>1. CASE BeginFinalize
  <2>1. executions' \in 0 .. MaxExecutions
    BY <1>1, ExecutionsAssumption DEF BeginFinalize, AInv, FinalTypeOK
  <2> QED
    BY <1>1, <2>1, AggregatesKept DEF BeginFinalize, vars, ownVars
<1>2. CASE AggregateNext
  BY <1>2, AggregateNextKeeps
<1>3. CASE UploadResult
  BY <1>3, UploadKeeps
<1>4. CASE ReportResult
  BY <1>4, ReportKeeps
<1>5. CASE ReportFailure \/ ExecutionLost
  BY <1>5, LostKeeps
<1>6. ASSUME NEW r \in Runs, CollectOutput(r) PROVE AInv'
  BY <1>6, CollectKeeps
<1>7. ASSUME NEW r \in Runs, NEW k \in DOMAIN collected[r], Rewrite(r, k) PROVE AInv'
  BY <1>7, RewriteKeeps
<1>8. CASE AfterReport
  BY <1>8, AggregatesKept DEF AfterReport, AfterFinalize, execVars
<1>9. CASE OrchestratorAdvances /\ UNCHANGED <<artifact, execVars, disturbances>>
  <2>1. collected' = collected /\ (final # "none" => final' # "none")
    <3>1. CASE AfterRunEvent \/ AfterAppEvent
      BY <3>1 DEF AfterRunEvent, AfterAppEvent, ContinueLoop
    <3>2. CASE ~(AfterRunEvent \/ AfterAppEvent)
      BY <1>9, <3>2
         DEF OrchestratorAdvances, StagePrompt, Announce, StartCollecting, Complete,
             StageFails, DispatchAdvances, DispatchFaults, WriteIndex, SendRun,
             ReportDispatch, RestartDispatch, DispatchFails, Environment, ReceiveEvent,
             TakeRun, Terminate, ownVars
    <3> QED
      BY <3>1, <3>2
  <2> QED
    BY <1>9, <2>1, AggregatesKept DEF execVars
<1>10. CASE UNCHANGED finalVars
  BY <1>10, AggregatesKept DEF finalVars, vars, ownVars, execVars
<1> QED
  BY <1>1, <1>2, <1>3, <1>4, <1>5, <1>6, <1>7, <1>8, <1>9, <1>10 DEF FinalNext, FinalizeStep

-----------------------------------------------------------------------------
(* The theorems.                                                           *)

\* The invariant holds of every execution.
THEOREM AggregatesInvariant == FinalSpec => [](TypeOK /\ AInv)
<1>1. FinalSpec => []TypeOK
  BY FinalizationRefines, OrchestratorTypeOK, PTL DEF ImplementsOrchestrator
<1>2. FinalSpec => []FInv
  BY FInvInit, FInvIsInductive, PTL DEF FinalSpec
<1> QED
  BY <1>1, <1>2, AInvInit, AInvIsInductive, PTL DEF FinalSpec

\* Type correctness: as many artifacts as results, aggregates of all CVs or none.
THEOREM FinalTypeOKHolds == FinalSpec => []FinalTypeOK
<1>1. AInv => FinalTypeOK
  BY DEF AInv
<1> QED
  BY <1>1, AggregatesInvariant, PTL

\* _aggregate: the median of the scores, the most frequent decision and the
\* conjunction of the must-haves of the succeeded runs in the ledger that give a
\* signal, for any number of runs, and no more runs than succeeded where reads
\* are lost.
THEOREM AggregateIsOfLedgerHolds == FinalSpec => []AggregateIsOfLedger
<1>1. TypeOK /\ AInv => AggregateIsOfLedger
  <2> SUFFICES ASSUME TypeOK, AInv, NEW c \in DOMAIN blocks
               PROVE  LET n == Cardinality(Scored(c))
                          block == blocks[c]
                      IN  /\ block.runsCount <= Cardinality(Succeeded(c))
                          /\ Undisturbed =>
                               /\ block.runsCount = Cardinality(Evidence(c))
                               /\ (block = NoAggregate) <=> (Evidence(c) = {})
                               /\ (block.finalScore = NoScore) <=> (n = 0)
                               /\ n > 0 =>
                                     \E x, y \in Scored(c) :
                                         /\ IsNthScore(c, ScoreAt(c, x), (n + 1) \div 2)
                                         /\ IsNthScore(c, ScoreAt(c, y), n \div 2 + 1)
                                         /\ block.finalScore = ScoreAt(c, x) + ScoreAt(c, y)
                               /\ Evidence(c) # {} =>
                                     /\ block.mustHaveResult =
                                           ~\E x \in Evidence(c) : ~MustAllMet(ArtifactOf(c, x))
                                     /\ \A d \in Decisions :
                                            Deciding(c, d) <= Deciding(c, block.finalDecision)
    BY DEF AggregateIsOfLedger
  <2>1. Typed /\ c \in Positions
    <3>1. /\ Typed /\ blocks \in Seq(AggregateDocs) /\ Len(blocks) <= Len(CvApps)
          /\ Len(CvApps) \in Nat
      BY CvsAssumption DEF TypeOK, AInv, FinalTypeOK, ExecutionShape, Typed
    <3> QED
      BY <3>1 DEF Positions
  <2>2. blocks[c].runsCount <= Cardinality(Succeeded(c))
    BY DEF AInv, CountsOfLedger
  <2>3. Undisturbed => blocks[c] \in AggregatesOf(c)
    BY DEF AInv, AggregatesOfLedger
  <2> QED
    BY <2>1, <2>2, <2>3, AggregateOfLedger
<1> QED
  BY <1>1, AggregatesInvariant, PTL

\* finalize_batch: what the instance returned and what result.json holds agree,
\* however often the activity is executed, as long as no read is lost, no artifact
\* is written again and no CV is tied.
THEOREM HandoffAgreesHolds == FinalSpec => []HandoffAgrees
<1>1. TypeOK /\ AInv => HandoffAgrees
  <2> SUFFICES ASSUME TypeOK, AInv, returned # Nothing, Undisturbed,
                      ~(\E c \in Positions : Tied(c))
               PROVE  stored = returned
    BY DEF HandoffAgrees
  <2>1. Typed
    BY DEF TypeOK, AInv, FinalTypeOK, Typed
  <2>2. stored # Nothing
    BY DEF AInv, ExecutionShape
  <2>3. stored \in [Positions -> AggregateDocs] /\ returned \in [Positions -> AggregateDocs]
    BY <2>2 DEF AInv, FinalTypeOK
  <2>4. \A c \in Positions : stored[c] \in AggregatesOf(c) /\ returned[c] \in AggregatesOf(c)
    BY <2>2 DEF AInv, AggregatesOfLedger
  <2>5. \A c \in Positions : stored[c] = returned[c]
    BY <2>1, <2>4, OneAggregate
  <2> QED
    BY <2>3, <2>5
<1> QED
  BY <1>1, AggregatesInvariant, PTL
=============================================================================
