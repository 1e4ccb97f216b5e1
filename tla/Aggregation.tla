----------------------------- MODULE Aggregation -----------------------------
(***************************************************************************)
(* runtime/aggregation/shared.py, profile cv_scoring_v1: the outcome of    *)
(* one CV from the output.json documents of its runs.  Pure operators.     *)
(*                                                                         *)
(* A document keeps what the aggregation looks at: whether a score is      *)
(* there, whether the decision is one of the words the code knows, whether *)
(* all its must-haves are met.  Alternative spellings of a field (score,   *)
(* composite_score.value; must_have_results, the eligibility checklist)    *)
(* are the field.  Scores are whole numbers, a median is given doubled,    *)
(* and the variance is left out.                                           *)
(***************************************************************************)
EXTENDS Integers, FiniteSets, Functions

NoScore == -1     \* no score in the document
TextScore == -2   \* a score that is not a number

OutputDocs ==
    [score : Nat \cup {NoScore, TextScore},
     decision : {"positive", "negative", "other", "none"},
     mustHaves : {"met", "unmet", "none"},
     status : {"insufficient", "other", "none"}]

Decisions == {"Approve", "Reject"}

-----------------------------------------------------------------------------
(* _extract_cv_signal                                                      *)

\* A document with none of the fields gives no signal and counts for nothing.
HasSignal(o) ==
    \/ o.score # NoScore
    \/ o.mustHaves # "none"
    \/ o.decision # "none"
    \/ o.status # "none"

\* "insufficient data" without a score is a score of nought.
ScoreOf(o) ==
    IF o.score = NoScore /\ o.status = "insufficient" THEN 0 ELSE o.score

\* must_all_met: by the must-haves, or else by the decision.
MustAllMet(o) ==
    IF o.mustHaves # "none" THEN o.mustHaves = "met" ELSE o.decision = "positive"

\* The stated decision, or else Approve if all must-haves are met.
DecisionOf(o) ==
    CASE o.decision = "positive" -> "Approve"
      [] o.decision = "negative" -> "Reject"
      [] OTHER -> IF MustAllMet(o) THEN "Approve" ELSE "Reject"

-----------------------------------------------------------------------------
(* _aggregate_cv_scoring                                                   *)

NoAggregate ==
    [finalScore |-> NoScore, finalDecision |-> "none", mustHaveResult |-> FALSE,
     runsCount |-> 0]

AggregateDocs ==
    [finalScore : Nat \cup {NoScore}, finalDecision : Decisions \cup {"none"},
     mustHaveResult : BOOLEAN, runsCount : Nat]

\* The outputs of a CV are a family of documents: whose each one is does not
\* matter, nor their order.  parsed: those that give a signal.
Parsed(outputs) == {x \in DOMAIN outputs : HasSignal(outputs[x])}

\* scores: the numbers among their scores.
Scores(outputs) ==
    [x \in {y \in Parsed(outputs) : ScoreOf(outputs[y]) >= 0} |-> ScoreOf(outputs[x])]

\* decisions.count
Frequency(outputs, d) == Cardinality({x \in Parsed(outputs) : DecisionOf(outputs[x]) = d})

\* Variant: the middle of the scores as they come.
MedianUnsorted(scores) ==
    LET n == Cardinality(DOMAIN scores)
        order == CHOOSE f \in Bijection(1 .. n, DOMAIN scores) : TRUE
    IN  scores[order[(n + 1) \div 2]] + scores[order[n \div 2 + 1]]

\* statistics.median, doubled: the middle of the sorted scores.
Ascending(scores) ==
    LET n == Cardinality(DOMAIN scores)
    IN  {f \in Bijection(1 .. n, DOMAIN scores) :
            \A i, j \in 1 .. n : i < j => scores[f[i]] <= scores[f[j]]}

Median(scores) ==
    LET n == Cardinality(DOMAIN scores)
        sorted == CHOOSE f \in Ascending(scores) : TRUE
    IN  scores[sorted[(n + 1) \div 2]] + scores[sorted[n \div 2 + 1]]

\* The aggregates the code may compute: "max(set(decisions), key=count)" takes
\* any of the most frequent decisions, whichever the set happens to list first.
AggregateCvScoring(outputs) ==
    IF Parsed(outputs) = {} THEN {NoAggregate}
    ELSE {[finalScore |-> IF Scores(outputs) = <<>> THEN NoScore ELSE Median(Scores(outputs)),
           finalDecision |-> d,
           mustHaveResult |-> \A x \in Parsed(outputs) : MustAllMet(outputs[x]),
           runsCount |-> Cardinality(Parsed(outputs))] :
          d \in {e \in Decisions :
                    \A f \in Decisions : Frequency(outputs, f) <= Frequency(outputs, e)}}
=============================================================================
