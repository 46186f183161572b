------------------------------ MODULE Scoring ------------------------------
(***************************************************************************)
(* crates/scoring: the score of a set of triggers and its severity band.   *)
(*                                                                         *)
(* The code computes with f64; here a score is an integer in units of      *)
(* 1/Scale, from 1/sqrt(rank) rounded to four digits.                      *)
(***************************************************************************)
EXTENDS Selection

Severity == {"low", "medium", "high", "critical"}

Scale == 10000

\* ScoringWeights::default
weight_for(severity) ==
    CASE severity = "low" -> 1
      [] severity = "medium" -> 3
      [] severity = "high" -> 6
      [] severity = "critical" -> 12

\* Scale / sqrt(rank), for at most ten triggers: there are ten rules.
InverseSqrt ==
    <<10000, 7071, 5774, 5000, 4472, 4082, 3780, 3536, 3333, 3162>>

\* The weight at a rank when the triggers are sorted, heaviest first.
WeightAtRank(triggers, rank) ==
    LET heavier(w) == {t \in triggers : weight_for(t.severity) > w}
        asHeavy(w) == {t \in triggers : weight_for(t.severity) >= w}
    IN  CHOOSE w \in {weight_for(s) : s \in Severity} :
          Cardinality(heavier(w)) < rank /\ rank <= Cardinality(asHeavy(w))

\* Each weight, discounted by its rank.
Discounted(triggers) ==
    [rank \in 1..Cardinality(triggers) |->
       WeightAtRank(triggers, rank) * InverseSqrt[rank]]

\* Mutant: the score is relative to as many critical triggers as there are
\* triggers.
compute_score_relative(triggers) ==
    LET n == Cardinality(triggers)
    IN  IF n = 0 THEN 0 ELSE (Total(Discounted(triggers)) * 25) \div (3 * n)

\* raw / (3 * critical) * 100, at most 100.
compute_score(triggers) ==
    LET score == (Total(Discounted(triggers)) * 25) \div 9
    IN  IF score < 100 * Scale THEN score ELSE 100 * Scale

severity_for_score(score) ==
    IF score >= 75 * Scale THEN "critical"
    ELSE IF score >= 45 * Scale THEN "high"
    ELSE IF score >= 20 * Scale THEN "medium"
    ELSE "low"

=============================================================================
