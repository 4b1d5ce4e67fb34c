---------------------------- MODULE ScoringEngine ----------------------------
(***************************************************************************)
(* The account score of a prospect (app/core/scoring_engine.py): a pure    *)
(* class that discovery and the recomputation of scores both call.         *)
(*                                                                         *)
(* The code weighs in floating point, f * (w / available); here the sum is *)
(* the exact quotient, rounded half to even as round() does.               *)
(***************************************************************************)
EXTENDS Integers, FiniteSets, FiniteSetsExt, Selection

INTENT_STRONG_BOOST == 15
MULTI_SOURCE_BONUS_PER_SOURCE == 10
MULTI_SOURCE_BONUS_MAX == 30

(* A factor that has no data.                                              *)
Missing == -1

Least(m, n) == IF m < n THEN m ELSE n

Bonus(sources) ==
    IF sources <= 1 THEN 0
    ELSE Least((sources - 1) * MULTI_SOURCE_BONUS_PER_SOURCE, MULTI_SOURCE_BONUS_MAX)

Available(factors) == {f \in DOMAIN factors : factors[f] # Missing}

(* int(round(n / d)) for n >= 0 and d > 0.                                 *)
Rounded(n, d) ==
    LET q == n \div d
        r == 2 * (n % d)
    IN  IF r < d \/ (r = d /\ q % 2 = 0) THEN q ELSE q + 1

(* _weighted_total: the weight of the missing factors is shared out.       *)
WeightedTotal(factors, weights) ==
    LET available == Total(weights, Available(factors))
        weighed == Total([f \in DOMAIN factors |-> factors[f] * weights[f]], Available(factors))
    IN  IF available = 0 THEN 0 ELSE Rounded(weighed, available)

ComputeScore(factors, weights, sources, strongIntent) ==
    LET total == Least(WeightedTotal(factors, weights) + Bonus(sources), 100) IN
    IF strongIntent THEN Least(total + INTENT_STRONG_BOOST, 100) ELSE total

Tier(score) ==
    IF score >= 75 THEN "A" ELSE IF score >= 50 THEN "B" ELSE IF score >= 25 THEN "C" ELSE "D"
=============================================================================
