------------------------------ MODULE Scoring ------------------------------
(***************************************************************************)
(* The Pet Fit Score (app/ai/score_generator.py).  The code computes in    *)
(* floats and rounds half up; the fractions here are exact.                *)
(***************************************************************************)
EXTENDS Rules, Rounding, Functions

\* The items of a category that count in a space and can be rated.
Rated(category, space, penalty) ==
    {i \in Applicable[space] \cap DOMAIN penalty : CategoryOf[i] = category}

\* 100 * (1 - numerator / denominator), 100 when there is nothing to rate.
CategoryScore(category, group, space, names, occupancy) ==
    LET penalty == Penalty(names, occupancy)
        rows == Rated(category, space, penalty)
        denominator == SumFunction([i \in rows |-> Weight[i][group]])
        numerator == SumFunction([i \in rows |-> Weight[i][group] * penalty[i]])
    IN IF rows = {} THEN 100
       ELSE RoundHalfUp(100 * denominator - numerator, denominator)

Generate(group, space, names, occupancy) ==
    LET Score(c) == CategoryScore(c, group, space, names, occupancy)
    IN [total |-> RoundHalfUp(SumFunction([c \in Categories |-> Score(c) * Share[c]]), 100),
        safety |-> Score("safety"), activity |-> Score("activity"),
        rest |-> Score("rest"), environment |-> Score("environment")]
=============================================================================
