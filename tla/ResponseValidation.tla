------------------------- MODULE ResponseValidation -------------------------
(***************************************************************************)
(* What becomes of the model's text (app/ai/validation.py).                *)
(*                                                                         *)
(* An answer is the text as its JSON reads: form says how the JSON object  *)
(* sits in it.  A text of an item is its words, its spacing and the names  *)
(* of objects it contains, or None when it is no object, or has no text.   *)
(* Any other field that is missing or undefined is None, a priority that   *)
(* is no integer from 1 on is 0.                                           *)
(***************************************************************************)
EXTENDS Integers, Lists

CONSTANTS
    MaxRiskFactors, MinAnalysis, MaxAnalysis, MinRecommendations, MaxRecommendations

ASSUME LimitsAssumption ==
    /\ {MaxRiskFactors, MinAnalysis, MaxAnalysis} \subseteq Nat \ {0}
    /\ {MinRecommendations, MaxRecommendations} \subseteq Nat \ {0}
    /\ MinAnalysis <= MaxAnalysis /\ MinRecommendations <= MaxRecommendations

Fields == {"riskFactors", "analysis", "recommendations"}

Cut(s, n) == SubSeq(s, 1, IF Len(s) <= n THEN Len(s) ELSE n)

\* _parse: repaired when the JSON object is fenced or stands between sentences.
ParseRepairs(answer) ==
    CASE answer.form = "fenced" -> {"STRIPPED_FENCE"}
      [] answer.form = "embedded" -> {"EXTRACTED_OBJECT"}
      [] OTHER -> {}

FactorFault(factor) ==
    CASE factor.text = None -> "BAD_SHAPE"
      [] factor.text # None /\ factor.source = None -> "BAD_SOURCE"
      [] OTHER -> None

SentenceFault(text) == IF text = None THEN "BAD_SHAPE" ELSE None

RecommendationFault(item) ==
    CASE item.text = None -> "BAD_SHAPE"
      [] item.text # None /\ item.type = None -> "BAD_TYPE"
      [] item.text # None /\ item.type # None /\ item.source = None -> "BAD_SOURCE"
      [] OTHER -> None

FirstOf(faults) == LET found == Filter(faults, LAMBDA f : f # None)
                   IN IF found = <<>> THEN None ELSE found[1]

FaultIn(items, Fault(_)) == FirstOf([k \in DOMAIN items |-> Fault(items[k])])

\* The reason why an answer is rejected, the first one in the order of validate.
Rejection(answer) ==
    LET Because(fault, reason) == IF fault THEN reason ELSE None
        readable == answer.form # "broken"
        complete == readable /\ Fields \subseteq answer.fields
        listed == complete /\ answer.lists
    IN IF ~listed
       THEN FirstOf(<<Because(~readable, "NOT_JSON"), Because(~complete, "MISSING_FIELD"),
                      "BAD_SHAPE">>)
       ELSE FirstOf(<<FaultIn(answer.riskFactors, FactorFault),
                      FaultIn(answer.analysis, SentenceFault),
                      FaultIn(answer.recommendations, RecommendationFault),
                      Because(Len(answer.analysis) < MinAnalysis, "TOO_FEW_ANALYSIS"),
                      Because(Len(answer.recommendations) < MinRecommendations,
                              "NO_RECOMMENDATION")>>)
-----------------------------------------------------------------------------
\* _verify_detected: a text that names no detected object is no detection.
Ungrounded(factor, names) ==
    factor.source = "DETECTED" /\ factor.text.names \cap names = {}

Verified(factors, names) ==
    [k \in DOMAIN factors |->
        IF Ungrounded(factors[k], names) THEN [factors[k] EXCEPT !.source = "OBSERVED"]
        ELSE factors[k]]

\* Texts that differ in their spacing only are one.
Unique(factors) == FirstOfEach(factors, LAMBDA f : f.text.words)

\* Mutant: a duplicate takes a place.
RiskFactorsCutFirst(factors, names) == Unique(Cut(Verified(factors, names), MaxRiskFactors))

\* Duplicates go first, so that they take no other factor's place.
RiskFactors(factors, names) == Cut(Unique(Verified(factors, names)), MaxRiskFactors)

\* A priority that cannot be used is the place in the list.
Placed(items) ==
    [k \in DOMAIN items |->
        [items[k] EXCEPT !.priority = IF @ >= 1 THEN @ ELSE k]]

Ordered(items) ==
    Cut(SortedBy(Placed(items), LAMBDA r : <<r.priority>>), MaxRecommendations)

\* Mutant: the priorities as the model gave them.
RecommendationsAsGiven(items) == Ordered(items)

\* UNIQUE (analysis_id, priority): priorities are given anew.
Recommendations(items) ==
    LET ordered == Ordered(items)
    IN [k \in DOMAIN ordered |-> [ordered[k] EXCEPT !.priority = k]]

Repairs(answer, names) ==
    LET When(fault, repair) == IF fault THEN {repair} ELSE {}
        factors == answer.riskFactors
        items == answer.recommendations
        ordered == Ordered(items)
    IN ParseRepairs(answer)
       \cup When("petFitScore" \in answer.fields, "IGNORED_SCORE")
       \cup When(\E k \in DOMAIN factors : Ungrounded(factors[k], names), "DEMOTED_TO_OBSERVED")
       \cup When(Len(Unique(factors)) < Len(factors), "DEDUPED_RISK_FACTORS")
       \cup When(Len(Unique(factors)) > MaxRiskFactors, "TRUNCATED_RISK_FACTORS")
       \cup When(Len(answer.analysis) > MaxAnalysis, "TRUNCATED_ANALYSIS")
       \cup When(Len(items) > MaxRecommendations, "TRUNCATED_RECOMMENDATIONS")
       \cup When(\/ \E k \in DOMAIN items : items[k].priority < 1
                 \/ \E k \in DOMAIN ordered : ordered[k].priority # k, "RENUMBERED_PRIORITY")

\* ValidationResult: a reason, or what is stored and what was mended.
Validate(answer, names) ==
    IF Rejection(answer) # None
    THEN [ok |-> FALSE, rejection |-> Rejection(answer)]
    ELSE [ok |-> TRUE,
          riskFactors |-> RiskFactors(answer.riskFactors, names),
          analysis |-> Cut(answer.analysis, MaxAnalysis),
          recommendations |-> Recommendations(answer.recommendations),
          repairs |-> Repairs(answer, names)]
=============================================================================
