------------------------------ MODULE MamaGate ------------------------------
(***************************************************************************)
(* The three MAMA safety gates (nhp_server/app/policy/mama_gate.py): pure  *)
(* arithmetic on the metrics of a request, evaluated in a fixed order that *)
(* stops at the first failure.  Ratios are integers in hundredths.         *)
(*                                                                         *)
(* The code computes its composite scores in binary floating point, so a   *)
(* score that equals its threshold in exact arithmetic may round to either *)
(* side of it (0.60 - 0.50 < 0.10 is true in Python).  Clears is therefore *)
(* a set of outcomes: both where the exact score ties, one elsewhere.      *)
(*                                                                         *)
(* A metric may also be NaN, which the JSON parser reads and the bounds of *)
(* CEIMetrics let through: every comparison with NaN is false, those that  *)
(* would refuse a request like those that would pass it.                   *)
(***************************************************************************)
EXTENDS Integers

CONSTANTS
    Config,     \* MAMAConfig: the five thresholds, in hundredths
    NaN         \* the float that is no number

Ratio == 0..100

ConfigType ==
    [max_sla_penalty_exposure : Ratio, max_throughput_deviation : Ratio,
     min_funding_ratio : Ratio, min_safety_score : Ratio,
     min_value_realization : Ratio]

ASSUME ConfigAssumption == Config \in ConfigType

ASSUME NaNAssumption == NaN \notin Int

Metric == Ratio \cup {NaN}

CEIMetrics ==
    [capability_effectiveness_index : Metric, projected_demand_not_served : Metric,
     throughput_impact : Metric, sla_penalty_exposure : Metric]

\* The result of an arithmetic expression over the operands.
Computed(operands, result) == IF NaN \in operands THEN NaN ELSE result

\* "<=" between a metric and a limit.
AtMost(metric, limit) == metric # NaN /\ metric <= limit

MaxRatio(a, b) == IF a >= b THEN a ELSE b

\* The answers "not (score < threshold)" can have after rounding.
Clears(score, threshold) ==
    IF score = NaN THEN {TRUE}
    ELSE {passed \in BOOLEAN : score = threshold \/ passed = (score > threshold)}

\* Mutant: the larger loss is taken for the ratio that is left.
FundingScoreOfLoss(cei) ==
    Computed({cei.sla_penalty_exposure, cei.throughput_impact},
             MaxRatio(cei.sla_penalty_exposure, cei.throughput_impact))

\* Asked only of numbers: the two limits before it refuse NaN.
FundingScore(cei) ==
    Computed({cei.sla_penalty_exposure, cei.throughput_impact},
             100 - MaxRatio(cei.sla_penalty_exposure, cei.throughput_impact))

\* Mutants: the score counts the demand not served, not its complement; the two weights
\* are swapped.
SafetyScoreOfDemand(edns, cei) ==
    Computed({cei.capability_effectiveness_index},
             60 * edns + 40 * cei.capability_effectiveness_index)
SafetyScoreSwapped(edns, cei) ==
    Computed({cei.capability_effectiveness_index},
             40 * (100 - edns) + 60 * cei.capability_effectiveness_index)

\* 0.6 * (1 - edns) + 0.4 * cei, in ten-thousandths.
SafetyScore(edns, cei) ==
    Computed({cei.capability_effectiveness_index},
             60 * (100 - edns) + 40 * cei.capability_effectiveness_index)

ValueScore(cei) ==
    Computed({cei.capability_effectiveness_index, cei.projected_demand_not_served},
             cei.capability_effectiveness_index - cei.projected_demand_not_served)

\* Each gate: the set of verdicts it can return, "passed" or its rejection reason.
FundingGate(cei) ==
    IF ~AtMost(cei.sla_penalty_exposure, Config.max_sla_penalty_exposure)
    THEN {"sla_penalty_exposure_exceeded"}
    ELSE IF ~AtMost(cei.throughput_impact, Config.max_throughput_deviation)
    THEN {"max_throughput_deviation"}
    ELSE {IF ok THEN "passed" ELSE "funding_threshold_exceeded" :
            ok \in Clears(FundingScore(cei), Config.min_funding_ratio)}

SafetyGate(edns, cei) ==
    {IF ok THEN "passed" ELSE "safety_gate_triggered" :
        ok \in Clears(SafetyScore(edns, cei), 100 * Config.min_safety_score)}

ValueGate(cei) ==
    {IF ok THEN "passed" ELSE "negative_value_realization" :
        ok \in Clears(ValueScore(cei), Config.min_value_realization)}

\* evaluate(): the verdict is the first gate's that does not pass.
GateVerdicts(edns, cei) ==
    LET Then(gate, next) ==
            (gate \ {"passed"}) \cup (IF "passed" \in gate THEN next ELSE {})
    IN  Then(FundingGate(cei), Then(SafetyGate(edns, cei), ValueGate(cei)))
=============================================================================
