----------------------------- MODULE RiskPolicy -----------------------------
(***************************************************************************)
(* The expected demand not served (app/policy/edns_metrics.py), and the    *)
(* MAMA gates on a request that reports it.  A node measures its network   *)
(* again and again; each time the score is computed and classified, and    *)
(* the gates judge it together with the request's other metrics.  Nothing  *)
(* in the server calls the calculator: the score a request carries is the  *)
(* node's own, and here the node computes it with the calculator.          *)
(*                                                                         *)
(* The inputs are unchecked and may lie outside [0, 1]; here they are      *)
(* numbers, while a metric of the request may be NaN.  Ratios are in       *)
(* hundredths and weights too, so a weighted sum is in ten-thousandths.    *)
(***************************************************************************)
EXTENDS MamaGate

CONSTANTS
    Level,      \* the values each input of the score may take
    Index,      \* the values of capability_effectiveness_index
    Impact      \* the values of the other metrics of a request

EDNSInput ==
    [current_capacity_utilization : Level, projected_demand_increase : Level,
     sla_breach_risk : Level, historical_sla_compliance : Level,
     network_congestion_index : Level]

Request ==
    [capability_effectiveness_index : Index, projected_demand_not_served : Impact,
     throughput_impact : Impact, sla_penalty_exposure : Impact]

\* Bound: the values are multiples of 20, which makes every weighted sum a whole
\* number of hundredths.
ASSUME LevelAssumption ==
    /\ \A v \in Level : v \in Int /\ v % 20 = 0
    /\ Index \subseteq Metric /\ Impact \subseteq Metric

VARIABLES
    input,      \* the last EDNSInput
    cei,        \* the CEIMetrics of the request
    edns,       \* what compute returned, in hundredths
    risk,       \* what classify_risk made of it
    verdict     \* what the gates made of the request

vars == <<input, cei, edns, risk, verdict>>

AtMostOne(ratio) == IF ratio < 100 THEN ratio ELSE 100

Clamp(score) == IF score < 0 THEN 0 ELSE AtMostOne(score)

\* Mutants: the compliance counts instead of its deficit; the sum is not clamped.
ComputeCompliance(i) ==
    Clamp((35 * AtMostOne(i.current_capacity_utilization + i.projected_demand_increase)
            + 25 * AtMostOne(i.projected_demand_increase)
            + 20 * AtMostOne(i.sla_breach_risk)
            + 10 * AtMostOne(i.historical_sla_compliance)
            + 10 * AtMostOne(i.network_congestion_index)) \div 100)
ComputeUnclamped(i) ==
    (35 * AtMostOne(i.current_capacity_utilization + i.projected_demand_increase)
      + 25 * AtMostOne(i.projected_demand_increase)
      + 20 * AtMostOne(i.sla_breach_risk)
      + 10 * AtMostOne(100 - i.historical_sla_compliance)
      + 10 * AtMostOne(i.network_congestion_index)) \div 100

\* Each component is cut at one from above, their weighted sum on both sides.
Compute(i) ==
    Clamp((35 * AtMostOne(i.current_capacity_utilization + i.projected_demand_increase)
            + 25 * AtMostOne(i.projected_demand_increase)
            + 20 * AtMostOne(i.sla_breach_risk)
            + 10 * AtMostOne(100 - i.historical_sla_compliance)
            + 10 * AtMostOne(i.network_congestion_index)) \div 100)

\* The classes a score can get: two where it ties with a threshold, as the rounding
\* of compute may leave it on either side.
Risks(score) ==
    {r \in {"low", "medium", "high", "critical"} :
        \/ r = "low" /\ score <= 25
        \/ r = "medium" /\ 25 <= score /\ score <= 50
        \/ r = "high" /\ 50 <= score /\ score <= 75
        \/ r = "critical" /\ 75 <= score}

Judge ==
    /\ edns' = Compute(input')
    /\ risk' \in Risks(edns')
    /\ verdict' \in GateVerdicts(edns', cei')

Init ==
    /\ input \in EDNSInput /\ cei \in Request
    /\ edns = Compute(input)
    /\ risk \in Risks(edns)
    /\ verdict \in GateVerdicts(edns, cei)

\* One input of the score, or one metric of the request, is measured anew.
Remeasure ==
    /\ \E f \in DOMAIN input, v \in Level : input' = [input EXCEPT ![f] = v]
    /\ UNCHANGED cei
    /\ Judge

Reassess ==
    /\ cei' \in {[cei EXCEPT !.capability_effectiveness_index = v] : v \in Index}
         \cup {[cei EXCEPT ![f] = v] :
                 f \in DOMAIN cei \ {"capability_effectiveness_index"}, v \in Impact}
    /\ UNCHANGED input
    /\ Judge

Next == Remeasure \/ Reassess

Spec == Init /\ [][Next]_vars
-----------------------------------------------------------------------------
\* Every variable has its type; the score is a ratio whatever the inputs are, and
\* classify_risk has an answer for it.
TypeOK ==
    /\ input \in EDNSInput /\ cei \in Request
    /\ edns \in Ratio
    /\ risk \in {"low", "medium", "high", "critical"}
    /\ verdict \in {"passed", "sla_penalty_exposure_exceeded", "max_throughput_deviation",
                    "funding_threshold_exceeded", "safety_gate_triggered",
                    "negative_value_realization"}

WorseInput(i, j) ==
    /\ i.current_capacity_utilization <= j.current_capacity_utilization
    /\ i.projected_demand_increase <= j.projected_demand_increase
    /\ i.sla_breach_risk <= j.sla_breach_risk
    /\ i.historical_sla_compliance >= j.historical_sla_compliance
    /\ i.network_congestion_index <= j.network_congestion_index

\* Metrics in order: NaN is comparable with itself only.
Ordered(a, b) == a = b \/ (NaN \notin {a, b} /\ a <= b)

WorseRequest(c, d) ==
    /\ Ordered(d.capability_effectiveness_index, c.capability_effectiveness_index)
    /\ Ordered(c.projected_demand_not_served, d.projected_demand_not_served)
    /\ Ordered(c.throughput_impact, d.throughput_impact)
    /\ Ordered(c.sla_penalty_exposure, d.sla_penalty_exposure)

\* compute: a network that is worse in any respect, and better in none, never has a
\* lower score, through every clamp and wherever the inputs lie.
EdnsMonotone == [][WorseInput(input, input') => edns' >= edns]_vars

Ties ==
    \/ FundingScore(cei) = Config.min_funding_ratio
    \/ SafetyScore(edns, cei) = 100 * Config.min_safety_score
    \/ ValueScore(cei) = Config.min_value_realization

\* The gates taken together: a refused request is not admitted for a worse network or
\* for worse metrics, unless the rounding at a threshold decided.
NoRewardForWorse ==
    [][WorseInput(input, input') /\ WorseRequest(cei, cei') /\ verdict' = "passed"
         => verdict = "passed" \/ Ties]_vars

\* The safety gate's default threshold and classify_risk's lowest are two constants of
\* two files: a request the gates admit is a low risk, or is at the tie of the two, unless
\* its effectiveness index is NaN, on which neither the safety nor the value gate refuses.
AdmittedIsLowRisk ==
    verdict = "passed" =>
        \/ risk = "low" \/ edns = 25
        \/ cei.capability_effectiveness_index = NaN

\* With the default configuration the ratio test of the funding gate never decides:
\* the two limits tested before it leave at least 80 hundredths.
FundingRatioNeverDecides == verdict # "funding_threshold_exceeded"
=============================================================================
