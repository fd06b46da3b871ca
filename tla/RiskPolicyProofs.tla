-------------------------- MODULE RiskPolicyProofs --------------------------
(***************************************************************************)
(* Theorems about the score and the gates.  The score and what is made of  *)
(* it are functions of the inputs, so the invariant is that the variables  *)
(* hold those functions' values; the rest is arithmetic on one state, or   *)
(* on the two states of a step.                                            *)
(***************************************************************************)
EXTENDS RiskPolicy, TLAPS

\* The variables hold what the code computes from the inputs.
Judged ==
    /\ input \in EDNSInput /\ cei \in Request
    /\ edns = Compute(input)
    /\ risk \in Risks(edns)
    /\ verdict \in GateVerdicts(edns, cei)

\* compute's weighted sum, before it is cut.
Weighted(i) ==
    35 * AtMostOne(i.current_capacity_utilization + i.projected_demand_increase)
      + 25 * AtMostOne(i.projected_demand_increase)
      + 20 * AtMostOne(i.sla_breach_risk)
      + 10 * AtMostOne(100 - i.historical_sla_compliance)
      + 10 * AtMostOne(i.network_congestion_index)

\* Cutting at one keeps the order.
LEMMA AtMostOneMonotone ==
    ASSUME NEW a \in Int, NEW b \in Int, a <= b
    PROVE  AtMostOne(a) \in Int /\ AtMostOne(b) \in Int /\ AtMostOne(a) <= AtMostOne(b)
BY DEF AtMostOne

\* So does cutting on both sides, and it leaves a ratio.
LEMMA ClampMonotone ==
    ASSUME NEW a \in Int, NEW b \in Int, a <= b
    PROVE  Clamp(a) \in Ratio /\ Clamp(a) <= Clamp(b)
BY DEF Clamp, AtMostOne, Ratio

\* The inputs of the score are integers.
LEMMA InputsAreIntegers ==
    ASSUME NEW i \in EDNSInput
    PROVE  /\ i.current_capacity_utilization \in Int
           /\ i.projected_demand_increase \in Int
           /\ i.sla_breach_risk \in Int
           /\ i.historical_sla_compliance \in Int
           /\ i.network_congestion_index \in Int
BY LevelAssumption DEF EDNSInput

\* compute keeps the order of the inputs, the compliance reversed.
LEMMA ComputeMonotone ==
    ASSUME NEW i \in EDNSInput, NEW j \in EDNSInput, WorseInput(i, j)
    PROVE  Compute(i) <= Compute(j)
<1>1. /\ Weighted(i) \in Int /\ Weighted(j) \in Int
      /\ Weighted(i) <= Weighted(j)
  <2> DEFINE p(k) == AtMostOne(k.current_capacity_utilization + k.projected_demand_increase)
             d(k) == AtMostOne(k.projected_demand_increase)
             s(k) == AtMostOne(k.sla_breach_risk)
             h(k) == AtMostOne(100 - k.historical_sla_compliance)
             n(k) == AtMostOne(k.network_congestion_index)
  <2>1. p(i) \in Int /\ p(j) \in Int /\ p(i) <= p(j)
    BY InputsAreIntegers, AtMostOneMonotone DEF WorseInput
  <2>2. d(i) \in Int /\ d(j) \in Int /\ d(i) <= d(j)
    BY InputsAreIntegers, AtMostOneMonotone DEF WorseInput
  <2>3. s(i) \in Int /\ s(j) \in Int /\ s(i) <= s(j)
    BY InputsAreIntegers, AtMostOneMonotone DEF WorseInput
  <2>4. h(i) \in Int /\ h(j) \in Int /\ h(i) <= h(j)
    BY InputsAreIntegers, AtMostOneMonotone DEF WorseInput
  <2>5. n(i) \in Int /\ n(j) \in Int /\ n(i) <= n(j)
    BY InputsAreIntegers, AtMostOneMonotone DEF WorseInput
  <2>6. \A k \in {i, j} : Weighted(k) = 35 * p(k) + 25 * d(k) + 20 * s(k) + 10 * h(k) + 10 * n(k)
    BY DEF Weighted
  <2> HIDE DEF p, d, s, h, n
  <2> QED BY <2>1, <2>2, <2>3, <2>4, <2>5, <2>6
<1>2. /\ Weighted(i) \div 100 \in Int /\ Weighted(j) \div 100 \in Int
      /\ Weighted(i) \div 100 <= Weighted(j) \div 100
  BY <1>1
<1>3. Compute(i) = Clamp(Weighted(i) \div 100) /\ Compute(j) = Clamp(Weighted(j) \div 100)
  BY DEF Compute, Weighted
<1> QED BY <1>2, <1>3, ClampMonotone

\* The score is a ratio for every input within the levels.
LEMMA ComputeIsRatio ==
    ASSUME NEW i \in EDNSInput
    PROVE  Compute(i) \in Ratio
<1>1. Weighted(i) \in Int
  BY InputsAreIntegers, AtMostOneMonotone DEF Weighted, AtMostOne
<1>2. Compute(i) = Clamp(Weighted(i) \div 100)
  BY DEF Compute, Weighted
<1> QED BY <1>1, <1>2, ClampMonotone

\* The metrics of a request are ratios, or NaN.
LEMMA MetricsAreMetrics ==
    ASSUME NEW c \in Request
    PROVE  /\ c.capability_effectiveness_index \in Metric
           /\ c.projected_demand_not_served \in Metric
           /\ c.throughput_impact \in Metric
           /\ c.sla_penalty_exposure \in Metric
BY LevelAssumption DEF Request

\* The five thresholds are integers, ...
LEMMA ThresholdsAreIntegers ==
    /\ Config.max_sla_penalty_exposure \in Int /\ Config.max_throughput_deviation \in Int
    /\ Config.min_funding_ratio \in Int /\ Config.min_value_realization \in Int
    /\ Config.min_safety_score \in Int /\ 100 * Config.min_safety_score \in Int
BY ConfigAssumption DEF ConfigType, Ratio

\* ... and so are the scores they are compared with, unless an operand is NaN.
LEMMA ScoresOfNumbers ==
    ASSUME NEW e \in Ratio, NEW c \in Request
    PROVE  /\ SafetyScore(e, c) \in Int \cup {NaN}
           /\ ValueScore(c) \in Int \cup {NaN}
           /\ NaN \notin {c.sla_penalty_exposure, c.throughput_impact} =>
                 /\ c.sla_penalty_exposure \in Int /\ c.throughput_impact \in Int
                 /\ FundingScore(c) \in Int
                 /\ FundingScore(c) = 100 - MaxRatio(c.sla_penalty_exposure, c.throughput_impact)
<1>1. c.capability_effectiveness_index \in Int \cup {NaN}
      /\ c.projected_demand_not_served \in Int \cup {NaN}
      /\ c.throughput_impact \in Int \cup {NaN} /\ c.sla_penalty_exposure \in Int \cup {NaN}
  BY MetricsAreMetrics DEF Metric, Ratio
<1>2. SafetyScore(e, c) \in Int \cup {NaN}
  BY <1>1 DEF Ratio, SafetyScore, Computed
<1>3. ValueScore(c) \in Int \cup {NaN}
  BY <1>1 DEF ValueScore, Computed
<1>4. ASSUME NaN \notin {c.sla_penalty_exposure, c.throughput_impact}
      PROVE  /\ c.sla_penalty_exposure \in Int /\ c.throughput_impact \in Int
             /\ FundingScore(c) \in Int
             /\ FundingScore(c) = 100 - MaxRatio(c.sla_penalty_exposure, c.throughput_impact)
  BY <1>1, <1>4 DEF FundingScore, Computed, MaxRatio
<1> QED BY <1>2, <1>3, <1>4

\* A score can clear a threshold only if it reaches it or is NaN, and must if it is above
\* it or is NaN.
LEMMA ClearsReaches ==
    ASSUME NEW s \in Int \cup {NaN}, NEW t \in Int
    PROVE  /\ TRUE \in Clears(s, t) => s = NaN \/ s >= t
           /\ s = NaN \/ s > t => \A ok \in Clears(s, t) : ok
<1>1. ASSUME TRUE \in Clears(s, t), s # NaN PROVE s >= t
  <2>1. s = t \/ TRUE = (s > t)
    BY <1>1, Zenon DEF Clears
  <2>2. CASE s = t
    BY <1>1, <2>2
  <2>3. CASE TRUE = (s > t)
    <3>1. s > t
      BY <2>3, Zenon
    <3> QED BY <1>1, <3>1
  <2> QED BY <2>1, <2>2, <2>3
<1>2. ASSUME s # NaN, s > t, NEW ok \in Clears(s, t) PROVE ok
  <2>1. s # t
    BY <1>2
  <2>2. ok \in BOOLEAN /\ ok = (s > t)
    BY <1>2, <2>1, Zenon DEF Clears
  <2> QED BY <2>2, <1>2, Zenon
<1>3. ASSUME s = NaN, NEW ok \in Clears(s, t) PROVE ok
  BY <1>3, Zenon DEF Clears
<1> QED BY <1>1, <1>2, <1>3

\* A gate that maps the outcomes of a comparison to "passed" or to a reason passes only
\* if the comparison can succeed, and always if it must.
LEMMA GateOfClears ==
    ASSUME NEW s, NEW t, NEW why, why # "passed"
    PROVE  /\ "passed" \in {IF ok THEN "passed" ELSE why : ok \in Clears(s, t)}
                => TRUE \in Clears(s, t)
           /\ (\A ok \in Clears(s, t) : ok)
                => \A w \in {IF ok THEN "passed" ELSE why : ok \in Clears(s, t)} : w = "passed"
<1>1. ASSUME "passed" \in {IF ok THEN "passed" ELSE why : ok \in Clears(s, t)}
      PROVE  TRUE \in Clears(s, t)
  <2>1. PICK ok \in Clears(s, t) : "passed" = IF ok THEN "passed" ELSE why
    BY <1>1, Zenon
  <2>2. ok \in BOOLEAN
    <3>1. CASE s = NaN
      BY <3>1, Zenon DEF Clears
    <3>2. CASE s # NaN
      BY <3>2, Zenon DEF Clears
    <3> QED BY <3>1, <3>2
  <2>3. CASE ok = TRUE
    BY <2>1, <2>3, Zenon
  <2>4. CASE ok = FALSE
    BY <2>1, <2>4, Zenon
  <2> QED BY <2>2, <2>3, <2>4, Zenon
<1>2. ASSUME \A ok \in Clears(s, t) : ok
      PROVE  \A w \in {IF ok THEN "passed" ELSE why : ok \in Clears(s, t)} : w = "passed"
  BY <1>2, Zenon
<1> QED BY <1>1, <1>2, Zenon

\* What a request that may pass satisfies.
LEMMA WhatPasses ==
    ASSUME NEW e \in Ratio, NEW c \in Request, "passed" \in GateVerdicts(e, c)
    PROVE  /\ AtMost(c.sla_penalty_exposure, Config.max_sla_penalty_exposure)
           /\ AtMost(c.throughput_impact, Config.max_throughput_deviation)
           /\ FundingScore(c) >= Config.min_funding_ratio
           /\ SafetyScore(e, c) = NaN \/ SafetyScore(e, c) >= 100 * Config.min_safety_score
           /\ ValueScore(c) = NaN \/ ValueScore(c) >= Config.min_value_realization
<1>2. "passed" \in FundingGate(c) /\ "passed" \in SafetyGate(e, c) /\ "passed" \in ValueGate(c)
  BY Zenon DEF GateVerdicts
<1>3. AtMost(c.sla_penalty_exposure, Config.max_sla_penalty_exposure)
  BY <1>2, Zenon DEF FundingGate
<1>4. AtMost(c.throughput_impact, Config.max_throughput_deviation)
  BY <1>2, <1>3, Zenon DEF FundingGate
<1>5. TRUE \in Clears(FundingScore(c), Config.min_funding_ratio)
  BY <1>2, <1>3, <1>4, GateOfClears, Zenon DEF FundingGate
<1>6. /\ TRUE \in Clears(SafetyScore(e, c), 100 * Config.min_safety_score)
      /\ TRUE \in Clears(ValueScore(c), Config.min_value_realization)
  BY <1>2, GateOfClears, Zenon DEF SafetyGate, ValueGate
<1>7. FundingScore(c) \in Int /\ FundingScore(c) # NaN
  BY <1>3, <1>4, ScoresOfNumbers, NaNAssumption DEF AtMost
<1>8. FundingScore(c) >= Config.min_funding_ratio
  BY <1>5, <1>7, ThresholdsAreIntegers, ClearsReaches
<1>9. /\ SafetyScore(e, c) = NaN \/ SafetyScore(e, c) >= 100 * Config.min_safety_score
      /\ ValueScore(c) = NaN \/ ValueScore(c) >= Config.min_value_realization
  BY <1>6, ThresholdsAreIntegers, ScoresOfNumbers, ClearsReaches, Zenon
<1> QED BY <1>3, <1>4, <1>8, <1>9

\* What is enough to pass: every limit is kept and no score is at its threshold or below.
LEMMA WhatSurelyPasses ==
    ASSUME NEW e \in Ratio, NEW c \in Request, NEW v \in GateVerdicts(e, c),
           AtMost(c.sla_penalty_exposure, Config.max_sla_penalty_exposure),
           AtMost(c.throughput_impact, Config.max_throughput_deviation),
           FundingScore(c) > Config.min_funding_ratio,
           SafetyScore(e, c) = NaN \/ SafetyScore(e, c) > 100 * Config.min_safety_score,
           ValueScore(c) = NaN \/ ValueScore(c) > Config.min_value_realization
    PROVE  v = "passed"
<1>1. FundingScore(c) \in Int
  BY ScoresOfNumbers DEF AtMost
<1>2. /\ \A ok \in Clears(FundingScore(c), Config.min_funding_ratio) : ok
      /\ \A ok \in Clears(SafetyScore(e, c), 100 * Config.min_safety_score) : ok
      /\ \A ok \in Clears(ValueScore(c), Config.min_value_realization) : ok
  BY <1>1, ThresholdsAreIntegers, ScoresOfNumbers, ClearsReaches, Zenon
<1>4. \A w \in FundingGate(c) : w = "passed"
  BY <1>2, GateOfClears, Zenon DEF FundingGate
<1>5. \A w \in SafetyGate(e, c) \cup ValueGate(c) : w = "passed"
  BY <1>2, GateOfClears, Zenon DEF SafetyGate, ValueGate
<1> QED BY <1>4, <1>5, Zenon DEF GateVerdicts

\* A request that is worse is not closer to passing.
LEMMA ScoresMonotone ==
    ASSUME NEW e \in Ratio, NEW f \in Ratio, e <= f,
           NEW c \in Request, NEW d \in Request, WorseRequest(c, d)
    PROVE  /\ AtMost(d.sla_penalty_exposure, Config.max_sla_penalty_exposure)
                 => AtMost(c.sla_penalty_exposure, Config.max_sla_penalty_exposure)
           /\ AtMost(d.throughput_impact, Config.max_throughput_deviation)
                 => AtMost(c.throughput_impact, Config.max_throughput_deviation)
           /\ NaN \notin {d.sla_penalty_exposure, d.throughput_impact}
                 => FundingScore(d) <= FundingScore(c)
           /\ \/ SafetyScore(f, d) = NaN /\ SafetyScore(e, c) = NaN
              \/ NaN \notin {SafetyScore(f, d), SafetyScore(e, c)}
                   /\ SafetyScore(f, d) <= SafetyScore(e, c)
           /\ \/ ValueScore(d) = NaN /\ ValueScore(c) = NaN
              \/ NaN \notin {ValueScore(d), ValueScore(c)} /\ ValueScore(d) <= ValueScore(c)
<1>1. \A r \in {c, d} :
        /\ r.capability_effectiveness_index \in Int \cup {NaN}
        /\ r.projected_demand_not_served \in Int \cup {NaN}
        /\ r.throughput_impact \in Int \cup {NaN} /\ r.sla_penalty_exposure \in Int \cup {NaN}
  BY MetricsAreMetrics DEF Metric, Ratio
<1>2. /\ AtMost(d.sla_penalty_exposure, Config.max_sla_penalty_exposure)
            => AtMost(c.sla_penalty_exposure, Config.max_sla_penalty_exposure)
      /\ AtMost(d.throughput_impact, Config.max_throughput_deviation)
            => AtMost(c.throughput_impact, Config.max_throughput_deviation)
  BY <1>1, ThresholdsAreIntegers DEF WorseRequest, Ordered, AtMost
<1>3. ASSUME NaN \notin {d.sla_penalty_exposure, d.throughput_impact}
      PROVE  FundingScore(d) <= FundingScore(c)
  <2>1. NaN \notin {c.sla_penalty_exposure, c.throughput_impact}
    BY <1>3 DEF WorseRequest, Ordered
  <2>2. /\ FundingScore(c) = 100 - MaxRatio(c.sla_penalty_exposure, c.throughput_impact)
        /\ FundingScore(d) = 100 - MaxRatio(d.sla_penalty_exposure, d.throughput_impact)
    BY <1>3, <2>1 DEF FundingScore, Computed
  <2>3. /\ c.sla_penalty_exposure <= d.sla_penalty_exposure
        /\ c.throughput_impact <= d.throughput_impact
    BY <1>1, <1>3, <2>1 DEF WorseRequest, Ordered
  <2> QED BY <1>1, <1>3, <2>1, <2>2, <2>3 DEF MaxRatio
<1>4. CASE c.capability_effectiveness_index = NaN
  <2>1. d.capability_effectiveness_index = NaN
    BY <1>4 DEF WorseRequest, Ordered
  <2>2. /\ SafetyScore(f, d) = NaN /\ SafetyScore(e, c) = NaN
        /\ ValueScore(d) = NaN /\ ValueScore(c) = NaN
    BY <1>4, <2>1 DEF SafetyScore, ValueScore, Computed
  <2> QED BY <1>2, <1>3, <2>2
<1>5. CASE c.capability_effectiveness_index # NaN
  <2>1. /\ d.capability_effectiveness_index # NaN
        /\ d.capability_effectiveness_index <= c.capability_effectiveness_index
        /\ c.capability_effectiveness_index \in Int /\ d.capability_effectiveness_index \in Int
    BY <1>1, <1>5 DEF WorseRequest, Ordered
  <2>2. /\ SafetyScore(f, d) = 60 * (100 - f) + 40 * d.capability_effectiveness_index
        /\ SafetyScore(e, c) = 60 * (100 - e) + 40 * c.capability_effectiveness_index
    BY <1>5, <2>1 DEF SafetyScore, Computed
  <2>3. /\ SafetyScore(f, d) \in Int /\ SafetyScore(e, c) \in Int
        /\ SafetyScore(f, d) <= SafetyScore(e, c)
    BY <2>1, <2>2 DEF Ratio
  <2>4. CASE c.projected_demand_not_served = NaN
    <3>1. ValueScore(d) = NaN /\ ValueScore(c) = NaN
      BY <2>4 DEF WorseRequest, Ordered, ValueScore, Computed
    <3> QED BY <1>2, <1>3, <2>3, <3>1, NaNAssumption
  <2>5. CASE c.projected_demand_not_served # NaN
    <3>1. /\ d.projected_demand_not_served # NaN
          /\ c.projected_demand_not_served <= d.projected_demand_not_served
          /\ c.projected_demand_not_served \in Int /\ d.projected_demand_not_served \in Int
      BY <1>1, <2>5 DEF WorseRequest, Ordered
    <3>2. /\ ValueScore(d) = d.capability_effectiveness_index - d.projected_demand_not_served
          /\ ValueScore(c) = c.capability_effectiveness_index - c.projected_demand_not_served
      BY <1>5, <2>1, <2>5, <3>1 DEF ValueScore, Computed
    <3>3. /\ ValueScore(d) \in Int /\ ValueScore(c) \in Int /\ ValueScore(d) <= ValueScore(c)
      BY <2>1, <3>1, <3>2
    <3> QED BY <1>2, <1>3, <2>3, <3>3, NaNAssumption
  <2> QED BY <2>4, <2>5
<1> QED BY <1>4, <1>5
-----------------------------------------------------------------------------
\* One input or metric changes, within its values.
LEMMA StepKeepsTypes ==
    ASSUME input \in EDNSInput, cei \in Request, Next
    PROVE  input' \in EDNSInput /\ cei' \in Request
<1>1. CASE Remeasure
  <2>1. PICK f \in DOMAIN input, v \in Level : input' = [input EXCEPT ![f] = v]
    BY <1>1 DEF Remeasure
  <2>2. input' \in EDNSInput
    BY <2>1 DEF EDNSInput
  <2> QED BY <2>2, <1>1 DEF Remeasure
<1>2. CASE Reassess
  <2>1. ASSUME NEW v \in Index, cei' = [cei EXCEPT !.capability_effectiveness_index = v]
        PROVE  cei' \in Request
    BY <2>1 DEF Request
  <2>2. ASSUME NEW f \in DOMAIN cei \ {"capability_effectiveness_index"}, NEW v \in Impact,
               cei' = [cei EXCEPT ![f] = v]
        PROVE  cei' \in Request
    <3>1. f \in {"projected_demand_not_served", "throughput_impact", "sla_penalty_exposure"}
      BY DEF Request
    <3>2. CASE f = "projected_demand_not_served"
      BY <2>2, <3>2 DEF Request
    <3>3. CASE f = "throughput_impact"
      BY <2>2, <3>3 DEF Request
    <3>4. CASE f = "sla_penalty_exposure"
      BY <2>2, <3>4 DEF Request
    <3> QED BY <3>1, <3>2, <3>3, <3>4
  <2> QED BY <1>2, <2>1, <2>2 DEF Reassess
<1> QED BY <1>1, <1>2 DEF Next

\* The inductive invariant.
THEOREM Invariance == Spec => []Judged
<1>1. Init => Judged
  BY DEF Init, Judged
<1>2. Judged /\ [Next]_vars => Judged'
  <2> SUFFICES ASSUME Judged, [Next]_vars PROVE Judged'
    OBVIOUS
  <2>1. CASE Next
    <3>1. input' \in EDNSInput /\ cei' \in Request
      BY <2>1, StepKeepsTypes DEF Judged
    <3>2. Judge
      BY <2>1 DEF Next, Remeasure, Reassess
    <3> QED BY <3>1, <3>2 DEF Judge, Judged
  <2>2. CASE UNCHANGED vars
    BY <2>2 DEF vars, Judged
  <2> QED BY <2>1, <2>2
<1> QED BY <1>1, <1>2, PTL DEF Spec

\* Every verdict the gates can return is one of six.
LEMMA SixVerdicts ==
    ASSUME NEW e, NEW c, NEW v \in GateVerdicts(e, c)
    PROVE  v \in {"passed", "sla_penalty_exposure_exceeded", "max_throughput_deviation",
                  "funding_threshold_exceeded", "safety_gate_triggered",
                  "negative_value_realization"}
<1>1. v \in FundingGate(c) \cup SafetyGate(e, c) \cup ValueGate(c)
  BY Zenon DEF GateVerdicts
<1>2. CASE v \in FundingGate(c)
  BY <1>2 DEF FundingGate
<1>3. CASE v \in SafetyGate(e, c)
  BY <1>3 DEF SafetyGate
<1>4. CASE v \in ValueGate(c)
  BY <1>4 DEF ValueGate
<1> QED BY <1>1, <1>2, <1>3, <1>4

\* The score is a ratio for every input within the levels, and every answer is one of those listed.
THEOREM TypeCorrect == Spec => []TypeOK
<1>1. Judged => TypeOK
  BY ComputeIsRatio, SixVerdicts DEF Judged, TypeOK, Risks
<1> QED BY <1>1, Invariance, PTL

\* A network that is worse never has a lower score, for every set of levels.
THEOREM ScoreIsMonotone == Spec => EdnsMonotone
<1>1. Judged /\ Judged' => [WorseInput(input, input') => edns' >= edns]_vars
  <2> SUFFICES ASSUME Judged, Judged', WorseInput(input, input') PROVE edns' >= edns
    OBVIOUS
  <2>1. edns \in Ratio /\ edns' \in Ratio /\ edns <= edns'
    BY ComputeMonotone, ComputeIsRatio DEF Judged
  <2> QED BY <2>1 DEF Ratio
<1> QED BY <1>1, Invariance, PTL DEF EdnsMonotone

\* With the default limits of the funding gate, its ratio test never decides.
THEOREM RatioTestIsDead ==
    ASSUME Config.max_sla_penalty_exposure < 100 - Config.min_funding_ratio,
           Config.max_throughput_deviation < 100 - Config.min_funding_ratio
    PROVE  Spec => []FundingRatioNeverDecides
<1>1. Judged => FundingRatioNeverDecides
  <2> SUFFICES ASSUME Judged, verdict = "funding_threshold_exceeded" PROVE FALSE
    BY DEF FundingRatioNeverDecides
  <2>1. verdict \in FundingGate(cei) \cup SafetyGate(edns, cei) \cup ValueGate(cei)
    BY Zenon DEF GateVerdicts, Judged
  <2>2. verdict \in FundingGate(cei)
    BY <2>1 DEF SafetyGate, ValueGate
  <2>3. edns \in Ratio
    BY ComputeIsRatio DEF Judged
  <2>4. AtMost(cei.sla_penalty_exposure, Config.max_sla_penalty_exposure)
    BY <2>2 DEF FundingGate
  <2>5. AtMost(cei.throughput_impact, Config.max_throughput_deviation)
    BY <2>2, <2>4 DEF FundingGate
  <2>6. FundingScore(cei) > Config.min_funding_ratio /\ FundingScore(cei) \in Int
    BY <2>3, <2>4, <2>5, ThresholdsAreIntegers, ScoresOfNumbers DEF Judged, AtMost, MaxRatio
  <2>7. \A ok \in Clears(FundingScore(cei), Config.min_funding_ratio) : ok
    BY <2>6, ThresholdsAreIntegers, ClearsReaches, Zenon
  <2>8. verdict = "passed"
    BY <2>2, <2>4, <2>5, <2>7, GateOfClears, Zenon DEF FundingGate
  <2> QED BY <2>8
<1> QED BY <1>1, Invariance, PTL

\* With a safety threshold of at least 85, what the gates admit on an effectiveness index
\* that is a number is a low risk.
THEOREM AdmissionIsLowRisk ==
    ASSUME Config.min_safety_score >= 85
    PROVE  Spec => []AdmittedIsLowRisk
<1>1. Judged => AdmittedIsLowRisk
  <2> SUFFICES ASSUME Judged, verdict = "passed", cei.capability_effectiveness_index # NaN
               PROVE  risk = "low" \/ edns = 25
    BY DEF AdmittedIsLowRisk
  <2>1. edns \in Ratio /\ cei.capability_effectiveness_index \in Ratio
    BY ComputeIsRatio, MetricsAreMetrics DEF Judged, Metric
  <2>2. SafetyScore(edns, cei) = NaN \/ SafetyScore(edns, cei) >= 100 * Config.min_safety_score
    BY <2>1, WhatPasses DEF Judged
  <2>3. SafetyScore(edns, cei) = 60 * (100 - edns) + 40 * cei.capability_effectiveness_index
    BY DEF SafetyScore, Computed
  <2>4. edns <= 25
    BY <2>1, <2>2, <2>3, ThresholdsAreIntegers, NaNAssumption DEF Ratio
  <2>5. risk \in Risks(edns)
    BY DEF Judged
  <2> QED BY <2>1, <2>4, <2>5 DEF Risks, Ratio
<1> QED BY <1>1, Invariance, PTL

\* A refused request is not admitted for being worse, for every configuration, metrics that
\* are NaN included.
THEOREM WorseIsNotRewarded == Spec => NoRewardForWorse
<1>1. Judged /\ Judged' => [WorseInput(input, input') /\ WorseRequest(cei, cei')
                             /\ verdict' = "passed" => verdict = "passed" \/ Ties]_vars
  <2> SUFFICES ASSUME Judged, Judged', WorseInput(input, input'), WorseRequest(cei, cei'),
                      verdict' = "passed", ~Ties
               PROVE  verdict = "passed"
    OBVIOUS
  <2>1. edns \in Ratio /\ edns' \in Ratio /\ edns <= edns' /\ cei \in Request /\ cei' \in Request
    BY ComputeMonotone, ComputeIsRatio DEF Judged
  <2>2. /\ AtMost(cei'.sla_penalty_exposure, Config.max_sla_penalty_exposure)
        /\ AtMost(cei'.throughput_impact, Config.max_throughput_deviation)
        /\ FundingScore(cei') >= Config.min_funding_ratio
        /\ \/ SafetyScore(edns', cei') = NaN
           \/ SafetyScore(edns', cei') >= 100 * Config.min_safety_score
        /\ ValueScore(cei') = NaN \/ ValueScore(cei') >= Config.min_value_realization
    BY <2>1, WhatPasses DEF Judged
  <2>3. /\ AtMost(cei.sla_penalty_exposure, Config.max_sla_penalty_exposure)
        /\ AtMost(cei.throughput_impact, Config.max_throughput_deviation)
        /\ NaN \notin {cei'.sla_penalty_exposure, cei'.throughput_impact}
              => FundingScore(cei') <= FundingScore(cei)
        /\ \/ SafetyScore(edns', cei') = NaN /\ SafetyScore(edns, cei) = NaN
           \/ /\ NaN \notin {SafetyScore(edns', cei'), SafetyScore(edns, cei)}
              /\ SafetyScore(edns', cei') <= SafetyScore(edns, cei)
        /\ \/ ValueScore(cei') = NaN /\ ValueScore(cei) = NaN
           \/ /\ NaN \notin {ValueScore(cei'), ValueScore(cei)}
              /\ ValueScore(cei') <= ValueScore(cei)
    BY <2>1, <2>2, ScoresMonotone
  <2>4. NaN \notin {cei.sla_penalty_exposure, cei.throughput_impact,
                    cei'.sla_penalty_exposure, cei'.throughput_impact}
    BY <2>2, <2>3 DEF AtMost
  <2>5. /\ FundingScore(cei) \in Int /\ FundingScore(cei') \in Int
        /\ SafetyScore(edns, cei) \in Int \cup {NaN} /\ SafetyScore(edns', cei') \in Int \cup {NaN}
        /\ ValueScore(cei) \in Int \cup {NaN} /\ ValueScore(cei') \in Int \cup {NaN}
    BY <2>1, <2>4, ScoresOfNumbers
  <2>6. /\ FundingScore(cei) # Config.min_funding_ratio
        /\ SafetyScore(edns, cei) # 100 * Config.min_safety_score
        /\ ValueScore(cei) # Config.min_value_realization
    BY DEF Ties
  <2>7. FundingScore(cei) > Config.min_funding_ratio
    BY <2>2, <2>3, <2>4, <2>5, <2>6, ThresholdsAreIntegers
  <2>8. SafetyScore(edns, cei) = NaN \/ SafetyScore(edns, cei) > 100 * Config.min_safety_score
    BY <2>2, <2>3, <2>5, <2>6, ThresholdsAreIntegers
  <2>9. ValueScore(cei) = NaN \/ ValueScore(cei) > Config.min_value_realization
    BY <2>2, <2>3, <2>5, <2>6, ThresholdsAreIntegers
  <2> QED BY <2>1, <2>3, <2>7, <2>8, <2>9, WhatSurelyPasses DEF Judged
<1> QED BY <1>1, Invariance, PTL DEF NoRewardForWorse
-----------------------------------------------------------------------------
\* Why AdmittedIsLowRisk makes an exception of NaN: with an index that is NaN the safety and
\* the value gate, which refuse what is below their minimum, refuse nothing, whatever the
\* score, the other metrics and the configuration are.  (The module that holds them calls
\* this a fail-closed design.)
THEOREM NaNIsNeverBelow ==
    ASSUME NEW e \in Ratio, NEW c \in CEIMetrics, c.capability_effectiveness_index = NaN
    PROVE  SafetyGate(e, c) = {"passed"} /\ ValueGate(c) = {"passed"}
<1>1. SafetyScore(e, c) = NaN /\ ValueScore(c) = NaN
  BY DEF SafetyScore, ValueScore, Computed
<1>2. \A threshold : Clears(NaN, threshold) = {TRUE}
  BY DEF Clears
<1>3. /\ Clears(SafetyScore(e, c), 100 * Config.min_safety_score) = {TRUE}
      /\ Clears(ValueScore(c), Config.min_value_realization) = {TRUE}
  BY <1>1, <1>2
<1>4. SafetyGate(e, c) = {"passed"}
  <2>1. SafetyGate(e, c) = {IF ok THEN "passed" ELSE "safety_gate_triggered" : ok \in {TRUE}}
    BY <1>3 DEF SafetyGate
  <2>2. QED
    BY <2>1
<1>5. ValueGate(c) = {"passed"}
  <2>1. ValueGate(c) = {IF ok THEN "passed" ELSE "negative_value_realization" : ok \in {TRUE}}
    BY <1>3 DEF ValueGate
  <2>2. QED
    BY <2>1
<1>6. QED
  BY <1>4, <1>5
=============================================================================
