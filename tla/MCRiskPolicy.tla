---------------------------- MODULE MCRiskPolicy ----------------------------
(***************************************************************************)
(* The default configuration; inputs of the score up to and above one (a   *)
(* compliance above one is a negative deficit); metrics at each limit, and *)
(* metrics that are NaN.                                                   *)
(***************************************************************************)
EXTENDS RiskPolicy

MC_Config ==
    [max_sla_penalty_exposure |-> 15, max_throughput_deviation |-> 20,
     min_funding_ratio |-> 30, min_safety_score |-> 85, min_value_realization |-> 10]

MC_Level == {0, 20, 120}
=============================================================================
