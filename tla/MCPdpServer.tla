----------------------------- MODULE MCPdpServer -----------------------------
(***************************************************************************)
(* One token in three calls from one address: sent by its client, sent     *)
(* again by it, and delivered once more.  Two requests are admitted in two *)
(* ticks, so that a correction of the clock lets a third one in; the token *)
(* is not yet acceptable at 0, is at 1, and has expired at 2; and the      *)
(* process may die at any moment, any number of times.                     *)
(***************************************************************************)
EXTENDS PdpServer

MC_Config ==
    [max_sla_penalty_exposure |-> 15, max_throughput_deviation |-> 20,
     min_funding_ratio |-> 30, min_safety_score |-> 85, min_value_realization |-> 10]

Token ==
    [header |-> "object", signer |-> "k1", iss |-> "nhp-sba-agent", aud |-> "nhp-sba-server",
     claims |-> {"exp", "intent"}, exp |-> 1, node_id |-> "n1",
     timestamp |-> 1, nonce |-> "x"]

Post ==
    [format |-> "ok", node_id |-> "n1", public_key |-> "k1", timestamp |-> 1, nonce |-> "x",
     current_edns |-> 5,
     cei |-> [capability_effectiveness_index |-> 95, projected_demand_not_served |-> 10,
              throughput_impact |-> 5, sla_penalty_exposure |-> 5],
     jws |-> Token]

MC_Submission == {Post}
MC_Caller == [original |-> "c1", retry |-> "c1", copy |-> "c1"]
MC_Body   == [r \in DOMAIN MC_Caller |-> Post]
=============================================================================
