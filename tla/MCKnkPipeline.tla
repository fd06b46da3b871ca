--------------------------- MODULE MCKnkPipeline ---------------------------
(***************************************************************************)
(* Two nodes with two keys and three tokens of one of them, two of which   *)
(* share a nonce, delivered again and again, in bodies whose metrics pass, *)
(* fail, tie or are NaN, among one submission for every way a check can    *)
(* fail.  NonceExpiry is exactly ExpBound + 2 * Skew + 2 * MaxBack, the    *)
(* least the proof allows (the code's 300 exceeds its 60 + 2 * 5 by far),  *)
(* and the horizon lets a token expire, be forgotten and leave its nonce   *)
(* to another.                                                             *)
(***************************************************************************)
EXTENDS KnkPipeline

MC_Config ==
    [max_sla_penalty_exposure |-> 15, max_throughput_deviation |-> 20,
     min_funding_ratio |-> 30, min_safety_score |-> 85, min_value_realization |-> 10]

Cei(effect, unserved, throughput, sla) ==
    [capability_effectiveness_index |-> effect, projected_demand_not_served |-> unserved,
     throughput_impact |-> throughput, sla_penalty_exposure |-> sla]

Good == Cei(95, 10, 5, 5)

Token(nonce, exp) ==
    [header |-> "object", signer |-> "k1", iss |-> "nhp-sba-agent", aud |-> "nhp-sba-server",
     claims |-> {"exp", "intent"}, exp |-> exp, node_id |-> "n1",
     timestamp |-> exp, nonce |-> nonce]

Post(jws, cei) ==
    [format |-> "ok", node_id |-> jws.node_id, public_key |-> jws.signer,
     timestamp |-> jws.timestamp, nonce |-> jws.nonce, current_edns |-> 5,
     cei |-> cei, jws |-> jws]

A == Token("x", 2)      \* two tokens of one nonce,
B == Token("x", 6)
C == Token("y", 5)      \* another whose acceptance sweeps the cache,
D == [Token("x", 2) EXCEPT !.signer = "k2", !.node_id = "n2"]    \* and another node's

\* The tokens with metrics that pass, and the same again with metrics that fail.
Genuine == {Post(A, Good), Post(B, Good), Post(C, Good), Post(D, Good)}

Judged ==
    {Post(C, Cei(NaN, 50, 5, 5)), Post(C, Cei(60, 50, 5, 5)), Post(B, Cei(95, 10, 21, 5))}

Invalid ==
    {[Post(A, Good) EXCEPT !.format = "schema"],
     [Post(A, Good) EXCEPT !.public_key = "k2"],
     [Post(A, Good) EXCEPT !.timestamp = 7],
     [Post(A, Good) EXCEPT !.jws.header = "other"],
     [Post(A, Good) EXCEPT !.jws.signer = "k2"],
     [Post(D, Good) EXCEPT !.node_id = "n1"],
     Post([A EXCEPT !.iss = ""], Good),
     Post([A EXCEPT !.iss = "someone"], Good),
     Post([A EXCEPT !.aud = "elsewhere"], Good),
     Post([A EXCEPT !.claims = {"exp"}], Good),
     Post([A EXCEPT !.claims = {"intent"}], Good)}

MC_Submission == Genuine \cup Judged \cup Invalid
=============================================================================
