----------------------------- MODULE TokenLedger -----------------------------
(***************************************************************************)
(* What the policy decision point promises about signed NHP-KNK tokens,    *)
(* whatever the clock, the network and the nonce cache do: a token is      *)
(* consumed at most once, gets at most one verdict, and keeps it for ever. *)
(***************************************************************************)
CONSTANT
    Token       \* the signed tokens

VARIABLE
    fate        \* fate[t]: what became of token t

Fate == {"unused", "consumed", "granted", "refused"}

LedgerInit == fate = [t \in Token |-> "unused"]

\* That the token has the new fate follows from what all have, and is looked at first.
Settle(t, from, to) ==
    /\ fate[t] = from /\ fate'[t] = to
    /\ fate' = [fate EXCEPT ![t] = to]

Consume(t) == Settle(t, "unused", "consumed")
Grant(t)   == Settle(t, "consumed", "granted")
Refuse(t)  == Settle(t, "consumed", "refused")

LedgerNext == \E t \in Token : Consume(t) \/ Grant(t) \/ Refuse(t)

LedgerSpec == LedgerInit /\ [][LedgerNext]_fate
-----------------------------------------------------------------------------
\* What the engine has decided about a token stands: neither another delivery nor the
\* forgetting of its nonce takes a verdict back or replaces it.
VerdictsStand ==
    [][\A t \in Token : fate[t] \in {"granted", "refused"} => fate'[t] = fate[t]]_fate
=============================================================================
