--------------------------- MODULE MCNrsResolver ---------------------------
(***************************************************************************)
(* A genuine query, the same transaction with a later validity, with one   *)
(* that is too long, and with a context that cannot be met, and a query of *)
(* another transaction that is issued ahead of the clock; one restart.    *)
(***************************************************************************)
EXTENDS NrsResolver

Ask(jti, iat, exp, tolerable) == [jti |-> jti, iat |-> iat, exp |-> exp, tolerable |-> tolerable]

MC_Query ==
    {Ask("x", 0, 2, TRUE), Ask("x", 1, 3, TRUE), Ask("x", 0, 4, TRUE), Ask("x", 1, 3, FALSE),
     Ask("y", 3, 5, TRUE)}
=============================================================================
