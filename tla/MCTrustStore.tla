---------------------------- MODULE MCTrustStore ----------------------------
(***************************************************************************)
(* Two threads suffice for any pair of accesses to meet, two keys for one  *)
(* load to be told from another; nodes do not interact.                    *)
(***************************************************************************)
EXTENDS TrustStore
=============================================================================
