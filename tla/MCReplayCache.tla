--------------------------- MODULE MCReplayCache ---------------------------
(***************************************************************************)
(* Three nonces and room for two, so that the third overflows the set; six *)
(* acceptances and five ticks are enough for a nonce to be found fresh     *)
(* three times within the expiry of two ticks, and once more after it.     *)
(***************************************************************************)
EXTENDS ReplayCache
=============================================================================
