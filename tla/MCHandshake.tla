---------------------------- MODULE MCHandshake ----------------------------
(***************************************************************************)
(* Two of each identifier: enough to tell an argument that was refused     *)
(* from one that was accepted.  The machines are finite, so the state      *)
(* space is explored without a bound.                                      *)
(***************************************************************************)
EXTENDS Handshake
=============================================================================
