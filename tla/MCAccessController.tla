-------------------------- MODULE MCAccessController --------------------------
(***************************************************************************)
(* Two callers at a limit of two sessions: three sessions can be open at   *)
(* once, a fourth id shows that no more can, and each can expire or be     *)
(* closed before the PEP has heard of it.  A session lives for two ticks.  *)
(* No counter needs a bound: what the PEP counts too much is never more    *)
(* than it admits.                                                         *)
(***************************************************************************)
EXTENDS AccessController
=============================================================================
