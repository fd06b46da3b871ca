-------------------------- MODULE HandshakeLifecycle --------------------------
(***************************************************************************)
(* What the handshake machine promises its caller, with none of its        *)
(* bookkeeping: the phases are entered one after the other, any of them    *)
(* can be left for termination, and only termination leads to a new start. *)
(***************************************************************************)
EXTENDS Sequences, Naturals

\* The phases of a handshake, in the order they must be entered.
Order == <<"IDLE", "KNOCK_SENT", "POLICY_EVAL", "TUNNEL_PROVISIONED", "SESSION_ACTIVE">>

VARIABLE
    phase       \* the current phase: one of Order, or "SESSION_TERMINATED"

LifecycleInit == phase = Order[1]

Advance == \E i \in 1..(Len(Order) - 1) : phase = Order[i] /\ phase' = Order[i + 1]

Terminate == phase # "SESSION_TERMINATED" /\ phase' = "SESSION_TERMINATED"

Restart == phase = "SESSION_TERMINATED" /\ phase' = Order[1]

LifecycleSpec == LifecycleInit /\ [][Advance \/ Terminate \/ Restart]_phase
=============================================================================
