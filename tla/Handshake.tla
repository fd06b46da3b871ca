------------------------------ MODULE Handshake ------------------------------
(***************************************************************************)
(* The two implementations of the NHP handshake machine, NhpStateMachine   *)
(* in Python (nhp_server/app/protocol/state_machine.py, "pdp") and in Rust *)
(* (nhp_ac/src/protocol/nhp_state_machine.rs, "ac"), driven by the same    *)
(* calls, in any order, legal or not.  The Rust one "mirrors the Python    *)
(* implementation": the model compares what each does with every call.     *)
(*                                                                         *)
(* A method that refuses a call raises (Python) or returns an Err (Rust).  *)
(* It may have assigned a field before it refuses.                         *)
(***************************************************************************)
EXTENDS Naturals, Sequences

CONSTANTS
    NodeId,     \* identifiers of nodes
    Session,    \* identifiers of sessions
    Reason,     \* reasons for termination
    None        \* a field that is not set

ASSUME HandshakeAssumption == None \notin NodeId \cup Session \cup Reason

NhpState ==
    {"IDLE", "KNOCK_SENT", "POLICY_EVAL", "TUNNEL_PROVISIONED",
     "SESSION_ACTIVE", "SESSION_TERMINATED"}

Machine ==
    [state : NhpState, reason : Reason \cup {None}, session : Session \cup {None},
     node : NodeId \cup {None}, transitions : 0..5]

VARIABLES
    pdp,        \* the Python machine
    ac,         \* the Rust machine
    ok,         \* which of the two accepted the last call
    agreed,     \* history: node, session and reason of the calls both accepted since the reset
    apart       \* history: Rust has taken a reset that Python refused

vars == <<pdp, ac, ok, agreed, apart>>

Fresh ==
    [state |-> "IDLE", reason |-> None, session |-> None, node |-> None, transitions |-> 0]

NothingAgreed == [node |-> None, session |-> None, reason |-> None]

TypeOK ==
    /\ pdp \in Machine /\ ac \in Machine
    /\ ok \in SUBSET {"pdp", "ac"}
    /\ agreed \in [node : NodeId \cup {None}, session : Session \cup {None},
                   reason : Reason \cup {None}]
    /\ apart \in BOOLEAN

Init ==
    /\ pdp = Fresh
    /\ ac = Fresh
    /\ ok = {"pdp", "ac"}
    /\ agreed = NothingAgreed
    /\ apart = FALSE

-----------------------------------------------------------------------------
\* Mutant: a tunnel may be provisioned before the policy is evaluated.
ValidSkipsPolicy ==
    [IDLE               |-> {"KNOCK_SENT", "SESSION_TERMINATED"},
     KNOCK_SENT         |-> {"POLICY_EVAL", "TUNNEL_PROVISIONED", "SESSION_TERMINATED"},
     POLICY_EVAL        |-> {"TUNNEL_PROVISIONED", "SESSION_TERMINATED"},
     TUNNEL_PROVISIONED |-> {"SESSION_ACTIVE", "SESSION_TERMINATED"},
     SESSION_ACTIVE     |-> {"SESSION_TERMINATED"},
     SESSION_TERMINATED |-> {"IDLE"}]

\* VALID_TRANSITIONS
Valid ==
    [IDLE               |-> {"KNOCK_SENT", "SESSION_TERMINATED"},
     KNOCK_SENT         |-> {"POLICY_EVAL", "SESSION_TERMINATED"},
     POLICY_EVAL        |-> {"TUNNEL_PROVISIONED", "SESSION_TERMINATED"},
     TUNNEL_PROVISIONED |-> {"SESSION_ACTIVE", "SESSION_TERMINATED"},
     SESSION_ACTIVE     |-> {"SESSION_TERMINATED"},
     SESSION_TERMINATED |-> {"IDLE"}]

Enter(m, target) == [m EXCEPT !.state = target, !.transitions = @ + 1]

\* What a method returns: the machine it leaves, and whether it accepted the call.
Accept(m) == [machine |-> m, accepted |-> TRUE]
Refuse(m) == [machine |-> m, accepted |-> FALSE]

\* _transition: validated against the table.
PyTransition(m, target) ==
    IF target \in Valid[m.state] THEN Accept(Enter(m, target)) ELSE Refuse(m)

\* Mutant: the node is assigned before the state is tested.
PyProcessKnkUntested(m, n) == PyTransition([m EXCEPT !.node = n], "KNOCK_SENT")

\* The explicit test comes first: nothing is assigned when it fails.
PyProcessKnk(m, n) ==
    IF m.state = "IDLE" THEN PyTransition([m EXCEPT !.node = n], "KNOCK_SENT") ELSE Refuse(m)

\* activate_session and terminate assign their argument before the transition is validated.
PyActivate(m, s)  == PyTransition([m EXCEPT !.session = s], "SESSION_ACTIVE")
PyTerminate(m, r) == PyTransition([m EXCEPT !.reason = r], "SESSION_TERMINATED")

\* Mutants: reset forgets the counter; reset forgets the reason.
PyResetKeepsCount(m) ==
    IF m.state \in {"SESSION_TERMINATED", "IDLE"}
    THEN Accept([Fresh EXCEPT !.transitions = m.transitions]) ELSE Refuse(m)
PyResetKeepsReason(m) ==
    IF m.state \in {"SESSION_TERMINATED", "IDLE"}
    THEN Accept([Fresh EXCEPT !.reason = m.reason]) ELSE Refuse(m)

PyReset(m) ==
    IF m.state \in {"SESSION_TERMINATED", "IDLE"} THEN Accept(Fresh) ELSE Refuse(m)

\* Mutant: only termination is tested.
RsTransitionUntested(m, expected, m2, target) ==
    IF m.state # "SESSION_TERMINATED" THEN Accept(Enter(m2, target)) ELSE Refuse(m)

\* ensure_not_terminated and ensure_state, then the transition of the machine m2.
RsTransition(m, expected, m2, target) ==
    IF m.state = expected THEN Accept(Enter(m2, target)) ELSE Refuse(m)

RsProcessKnk(m, n) == RsTransition(m, "IDLE", [m EXCEPT !.node = n], "KNOCK_SENT")

RsActivate(m, s) ==
    RsTransition(m, "TUNNEL_PROVISIONED", [m EXCEPT !.session = s], "SESSION_ACTIVE")

\* Mutant: the reason is assigned first, as in Python.
RsTerminateAssignsFirst(m, r) ==
    IF m.state = "SESSION_TERMINATED" THEN Refuse([m EXCEPT !.reason = r])
    ELSE Accept(Enter([m EXCEPT !.reason = r], "SESSION_TERMINATED"))

RsTerminate(m, r) ==
    IF m.state = "SESSION_TERMINATED" THEN Refuse(m)
    ELSE Accept(Enter([m EXCEPT !.reason = r], "SESSION_TERMINATED"))

\* reset(&mut self): from any state.
RsReset(m) == Accept(Fresh)

-----------------------------------------------------------------------------
\* One call, made of both machines.
Call(py, rs) ==
    /\ pdp' = py.machine
    /\ ac' = rs.machine
    /\ ok' = {w \in {"pdp", "ac"} : IF w = "pdp" THEN py.accepted ELSE rs.accepted}

Both == ok' = {"pdp", "ac"}

ProcessKnk(n) ==
    /\ Call(PyProcessKnk(pdp, n), RsProcessKnk(ac, n))
    /\ agreed' = IF Both THEN [agreed EXCEPT !.node = n] ELSE agreed
    /\ UNCHANGED apart

EvaluatePolicy ==
    /\ Call(PyTransition(pdp, "POLICY_EVAL"),
            RsTransition(ac, "KNOCK_SENT", ac, "POLICY_EVAL"))
    /\ UNCHANGED <<agreed, apart>>

ProvisionTunnel ==
    /\ Call(PyTransition(pdp, "TUNNEL_PROVISIONED"),
            RsTransition(ac, "POLICY_EVAL", ac, "TUNNEL_PROVISIONED"))
    /\ UNCHANGED <<agreed, apart>>

ActivateSession(s) ==
    /\ Call(PyActivate(pdp, s), RsActivate(ac, s))
    /\ agreed' = IF Both THEN [agreed EXCEPT !.session = s] ELSE agreed
    /\ UNCHANGED apart

TerminateSession(r) ==
    /\ Call(PyTerminate(pdp, r), RsTerminate(ac, r))
    /\ agreed' = IF Both THEN [agreed EXCEPT !.reason = r] ELSE agreed
    /\ UNCHANGED apart

\* A reset that both accept brings two machines that had come apart together again.
Reset ==
    /\ Call(PyReset(pdp), RsReset(ac))
    /\ agreed' = IF Both THEN NothingAgreed ELSE agreed
    /\ apart' = ~Both

Next ==
    \/ \E n \in NodeId : ProcessKnk(n)
    \/ EvaluatePolicy
    \/ ProvisionTunnel
    \/ \E s \in Session : ActivateSession(s)
    \/ \E r \in Reason : TerminateSession(r)
    \/ Reset

Spec == Init /\ [][Next]_vars
-----------------------------------------------------------------------------
Pdp == INSTANCE HandshakeLifecycle WITH phase <- pdp.state
Ac  == INSTANCE HandshakeLifecycle WITH phase <- ac.state

\* As long as Rust has taken no reset that Python refused, the two machines are in
\* the same state after every sequence of calls, have counted the same transitions,
\* know the same node, and accept or refuse each call together.
MirrorUntilReset ==
    ~apart => /\ pdp.state = ac.state
              /\ pdp.transitions = ac.transitions
              /\ pdp.node = ac.node
              /\ ok \in {{}, {"pdp", "ac"}}

\* The Rust machine assigns no field in a call it refuses: its node, session and
\* reason are those of the calls that were accepted.
AuditFieldsAgreed ==
    ~apart => [node |-> ac.node, session |-> ac.session, reason |-> ac.reason] = agreed

PhasesBefore ==
    [IDLE |-> 0, KNOCK_SENT |-> 1, POLICY_EVAL |-> 2, TUNNEL_PROVISIONED |-> 3,
     SESSION_ACTIVE |-> 4]

\* What the fields of a machine say of its past: an open handshake has counted
\* exactly the phases before it, a session is active only with a node and a session
\* identifier, and a reason is recorded exactly when the machine is terminated.
FieldsFollowPhase(m) ==
    /\ IF m.state = "SESSION_TERMINATED" THEN m.transitions >= 1
                                         ELSE m.transitions = PhasesBefore[m.state]
    /\ (m.transitions > 0 /\ m.state # "SESSION_TERMINATED") => m.node # None
    /\ m.state = "SESSION_ACTIVE" => m.session # None
    /\ m.reason # None <=> m.state = "SESSION_TERMINATED"

\* It holds of both machines, whatever calls were refused and however far apart they are.
BothFieldsFollowPhase == FieldsFollowPhase(pdp) /\ FieldsFollowPhase(ac)

\* The Python machine, with its table and its early assignments, enters the phases
\* in order, and starts again only after termination.
PdpImplementsLifecycle == Pdp!LifecycleSpec

\* So does the Rust machine, whose reset is the one step it adds.
AcImplementsAllButReset ==
    Ac!LifecycleInit /\ [][Ac!Advance \/ Ac!Terminate \/ ac.state' = "IDLE"]_(ac.state)

\* state_machine.py:79 "Termination reason if state is SESSION_TERMINATED": the
\* reason is that of the call that terminated the session.
ReasonOfTermination ==
    pdp.state = "SESSION_TERMINATED" /\ ~apart => pdp.reason = agreed.reason

\* nhp_state_machine.rs:27 "mirrors the Python implementation".
Mirrors == pdp.state = ac.state
=============================================================================
