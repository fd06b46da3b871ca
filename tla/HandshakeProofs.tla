--------------------------- MODULE HandshakeProofs ---------------------------
(***************************************************************************)
(* Proofs about Handshake: for every set of nodes, sessions and reasons,   *)
(* what the fields of a machine say of its phase, how long the two         *)
(* machines stay alike, and that each keeps to the abstract life cycle.    *)
(***************************************************************************)
EXTENDS Handshake, TLAPS

\* A machine whose fields have their types and fit its phase.
WellFormed(m) == m \in Machine /\ FieldsFollowPhase(m)

IInv ==
    /\ TypeOK
    /\ WellFormed(pdp)
    /\ WellFormed(ac)
    /\ MirrorUntilReset
    /\ AuditFieldsAgreed

-----------------------------------------------------------------------------
LEMMA FreshWell == WellFormed(Fresh)
  BY HandshakeAssumption DEF PhasesBefore, WellFormed, Machine, NhpState, FieldsFollowPhase, Fresh

\* Assigning a field, or entering a state, changes nothing else of a machine.
LEMMA AssignFields ==
    ASSUME NEW m \in Machine
    PROVE  /\ \A n \in NodeId : [m EXCEPT !.node = n] \in Machine
           /\ \A s \in Session : [m EXCEPT !.session = s] \in Machine
           /\ \A r \in Reason : [m EXCEPT !.reason = r] \in Machine
  BY DEF Machine

LEMMA EnterFields ==
    ASSUME NEW m \in Machine, NEW target \in NhpState, m.transitions <= 4
    PROVE  LET e == Enter(m, target)
           IN  /\ e \in Machine
               /\ e.state = target /\ e.transitions = m.transitions + 1
               /\ e.node = m.node /\ e.session = m.session /\ e.reason = m.reason
<1>1. m.transitions \in 0..4 /\ m.transitions + 1 \in 0..5
  BY DEF Machine
<1> QED
  BY <1>1 DEF Enter, Machine

LEMMA MachineFields ==
    ASSUME NEW m, WellFormed(m)
    PROVE  /\ m \in Machine /\ m.state \in NhpState
           /\ m.transitions \in 0..5
           /\ m.state # "SESSION_TERMINATED"
                => m.transitions = PhasesBefore[m.state] /\ m.transitions <= 4
  BY DEF WellFormed, Machine, NhpState, FieldsFollowPhase, PhasesBefore

\* Entering the next phase, or termination, with what it needs keeps a machine well formed.
LEMMA EnterWell ==
    ASSUME NEW m \in Machine, NEW target \in NhpState \ {"IDLE"},
           m.transitions <= 4,
           IF target = "SESSION_TERMINATED"
           THEN m.reason # None
           ELSE m.reason = None /\ m.node # None /\ m.transitions + 1 = PhasesBefore[target],
           target = "SESSION_ACTIVE" => m.session # None
    PROVE  WellFormed(Enter(m, target))
<1> DEFINE e == Enter(m, target)
<1>1. /\ e \in Machine
      /\ e.state = target /\ e.transitions = m.transitions + 1
      /\ e.node = m.node /\ e.session = m.session /\ e.reason = m.reason
  BY EnterFields
<1>2. m.transitions \in 0..5
  BY DEF Machine
<1> HIDE DEF e
<1>3. WellFormed(e)
  BY <1>1, <1>2 DEF WellFormed, FieldsFollowPhase
<1> QED
  BY <1>3 DEF e

LEMMA PyWell ==
    ASSUME NEW m, WellFormed(m)
    PROVE  /\ \A n \in NodeId : WellFormed(PyProcessKnk(m, n).machine)
           /\ WellFormed(PyTransition(m, "POLICY_EVAL").machine)
           /\ WellFormed(PyTransition(m, "TUNNEL_PROVISIONED").machine)
           /\ \A s \in Session : WellFormed(PyActivate(m, s).machine)
           /\ \A r \in Reason : WellFormed(PyTerminate(m, r).machine)
           /\ WellFormed(PyReset(m).machine)
<1>0. /\ m \in Machine /\ m.state \in NhpState /\ m.transitions \in 0..5
      /\ m.state # "SESSION_TERMINATED" =>
            m.transitions = PhasesBefore[m.state] /\ m.transitions <= 4 /\ m.reason = None
      /\ (m.transitions > 0 /\ m.state # "SESSION_TERMINATED") => m.node # None
  BY MachineFields DEF WellFormed, FieldsFollowPhase
<1>1. ASSUME NEW n \in NodeId PROVE WellFormed(PyProcessKnk(m, n).machine)
  <2> DEFINE m2 == [m EXCEPT !.node = n]
  <2>1. m2 \in Machine /\ m2.state = m.state /\ m2.transitions = m.transitions
        /\ m2.node = n /\ m2.reason = m.reason
    BY <1>0, AssignFields DEF Machine
  <2>2. CASE m.state = "IDLE"
    <3>0. /\ m2.transitions = 0 /\ m2.reason = None /\ m2.node # None
          /\ PhasesBefore["KNOCK_SENT"] = 1 /\ "KNOCK_SENT" \in NhpState \ {"IDLE"}
      BY <1>0, <2>1, <2>2, HandshakeAssumption DEF PhasesBefore, NhpState
    <3>1. WellFormed(Enter(m2, "KNOCK_SENT"))
      <4> HIDE DEF m2
      <4> QED
        BY <2>1, <3>0, EnterWell
    <3> QED
      BY <2>1, <2>2, <3>1 DEF PyProcessKnk, PyTransition, Valid, Accept
  <2>3. CASE m.state # "IDLE"
    BY <2>3 DEF PyProcessKnk, Refuse
  <2> QED
    BY <2>2, <2>3
<1>2. WellFormed(PyTransition(m, "POLICY_EVAL").machine)
  <2>1. CASE m.state = "KNOCK_SENT"
    <3>1. WellFormed(Enter(m, "POLICY_EVAL"))
      BY <1>0, <2>1, EnterWell DEF NhpState, PhasesBefore
    <3> QED
      BY <2>1, <3>1 DEF PyTransition, Valid, Accept
  <2>2. CASE m.state # "KNOCK_SENT"
    BY <1>0, <2>2 DEF PyTransition, Valid, Refuse, NhpState
  <2> QED
    BY <2>1, <2>2
<1>3. WellFormed(PyTransition(m, "TUNNEL_PROVISIONED").machine)
  <2>1. CASE m.state = "POLICY_EVAL"
    <3>1. WellFormed(Enter(m, "TUNNEL_PROVISIONED"))
      BY <1>0, <2>1, EnterWell DEF NhpState, PhasesBefore
    <3> QED
      BY <2>1, <3>1 DEF PyTransition, Valid, Accept
  <2>2. CASE m.state # "POLICY_EVAL"
    BY <1>0, <2>2 DEF PyTransition, Valid, Refuse, NhpState
  <2> QED
    BY <2>1, <2>2
<1>4. ASSUME NEW s \in Session PROVE WellFormed(PyActivate(m, s).machine)
  <2> DEFINE m2 == [m EXCEPT !.session = s]
  <2>1. m2 \in Machine /\ m2.state = m.state /\ m2.transitions = m.transitions
        /\ m2.node = m.node /\ m2.reason = m.reason /\ m2.session = s /\ s # None
    BY <1>0, AssignFields, HandshakeAssumption DEF Machine
  <2>2. CASE m.state = "TUNNEL_PROVISIONED"
    <3>0. /\ m2.transitions = 3 /\ m2.reason = None /\ m2.node # None
          /\ PhasesBefore["SESSION_ACTIVE"] = 4 /\ "SESSION_ACTIVE" \in NhpState \ {"IDLE"}
      BY <1>0, <2>1, <2>2 DEF PhasesBefore, NhpState
    <3>1. WellFormed(Enter(m2, "SESSION_ACTIVE"))
      <4> HIDE DEF m2
      <4> QED
        BY <2>1, <3>0, EnterWell
    <3> QED
      BY <2>1, <2>2, <3>1 DEF PyActivate, PyTransition, Valid, Accept
  <2>3. CASE m.state # "TUNNEL_PROVISIONED"
    <3>1. WellFormed(m2)
      BY <2>1 DEF WellFormed, FieldsFollowPhase
    <3>2. PyActivate(m, s).machine = m2
      BY <1>0, <2>1, <2>3 DEF PyActivate, PyTransition, Valid, Refuse, NhpState
    <3> QED
      BY <3>1, <3>2
  <2> QED
    BY <2>2, <2>3
<1>5. ASSUME NEW r \in Reason PROVE WellFormed(PyTerminate(m, r).machine)
  <2> DEFINE m2 == [m EXCEPT !.reason = r]
  <2>1. m2 \in Machine /\ m2.state = m.state /\ m2.transitions = m.transitions
        /\ m2.reason = r /\ r # None /\ m2.node = m.node /\ m2.session = m.session
    BY <1>0, AssignFields, HandshakeAssumption DEF Machine
  <2>2. CASE m.state # "SESSION_TERMINATED"
    <3>1. WellFormed(Enter(m2, "SESSION_TERMINATED"))
      BY <1>0, <2>1, <2>2, EnterWell DEF NhpState
    <3>2. PyTerminate(m, r).machine = Enter(m2, "SESSION_TERMINATED")
      BY <1>0, <2>1, <2>2 DEF PyTerminate, PyTransition, Valid, Accept, NhpState
    <3> QED
      BY <3>1, <3>2
  <2>3. CASE m.state = "SESSION_TERMINATED"
    <3>1. WellFormed(m2)
      BY <2>1, <2>3 DEF WellFormed, FieldsFollowPhase
    <3>2. PyTerminate(m, r).machine = m2
      BY <2>1, <2>3 DEF PyTerminate, PyTransition, Valid, Refuse
    <3> QED
      BY <3>1, <3>2
  <2> QED
    BY <2>2, <2>3
<1>6. WellFormed(PyReset(m).machine)
  BY FreshWell DEF PyReset, Accept, Refuse
<1> QED
  BY <1>1, <1>2, <1>3, <1>4, <1>5, <1>6

LEMMA RsWell ==
    ASSUME NEW m, WellFormed(m)
    PROVE  /\ \A n \in NodeId : WellFormed(RsProcessKnk(m, n).machine)
           /\ WellFormed(RsTransition(m, "KNOCK_SENT", m, "POLICY_EVAL").machine)
           /\ WellFormed(RsTransition(m, "POLICY_EVAL", m, "TUNNEL_PROVISIONED").machine)
           /\ \A s \in Session : WellFormed(RsActivate(m, s).machine)
           /\ \A r \in Reason : WellFormed(RsTerminate(m, r).machine)
           /\ WellFormed(RsReset(m).machine)
<1>0. /\ m \in Machine /\ m.state \in NhpState /\ m.transitions \in 0..5
      /\ m.state # "SESSION_TERMINATED" =>
            m.transitions = PhasesBefore[m.state] /\ m.transitions <= 4 /\ m.reason = None
      /\ (m.transitions > 0 /\ m.state # "SESSION_TERMINATED") => m.node # None
  BY MachineFields DEF WellFormed, FieldsFollowPhase
<1>1. ASSUME NEW n \in NodeId PROVE WellFormed(RsProcessKnk(m, n).machine)
  <2> DEFINE m2 == [m EXCEPT !.node = n]
  <2>1. m2 \in Machine /\ m2.state = m.state /\ m2.transitions = m.transitions
        /\ m2.node = n /\ m2.reason = m.reason
    BY <1>0, AssignFields DEF Machine
  <2>2. CASE m.state = "IDLE"
    <3>0. /\ m2.transitions = 0 /\ m2.reason = None /\ m2.node # None
          /\ PhasesBefore["KNOCK_SENT"] = 1 /\ "KNOCK_SENT" \in NhpState \ {"IDLE"}
      BY <1>0, <2>1, <2>2, HandshakeAssumption DEF PhasesBefore, NhpState
    <3>1. WellFormed(Enter(m2, "KNOCK_SENT"))
      <4> HIDE DEF m2
      <4> QED
        BY <2>1, <3>0, EnterWell
    <3> QED
      BY <2>2, <3>1 DEF RsProcessKnk, RsTransition, Accept
  <2>3. CASE m.state # "IDLE"
    BY <2>3 DEF RsProcessKnk, RsTransition, Refuse
  <2> QED
    BY <2>2, <2>3
<1>2. WellFormed(RsTransition(m, "KNOCK_SENT", m, "POLICY_EVAL").machine)
  <2>1. CASE m.state = "KNOCK_SENT"
    <3>1. WellFormed(Enter(m, "POLICY_EVAL"))
      BY <1>0, <2>1, EnterWell DEF NhpState, PhasesBefore
    <3> QED
      BY <2>1, <3>1 DEF RsTransition, Accept
  <2>2. CASE m.state # "KNOCK_SENT"
    BY <2>2 DEF RsTransition, Refuse
  <2> QED
    BY <2>1, <2>2
<1>3. WellFormed(RsTransition(m, "POLICY_EVAL", m, "TUNNEL_PROVISIONED").machine)
  <2>1. CASE m.state = "POLICY_EVAL"
    <3>1. WellFormed(Enter(m, "TUNNEL_PROVISIONED"))
      BY <1>0, <2>1, EnterWell DEF NhpState, PhasesBefore
    <3> QED
      BY <2>1, <3>1 DEF RsTransition, Accept
  <2>2. CASE m.state # "POLICY_EVAL"
    BY <2>2 DEF RsTransition, Refuse
  <2> QED
    BY <2>1, <2>2
<1>4. ASSUME NEW s \in Session PROVE WellFormed(RsActivate(m, s).machine)
  <2> DEFINE m2 == [m EXCEPT !.session = s]
  <2>1. m2 \in Machine /\ m2.state = m.state /\ m2.transitions = m.transitions
        /\ m2.node = m.node /\ m2.reason = m.reason /\ m2.session = s /\ s # None
    BY <1>0, AssignFields, HandshakeAssumption DEF Machine
  <2>2. CASE m.state = "TUNNEL_PROVISIONED"
    <3>0. /\ m2.transitions = 3 /\ m2.reason = None /\ m2.node # None
          /\ PhasesBefore["SESSION_ACTIVE"] = 4 /\ "SESSION_ACTIVE" \in NhpState \ {"IDLE"}
      BY <1>0, <2>1, <2>2 DEF PhasesBefore, NhpState
    <3>1. WellFormed(Enter(m2, "SESSION_ACTIVE"))
      <4> HIDE DEF m2
      <4> QED
        BY <2>1, <3>0, EnterWell
    <3> QED
      BY <2>2, <3>1 DEF RsActivate, RsTransition, Accept
  <2>3. CASE m.state # "TUNNEL_PROVISIONED"
    BY <2>3 DEF RsActivate, RsTransition, Refuse
  <2> QED
    BY <2>2, <2>3
<1>5. ASSUME NEW r \in Reason PROVE WellFormed(RsTerminate(m, r).machine)
  <2> DEFINE m2 == [m EXCEPT !.reason = r]
  <2>1. m2 \in Machine /\ m2.state = m.state /\ m2.transitions = m.transitions
        /\ m2.reason = r /\ r # None
    BY <1>0, AssignFields, HandshakeAssumption DEF Machine
  <2>2. CASE m.state # "SESSION_TERMINATED"
    <3>1. WellFormed(Enter(m2, "SESSION_TERMINATED"))
      BY <1>0, <2>1, <2>2, EnterWell DEF NhpState
    <3> QED
      BY <2>2, <3>1 DEF RsTerminate, Accept
  <2>3. CASE m.state = "SESSION_TERMINATED"
    BY <2>3 DEF RsTerminate, Refuse
  <2> QED
    BY <2>2, <2>3
<1>6. WellFormed(RsReset(m).machine)
  BY FreshWell DEF RsReset, Accept
<1> QED
  BY <1>1, <1>2, <1>3, <1>4, <1>5, <1>6

-----------------------------------------------------------------------------
\* The part of the invariant that relates the two machines to each other and to the
\* history.
History ==
    /\ ok \in SUBSET {"pdp", "ac"}
    /\ agreed \in [node : NodeId \cup {None}, session : Session \cup {None},
                   reason : Reason \cup {None}]
    /\ apart \in BOOLEAN
    /\ MirrorUntilReset
    /\ AuditFieldsAgreed

\* What a call made of both machines does to History: nothing while they are apart,
\* and otherwise it is enough that they answer it alike and agree on the fields.
LEMMA CallKeepsHistory ==
    ASSUME History, NEW py, NEW rs, Call(py, rs), apart' = apart,
           py.accepted \in BOOLEAN, rs.accepted \in BOOLEAN,
           agreed' \in [node : NodeId \cup {None}, session : Session \cup {None},
                       reason : Reason \cup {None}],
           ~apart => /\ (py.accepted <=> rs.accepted)
                     /\ py.machine.state = rs.machine.state
                     /\ py.machine.transitions = rs.machine.transitions
                     /\ py.machine.node = rs.machine.node
                     /\ agreed' = [node |-> rs.machine.node, session |-> rs.machine.session,
                                   reason |-> rs.machine.reason]
    PROVE  History'
<1>1. ok' \in SUBSET {"pdp", "ac"}
  BY DEF Call
<1>2. ~apart => ok' \in {{}, {"pdp", "ac"}}
  <2> SUFFICES ASSUME ~apart PROVE ok' \in {{}, {"pdp", "ac"}}
    OBVIOUS
  <2>1. CASE py.accepted
    BY <2>1 DEF Call
  <2>2. CASE ~py.accepted
    BY <2>2 DEF Call
  <2> QED
    BY <2>1, <2>2
<1> QED
  BY <1>1, <1>2 DEF History, Call, MirrorUntilReset, AuditFieldsAgreed

\* A call is accepted by both or not: what ok' says.
LEMMA BothIff ==
    ASSUME NEW py, NEW rs, Call(py, rs), py.accepted \in BOOLEAN, rs.accepted \in BOOLEAN
    PROVE  Both <=> py.accepted /\ rs.accepted
<1>1. "pdp" \in ok' <=> py.accepted
  BY DEF Call
<1>2. "ac" \in ok' <=> rs.accepted
  BY DEF Call
<1>3. ok' \subseteq {"pdp", "ac"}
  BY DEF Call
<1> QED
  BY <1>1, <1>2, <1>3 DEF Both

LEMMA ProcessKnkStep ==
    ASSUME IInv, NEW n \in NodeId, ProcessKnk(n)
    PROVE  History'
<1> DEFINE py == PyProcessKnk(pdp, n)
           rs == RsProcessKnk(ac, n)
           p2 == [pdp EXCEPT !.node = n]
           a2 == [ac EXCEPT !.node = n]
<1>1. History /\ WellFormed(pdp) /\ WellFormed(ac)
  BY DEF IInv, History, TypeOK
<1>2. Call(py, rs) /\ apart' = apart /\ agreed' = IF Both THEN [agreed EXCEPT !.node = n] ELSE agreed
  BY DEF ProcessKnk
<1>3. /\ p2 \in Machine /\ p2.node = n /\ p2.transitions = pdp.transitions /\ p2.state = pdp.state
      /\ a2 \in Machine /\ a2.node = n /\ a2.transitions = ac.transitions /\ a2.state = ac.state
      /\ a2.session = ac.session /\ a2.reason = ac.reason
  BY <1>1, AssignFields DEF WellFormed, Machine
<1>4. pdp.state = "IDLE" => py = Accept(Enter(p2, "KNOCK_SENT")) /\ p2.transitions <= 4
  BY <1>1, <1>3, MachineFields DEF PyProcessKnk, PyTransition, Valid
<1>5. pdp.state # "IDLE" => py = Refuse(pdp)
  BY DEF PyProcessKnk
<1>6. ac.state = "IDLE" => rs = Accept(Enter(a2, "KNOCK_SENT")) /\ a2.transitions <= 4
  BY <1>1, <1>3, MachineFields DEF RsProcessKnk, RsTransition
<1>7. ac.state # "IDLE" => rs = Refuse(ac)
  BY DEF RsProcessKnk, RsTransition
<1>8. /\ py.accepted \in BOOLEAN /\ (py.accepted <=> pdp.state = "IDLE")
      /\ rs.accepted \in BOOLEAN /\ (rs.accepted <=> ac.state = "IDLE")
  <2>1. pdp.state = "IDLE" => py.accepted = TRUE
    BY <1>4 DEF Accept
  <2>2. pdp.state # "IDLE" => py.accepted = FALSE
    BY <1>5 DEF Refuse
  <2>3. ac.state = "IDLE" => rs.accepted = TRUE
    BY <1>6 DEF Accept
  <2>4. ac.state # "IDLE" => rs.accepted = FALSE
    BY <1>7 DEF Refuse
  <2> HIDE DEF py, rs
  <2> QED
    BY <2>1, <2>2, <2>3, <2>4
<1>9. Both <=> pdp.state = "IDLE" /\ ac.state = "IDLE"
  BY <1>2, <1>8, BothIff
<1>10. agreed' \in [node : NodeId \cup {None}, session : Session \cup {None},
                   reason : Reason \cup {None}]
  BY <1>1, <1>2 DEF History
<1>11. ASSUME ~apart
       PROVE  /\ (py.accepted <=> rs.accepted)
              /\ py.machine.state = rs.machine.state
              /\ py.machine.transitions = rs.machine.transitions
              /\ py.machine.node = rs.machine.node
              /\ agreed' = [node |-> rs.machine.node, session |-> rs.machine.session,
                            reason |-> rs.machine.reason]
  <2>1. /\ pdp.state = ac.state /\ pdp.transitions = ac.transitions /\ pdp.node = ac.node
        /\ agreed = [node |-> ac.node, session |-> ac.session, reason |-> ac.reason]
    BY <1>1, <1>11 DEF History, MirrorUntilReset, AuditFieldsAgreed
  <2>2. CASE ac.state = "IDLE"
    <3>1. py.machine = Enter(p2, "KNOCK_SENT") /\ rs.machine = Enter(a2, "KNOCK_SENT")
      BY <1>4, <1>6, <2>1, <2>2 DEF Accept
    <3>2. /\ rs.machine.state = "KNOCK_SENT" /\ rs.machine.transitions = ac.transitions + 1
          /\ rs.machine.node = n /\ rs.machine.session = ac.session
          /\ rs.machine.reason = ac.reason
      <4> HIDE DEF a2
      <4> QED
        BY <1>3, <1>6, <2>2, <3>1, EnterFields DEF NhpState
    <3>3. /\ py.machine.state = "KNOCK_SENT" /\ py.machine.transitions = pdp.transitions + 1
          /\ py.machine.node = n
      <4> HIDE DEF p2
      <4> QED
        BY <1>3, <1>4, <2>1, <2>2, <3>1, EnterFields DEF NhpState
    <3>4. agreed' = [node |-> n, session |-> ac.session, reason |-> ac.reason]
      BY <1>2, <1>9, <2>1, <2>2
    <3> QED
      BY <1>8, <2>1, <3>2, <3>3, <3>4
  <2>3. CASE ac.state # "IDLE"
    BY <1>2, <1>5, <1>7, <1>8, <1>9, <2>1, <2>3 DEF Refuse
  <2> QED
    BY <2>2, <2>3
<1> HIDE DEF py, rs
<1> QED
  BY <1>1, <1>2, <1>8, <1>10, <1>11, CallKeepsHistory

LEMMA EvaluatePolicyStep ==
    ASSUME IInv, EvaluatePolicy
    PROVE  History'
<1> DEFINE py == PyTransition(pdp, "POLICY_EVAL")
           rs == RsTransition(ac, "KNOCK_SENT", ac, "POLICY_EVAL")
<1>1. History /\ WellFormed(pdp) /\ WellFormed(ac)
  BY DEF IInv, History, TypeOK
<1>2. Call(py, rs) /\ apart' = apart /\ agreed' = agreed
  BY DEF EvaluatePolicy
<1>3. pdp \in Machine /\ ac \in Machine /\ pdp.state \in NhpState
  BY <1>1, MachineFields
<1>4. pdp.state = "KNOCK_SENT" => py = Accept(Enter(pdp, "POLICY_EVAL")) /\ pdp.transitions <= 4
  BY <1>1, MachineFields DEF PyTransition, Valid
<1>5. ~(pdp.state = "KNOCK_SENT") => py = Refuse(pdp)
  BY <1>3 DEF PyTransition, Valid, NhpState
<1>6. ac.state = "KNOCK_SENT" => rs = Accept(Enter(ac, "POLICY_EVAL")) /\ ac.transitions <= 4
  BY <1>1, MachineFields DEF RsTransition
<1>7. ~(ac.state = "KNOCK_SENT") => rs = Refuse(ac)
  BY DEF RsTransition
<1>8. /\ py.accepted \in BOOLEAN /\ (py.accepted <=> pdp.state = "KNOCK_SENT")
      /\ rs.accepted \in BOOLEAN /\ (rs.accepted <=> ac.state = "KNOCK_SENT")
  <2>1. pdp.state = "KNOCK_SENT" => py.accepted = TRUE
    BY <1>4 DEF Accept
  <2>2. ~(pdp.state = "KNOCK_SENT") => py.accepted = FALSE
    BY <1>5 DEF Refuse
  <2>3. ac.state = "KNOCK_SENT" => rs.accepted = TRUE
    BY <1>6 DEF Accept
  <2>4. ~(ac.state = "KNOCK_SENT") => rs.accepted = FALSE
    BY <1>7 DEF Refuse
  <2> HIDE DEF py, rs
  <2> QED
    BY <2>1, <2>2, <2>3, <2>4
<1>9. agreed' \in [node : NodeId \cup {None}, session : Session \cup {None},
                   reason : Reason \cup {None}]
  BY <1>1, <1>2 DEF History
<1>10. ASSUME ~apart
       PROVE  /\ (py.accepted <=> rs.accepted)
              /\ py.machine.state = rs.machine.state
              /\ py.machine.transitions = rs.machine.transitions
              /\ py.machine.node = rs.machine.node
              /\ agreed' = [node |-> rs.machine.node, session |-> rs.machine.session,
                            reason |-> rs.machine.reason]
  <2>1. /\ pdp.state = ac.state /\ pdp.transitions = ac.transitions /\ pdp.node = ac.node
        /\ agreed = [node |-> ac.node, session |-> ac.session, reason |-> ac.reason]
    BY <1>1, <1>10 DEF History, MirrorUntilReset, AuditFieldsAgreed
  <2>2. CASE ac.state = "KNOCK_SENT"
    <3>1. py.machine = Enter(pdp, "POLICY_EVAL") /\ rs.machine = Enter(ac, "POLICY_EVAL")
      BY <1>4, <1>6, <2>1, <2>2 DEF Accept
    <3>2. /\ rs.machine.state = "POLICY_EVAL" /\ rs.machine.transitions = ac.transitions + 1
          /\ rs.machine.node = ac.node /\ rs.machine.session = ac.session
          /\ rs.machine.reason = ac.reason
      BY <1>3, <1>6, <2>2, <3>1, EnterFields DEF NhpState
    <3>3. /\ py.machine.state = "POLICY_EVAL" /\ py.machine.transitions = pdp.transitions + 1
          /\ py.machine.node = pdp.node
      BY <1>3, <1>4, <2>1, <2>2, <3>1, EnterFields DEF NhpState
    <3> QED
      BY <1>2, <1>8, <2>1, <3>2, <3>3
  <2>3. CASE ~(ac.state = "KNOCK_SENT")
    BY <1>2, <1>5, <1>7, <1>8, <2>1, <2>3 DEF Refuse
  <2> QED
    BY <2>2, <2>3
<1> HIDE DEF py, rs
<1> QED
  BY <1>1, <1>2, <1>8, <1>9, <1>10, CallKeepsHistory

LEMMA ProvisionTunnelStep ==
    ASSUME IInv, ProvisionTunnel
    PROVE  History'
<1> DEFINE py == PyTransition(pdp, "TUNNEL_PROVISIONED")
           rs == RsTransition(ac, "POLICY_EVAL", ac, "TUNNEL_PROVISIONED")
<1>1. History /\ WellFormed(pdp) /\ WellFormed(ac)
  BY DEF IInv, History, TypeOK
<1>2. Call(py, rs) /\ apart' = apart /\ agreed' = agreed
  BY DEF ProvisionTunnel
<1>3. pdp \in Machine /\ ac \in Machine /\ pdp.state \in NhpState
  BY <1>1, MachineFields
<1>4. pdp.state = "POLICY_EVAL" => py = Accept(Enter(pdp, "TUNNEL_PROVISIONED")) /\ pdp.transitions <= 4
  BY <1>1, MachineFields DEF PyTransition, Valid
<1>5. ~(pdp.state = "POLICY_EVAL") => py = Refuse(pdp)
  BY <1>3 DEF PyTransition, Valid, NhpState
<1>6. ac.state = "POLICY_EVAL" => rs = Accept(Enter(ac, "TUNNEL_PROVISIONED")) /\ ac.transitions <= 4
  BY <1>1, MachineFields DEF RsTransition
<1>7. ~(ac.state = "POLICY_EVAL") => rs = Refuse(ac)
  BY DEF RsTransition
<1>8. /\ py.accepted \in BOOLEAN /\ (py.accepted <=> pdp.state = "POLICY_EVAL")
      /\ rs.accepted \in BOOLEAN /\ (rs.accepted <=> ac.state = "POLICY_EVAL")
  <2>1. pdp.state = "POLICY_EVAL" => py.accepted = TRUE
    BY <1>4 DEF Accept
  <2>2. ~(pdp.state = "POLICY_EVAL") => py.accepted = FALSE
    BY <1>5 DEF Refuse
  <2>3. ac.state = "POLICY_EVAL" => rs.accepted = TRUE
    BY <1>6 DEF Accept
  <2>4. ~(ac.state = "POLICY_EVAL") => rs.accepted = FALSE
    BY <1>7 DEF Refuse
  <2> HIDE DEF py, rs
  <2> QED
    BY <2>1, <2>2, <2>3, <2>4
<1>9. agreed' \in [node : NodeId \cup {None}, session : Session \cup {None},
                   reason : Reason \cup {None}]
  BY <1>1, <1>2 DEF History
<1>10. ASSUME ~apart
       PROVE  /\ (py.accepted <=> rs.accepted)
              /\ py.machine.state = rs.machine.state
              /\ py.machine.transitions = rs.machine.transitions
              /\ py.machine.node = rs.machine.node
              /\ agreed' = [node |-> rs.machine.node, session |-> rs.machine.session,
                            reason |-> rs.machine.reason]
  <2>1. /\ pdp.state = ac.state /\ pdp.transitions = ac.transitions /\ pdp.node = ac.node
        /\ agreed = [node |-> ac.node, session |-> ac.session, reason |-> ac.reason]
    BY <1>1, <1>10 DEF History, MirrorUntilReset, AuditFieldsAgreed
  <2>2. CASE ac.state = "POLICY_EVAL"
    <3>1. py.machine = Enter(pdp, "TUNNEL_PROVISIONED") /\ rs.machine = Enter(ac, "TUNNEL_PROVISIONED")
      BY <1>4, <1>6, <2>1, <2>2 DEF Accept
    <3>2. /\ rs.machine.state = "TUNNEL_PROVISIONED" /\ rs.machine.transitions = ac.transitions + 1
          /\ rs.machine.node = ac.node /\ rs.machine.session = ac.session
          /\ rs.machine.reason = ac.reason
      BY <1>3, <1>6, <2>2, <3>1, EnterFields DEF NhpState
    <3>3. /\ py.machine.state = "TUNNEL_PROVISIONED" /\ py.machine.transitions = pdp.transitions + 1
          /\ py.machine.node = pdp.node
      BY <1>3, <1>4, <2>1, <2>2, <3>1, EnterFields DEF NhpState
    <3> QED
      BY <1>2, <1>8, <2>1, <3>2, <3>3
  <2>3. CASE ~(ac.state = "POLICY_EVAL")
    BY <1>2, <1>5, <1>7, <1>8, <2>1, <2>3 DEF Refuse
  <2> QED
    BY <2>2, <2>3
<1> HIDE DEF py, rs
<1> QED
  BY <1>1, <1>2, <1>8, <1>9, <1>10, CallKeepsHistory

LEMMA ActivateSessionStep ==
    ASSUME IInv, NEW s \in Session, ActivateSession(s)
    PROVE  History'
<1> DEFINE py == PyActivate(pdp, s)
           rs == RsActivate(ac, s)
           p2 == [pdp EXCEPT !.session = s]
           a2 == [ac EXCEPT !.session = s]
<1>1. History /\ WellFormed(pdp) /\ WellFormed(ac) /\ pdp.state \in NhpState
  BY MachineFields DEF IInv, History, TypeOK
<1>2. Call(py, rs) /\ apart' = apart
      /\ agreed' = IF Both THEN [agreed EXCEPT !.session = s] ELSE agreed
  BY DEF ActivateSession
<1>3. /\ p2 \in Machine /\ p2.node = pdp.node /\ p2.transitions = pdp.transitions
      /\ p2.state = pdp.state
      /\ a2 \in Machine /\ a2.node = ac.node /\ a2.transitions = ac.transitions
      /\ a2.state = ac.state /\ a2.session = s /\ a2.reason = ac.reason
  BY <1>1, AssignFields DEF WellFormed, Machine
<1>4. pdp.state = "TUNNEL_PROVISIONED" => py = Accept(Enter(p2, "SESSION_ACTIVE")) /\ p2.transitions <= 4
  BY <1>1, <1>3, MachineFields DEF PyActivate, PyTransition, Valid, NhpState
<1>5. ~(pdp.state = "TUNNEL_PROVISIONED") => py = Refuse(p2)
  BY <1>1, <1>3 DEF PyActivate, PyTransition, Valid, NhpState
<1>6. ac.state = "TUNNEL_PROVISIONED" => rs = Accept(Enter(a2, "SESSION_ACTIVE")) /\ a2.transitions <= 4
  BY <1>1, <1>3, MachineFields DEF RsActivate, RsTransition
<1>7. ~(ac.state = "TUNNEL_PROVISIONED") => rs = Refuse(ac)
  BY DEF RsActivate, RsTransition
<1>8. /\ py.accepted \in BOOLEAN /\ (py.accepted <=> pdp.state = "TUNNEL_PROVISIONED")
      /\ rs.accepted \in BOOLEAN /\ (rs.accepted <=> ac.state = "TUNNEL_PROVISIONED")
  <2>1. pdp.state = "TUNNEL_PROVISIONED" => py.accepted = TRUE
    BY <1>4 DEF Accept
  <2>2. ~(pdp.state = "TUNNEL_PROVISIONED") => py.accepted = FALSE
    BY <1>5 DEF Refuse
  <2>3. ac.state = "TUNNEL_PROVISIONED" => rs.accepted = TRUE
    BY <1>6 DEF Accept
  <2>4. ~(ac.state = "TUNNEL_PROVISIONED") => rs.accepted = FALSE
    BY <1>7 DEF Refuse
  <2> HIDE DEF py, rs
  <2> QED
    BY <2>1, <2>2, <2>3, <2>4
<1>9. Both <=> pdp.state = "TUNNEL_PROVISIONED" /\ ac.state = "TUNNEL_PROVISIONED"
  BY <1>2, <1>8, BothIff
<1>10. agreed' \in [node : NodeId \cup {None}, session : Session \cup {None},
                   reason : Reason \cup {None}]
  BY <1>1, <1>2 DEF History
<1>11. ASSUME ~apart
       PROVE  /\ (py.accepted <=> rs.accepted)
              /\ py.machine.state = rs.machine.state
              /\ py.machine.transitions = rs.machine.transitions
              /\ py.machine.node = rs.machine.node
              /\ agreed' = [node |-> rs.machine.node, session |-> rs.machine.session,
                            reason |-> rs.machine.reason]
  <2>1. /\ pdp.state = ac.state /\ pdp.transitions = ac.transitions /\ pdp.node = ac.node
        /\ agreed = [node |-> ac.node, session |-> ac.session, reason |-> ac.reason]
    BY <1>1, <1>11 DEF History, MirrorUntilReset, AuditFieldsAgreed
  <2>2. CASE ac.state = "TUNNEL_PROVISIONED"
    <3>1. py.machine = Enter(p2, "SESSION_ACTIVE") /\ rs.machine = Enter(a2, "SESSION_ACTIVE")
      BY <1>4, <1>6, <2>1, <2>2 DEF Accept
    <3>2. /\ rs.machine.state = "SESSION_ACTIVE" /\ rs.machine.transitions = ac.transitions + 1
          /\ rs.machine.node = ac.node /\ rs.machine.session = s
          /\ rs.machine.reason = ac.reason
      <4> HIDE DEF a2
      <4> QED
        BY <1>3, <1>6, <2>2, <3>1, EnterFields DEF NhpState
    <3>3. /\ py.machine.state = "SESSION_ACTIVE" /\ py.machine.transitions = pdp.transitions + 1
          /\ py.machine.node = pdp.node
      <4> HIDE DEF p2
      <4> QED
        BY <1>3, <1>4, <2>1, <2>2, <3>1, EnterFields DEF NhpState
    <3>4. agreed' = [node |-> ac.node, session |-> s, reason |-> ac.reason]
      BY <1>2, <1>9, <2>1, <2>2
    <3> QED
      BY <1>8, <2>1, <3>2, <3>3, <3>4
  <2>3. CASE ~(ac.state = "TUNNEL_PROVISIONED")
    <3>1. py.machine = p2 /\ rs.machine = ac
      BY <1>5, <1>7, <2>1, <2>3 DEF Refuse
    <3>2. agreed' = agreed
      BY <1>2, <1>9, <2>3
    <3> QED
      BY <1>3, <1>8, <2>1, <2>3, <3>1, <3>2
  <2> QED
    BY <2>2, <2>3
<1> HIDE DEF py, rs
<1> QED
  BY <1>1, <1>2, <1>8, <1>10, <1>11, CallKeepsHistory

LEMMA TerminateSessionStep ==
    ASSUME IInv, NEW r \in Reason, TerminateSession(r)
    PROVE  History'
<1> DEFINE py == PyTerminate(pdp, r)
           rs == RsTerminate(ac, r)
           p2 == [pdp EXCEPT !.reason = r]
           a2 == [ac EXCEPT !.reason = r]
<1>1. History /\ WellFormed(pdp) /\ WellFormed(ac) /\ pdp.state \in NhpState
  BY MachineFields DEF IInv, History, TypeOK
<1>2. Call(py, rs) /\ apart' = apart
      /\ agreed' = IF Both THEN [agreed EXCEPT !.reason = r] ELSE agreed
  BY DEF TerminateSession
<1>3. /\ p2 \in Machine /\ p2.node = pdp.node /\ p2.transitions = pdp.transitions
      /\ p2.state = pdp.state
      /\ a2 \in Machine /\ a2.node = ac.node /\ a2.transitions = ac.transitions
      /\ a2.state = ac.state /\ a2.reason = r /\ a2.session = ac.session
  BY <1>1, AssignFields DEF WellFormed, Machine
<1>4. pdp.state # "SESSION_TERMINATED" => py = Accept(Enter(p2, "SESSION_TERMINATED")) /\ p2.transitions <= 4
  BY <1>1, <1>3, MachineFields DEF PyTerminate, PyTransition, Valid, NhpState
<1>5. ~(pdp.state # "SESSION_TERMINATED") => py = Refuse(p2)
  BY <1>1, <1>3 DEF PyTerminate, PyTransition, Valid, NhpState
<1>6. ac.state # "SESSION_TERMINATED" => rs = Accept(Enter(a2, "SESSION_TERMINATED")) /\ a2.transitions <= 4
  BY <1>1, <1>3, MachineFields DEF RsTerminate
<1>7. ~(ac.state # "SESSION_TERMINATED") => rs = Refuse(ac)
  BY DEF RsTerminate
<1>8. /\ py.accepted \in BOOLEAN /\ (py.accepted <=> pdp.state # "SESSION_TERMINATED")
      /\ rs.accepted \in BOOLEAN /\ (rs.accepted <=> ac.state # "SESSION_TERMINATED")
  <2>1. pdp.state # "SESSION_TERMINATED" => py.accepted = TRUE
    BY <1>4 DEF Accept
  <2>2. ~(pdp.state # "SESSION_TERMINATED") => py.accepted = FALSE
    BY <1>5 DEF Refuse
  <2>3. ac.state # "SESSION_TERMINATED" => rs.accepted = TRUE
    BY <1>6 DEF Accept
  <2>4. ~(ac.state # "SESSION_TERMINATED") => rs.accepted = FALSE
    BY <1>7 DEF Refuse
  <2> HIDE DEF py, rs
  <2> QED
    BY <2>1, <2>2, <2>3, <2>4
<1>9. Both <=> pdp.state # "SESSION_TERMINATED" /\ ac.state # "SESSION_TERMINATED"
  BY <1>2, <1>8, BothIff
<1>10. agreed' \in [node : NodeId \cup {None}, session : Session \cup {None},
                   reason : Reason \cup {None}]
  BY <1>1, <1>2 DEF History
<1>11. ASSUME ~apart
       PROVE  /\ (py.accepted <=> rs.accepted)
              /\ py.machine.state = rs.machine.state
              /\ py.machine.transitions = rs.machine.transitions
              /\ py.machine.node = rs.machine.node
              /\ agreed' = [node |-> rs.machine.node, session |-> rs.machine.session,
                            reason |-> rs.machine.reason]
  <2>1. /\ pdp.state = ac.state /\ pdp.transitions = ac.transitions /\ pdp.node = ac.node
        /\ agreed = [node |-> ac.node, session |-> ac.session, reason |-> ac.reason]
    BY <1>1, <1>11 DEF History, MirrorUntilReset, AuditFieldsAgreed
  <2>2. CASE ac.state # "SESSION_TERMINATED"
    <3>1. py.machine = Enter(p2, "SESSION_TERMINATED") /\ rs.machine = Enter(a2, "SESSION_TERMINATED")
      BY <1>4, <1>6, <2>1, <2>2 DEF Accept
    <3>2. /\ rs.machine.state = "SESSION_TERMINATED" /\ rs.machine.transitions = ac.transitions + 1
          /\ rs.machine.node = ac.node /\ rs.machine.reason = r
          /\ rs.machine.session = ac.session
      <4> HIDE DEF a2
      <4> QED
        BY <1>3, <1>6, <2>2, <3>1, EnterFields DEF NhpState
    <3>3. /\ py.machine.state = "SESSION_TERMINATED" /\ py.machine.transitions = pdp.transitions + 1
          /\ py.machine.node = pdp.node
      <4> HIDE DEF p2
      <4> QED
        BY <1>3, <1>4, <2>1, <2>2, <3>1, EnterFields DEF NhpState
    <3>4. agreed' = [node |-> ac.node, session |-> ac.session, reason |-> r]
      BY <1>2, <1>9, <2>1, <2>2
    <3> QED
      BY <1>8, <2>1, <3>2, <3>3, <3>4
  <2>3. CASE ~(ac.state # "SESSION_TERMINATED")
    <3>1. py.machine = p2 /\ rs.machine = ac
      BY <1>5, <1>7, <2>1, <2>3 DEF Refuse
    <3>2. agreed' = agreed
      BY <1>2, <1>9, <2>3
    <3> QED
      BY <1>3, <1>8, <2>1, <2>3, <3>1, <3>2
  <2> QED
    BY <2>2, <2>3
<1> HIDE DEF py, rs
<1> QED
  BY <1>1, <1>2, <1>8, <1>10, <1>11, CallKeepsHistory

\* A reset leaves the two together, or apart.
LEMMA ResetStep ==
    ASSUME IInv, Reset
    PROVE  History'
<1>1. Call(PyReset(pdp), RsReset(ac)) /\ apart' = ~Both
      /\ agreed' = IF Both THEN NothingAgreed ELSE agreed
  BY DEF Reset
<1>2. /\ PyReset(pdp).accepted \in BOOLEAN /\ RsReset(ac).accepted \in BOOLEAN
      /\ PyReset(pdp).accepted => PyReset(pdp).machine = Fresh
      /\ RsReset(ac).machine = Fresh
  BY DEF PyReset, RsReset, Accept, Refuse
<1>3. Both => pdp' = Fresh /\ ac' = Fresh
  BY <1>1, <1>2, BothIff DEF Call
<1>4. /\ ok' \in SUBSET {"pdp", "ac"} /\ apart' \in BOOLEAN
      /\ agreed' \in [node : NodeId \cup {None}, session : Session \cup {None},
                      reason : Reason \cup {None}]
  BY <1>1 DEF IInv, TypeOK, Call, NothingAgreed, Both
<1>5. ~apart' => pdp' = Fresh /\ ac' = Fresh /\ ok' = {"pdp", "ac"} /\ agreed' = NothingAgreed
  <2>1. Both <=> ok' = {"pdp", "ac"}
    BY DEF Both
  <2> QED
    BY <1>1, <1>3, <2>1
<1>6. MirrorUntilReset'
  BY <1>5 DEF MirrorUntilReset
<1>7. AuditFieldsAgreed'
  BY <1>5 DEF AuditFieldsAgreed, Fresh, NothingAgreed
<1> QED
  BY <1>4, <1>6, <1>7 DEF History

-----------------------------------------------------------------------------
\* Every call leaves both machines well formed.
LEMMA StepWell ==
    ASSUME IInv, Next
    PROVE  WellFormed(pdp') /\ WellFormed(ac')
<1>1. WellFormed(pdp) /\ WellFormed(ac)
  BY DEF IInv
<1> HIDE DEF WellFormed
<1>2. ASSUME NEW n \in NodeId, ProcessKnk(n) PROVE WellFormed(pdp') /\ WellFormed(ac')
  <2>1. /\ pdp' = PyProcessKnk(pdp, n).machine
        /\ ac' = RsProcessKnk(ac, n).machine
    BY <1>2 DEF ProcessKnk, Call
  <2> QED
    BY <1>1, <2>1, PyWell, RsWell
<1>3. ASSUME EvaluatePolicy PROVE WellFormed(pdp') /\ WellFormed(ac')
  <2>1. /\ pdp' = PyTransition(pdp, "POLICY_EVAL").machine
        /\ ac' = RsTransition(ac, "KNOCK_SENT", ac, "POLICY_EVAL").machine
    BY <1>3 DEF EvaluatePolicy, Call
  <2> QED
    BY <1>1, <2>1, PyWell, RsWell
<1>4. ASSUME ProvisionTunnel PROVE WellFormed(pdp') /\ WellFormed(ac')
  <2>1. /\ pdp' = PyTransition(pdp, "TUNNEL_PROVISIONED").machine
        /\ ac' = RsTransition(ac, "POLICY_EVAL", ac, "TUNNEL_PROVISIONED").machine
    BY <1>4 DEF ProvisionTunnel, Call
  <2> QED
    BY <1>1, <2>1, PyWell, RsWell
<1>5. ASSUME NEW s \in Session, ActivateSession(s) PROVE WellFormed(pdp') /\ WellFormed(ac')
  <2>1. /\ pdp' = PyActivate(pdp, s).machine
        /\ ac' = RsActivate(ac, s).machine
    BY <1>5 DEF ActivateSession, Call
  <2> QED
    BY <1>1, <2>1, PyWell, RsWell
<1>6. ASSUME NEW r \in Reason, TerminateSession(r) PROVE WellFormed(pdp') /\ WellFormed(ac')
  <2>1. /\ pdp' = PyTerminate(pdp, r).machine
        /\ ac' = RsTerminate(ac, r).machine
    BY <1>6 DEF TerminateSession, Call
  <2> QED
    BY <1>1, <2>1, PyWell, RsWell
<1>7. ASSUME Reset PROVE WellFormed(pdp') /\ WellFormed(ac')
  <2>1. /\ pdp' = PyReset(pdp).machine
        /\ ac' = RsReset(ac).machine
    BY <1>7 DEF Reset, Call
  <2> QED
    BY <1>1, <2>1, PyWell, RsWell
<1> QED
  BY <1>2, <1>3, <1>4, <1>5, <1>6, <1>7 DEF Next

LEMMA StepHistory ==
    ASSUME IInv, Next
    PROVE  History'
<1>1. ASSUME NEW n \in NodeId, ProcessKnk(n) PROVE History'
  BY <1>1, ProcessKnkStep
<1>2. ASSUME NEW s \in Session, ActivateSession(s) PROVE History'
  BY <1>2, ActivateSessionStep
<1>3. ASSUME NEW r \in Reason, TerminateSession(r) PROVE History'
  BY <1>3, TerminateSessionStep
<1> QED
  BY <1>1, <1>2, <1>3, EvaluatePolicyStep, ProvisionTunnelStep, ResetStep DEF Next

\*\* The invariant is its two halves: each machine alone, and what relates them.
LEMMA Halves == IInv <=> WellFormed(pdp) /\ WellFormed(ac) /\ History
  BY DEF IInv, TypeOK, WellFormed, History

LEMMA InitIInv == Init => IInv
<1> SUFFICES ASSUME Init PROVE IInv
  OBVIOUS
<1>1. WellFormed(pdp) /\ WellFormed(ac)
  BY FreshWell DEF Init
<1>2. History
  BY DEF Init, Fresh, NothingAgreed, History, MirrorUntilReset, AuditFieldsAgreed
<1> QED
  BY <1>1, <1>2, Halves

-----------------------------------------------------------------------------
\* The inductive invariant holds in every reachable state.
THEOREM Invariance == Spec => []IInv
<1>1. Init => IInv
  BY InitIInv
<1>2. IInv /\ [Next]_vars => IInv'
  <2> SUFFICES ASSUME IInv, [Next]_vars PROVE IInv'
    OBVIOUS
  <2>1. CASE Next
    <3>1. WellFormed(pdp)' /\ WellFormed(ac)'
      BY <2>1, StepWell DEF WellFormed, FieldsFollowPhase
    <3>2. History'
      BY <2>1, StepHistory
    <3> QED
      BY <3>1, <3>2, Halves DEF IInv, TypeOK, WellFormed, History
  <2>2. CASE UNCHANGED vars
    BY <2>2 DEF vars, IInv, TypeOK, WellFormed, FieldsFollowPhase, MirrorUntilReset,
                AuditFieldsAgreed
  <2> QED
    BY <2>1, <2>2
<1> QED
  BY <1>1, <1>2, PTL DEF Spec

\* The fields of both machines keep their types: no counter exceeds five.
THEOREM TypeCorrect == Spec => []TypeOK
<1>1. IInv => TypeOK
  BY DEF IInv
<1> QED
  BY <1>1, Invariance, PTL

\* The Rust machine mirrors the Python one, through every sequence of legal and
\* illegal calls, until it takes a reset that Python refuses.
THEOREM MachinesMirror == Spec => []MirrorUntilReset
<1>1. IInv => MirrorUntilReset
  BY DEF IInv
<1> QED
  BY <1>1, Invariance, PTL

\* The Rust machine records the node, session and reason of accepted calls only.
THEOREM AuditIsAgreed == Spec => []AuditFieldsAgreed
<1>1. IInv => AuditFieldsAgreed
  BY DEF IInv
<1> QED
  BY <1>1, Invariance, PTL

\* The fields of each machine tell its past, also after refused calls.
THEOREM FieldsTellPhase == Spec => []BothFieldsFollowPhase
<1>1. IInv => BothFieldsFollowPhase
  BY DEF IInv, WellFormed, BothFieldsFollowPhase
<1> QED
  BY <1>1, Invariance, PTL

-----------------------------------------------------------------------------
\* One step of the life cycle, written out.
Follows(from, to) ==
    \/ from = "IDLE" /\ to = "KNOCK_SENT"
    \/ from = "KNOCK_SENT" /\ to = "POLICY_EVAL"
    \/ from = "POLICY_EVAL" /\ to = "TUNNEL_PROVISIONED"
    \/ from = "TUNNEL_PROVISIONED" /\ to = "SESSION_ACTIVE"

LEMMA FollowsAdvance ==
    /\ Follows(pdp.state, pdp'.state) => Pdp!Advance
    /\ Follows(ac.state, ac'.state) => Ac!Advance
<1>1. /\ Len(Pdp!Order) = 5 /\ Pdp!Order[1] = "IDLE" /\ Pdp!Order[2] = "KNOCK_SENT"
      /\ Pdp!Order[3] = "POLICY_EVAL" /\ Pdp!Order[4] = "TUNNEL_PROVISIONED"
      /\ Pdp!Order[5] = "SESSION_ACTIVE"
  BY DEF Pdp!Order
<1>2. /\ Len(Ac!Order) = 5 /\ Ac!Order[1] = "IDLE" /\ Ac!Order[2] = "KNOCK_SENT"
      /\ Ac!Order[3] = "POLICY_EVAL" /\ Ac!Order[4] = "TUNNEL_PROVISIONED"
      /\ Ac!Order[5] = "SESSION_ACTIVE"
  BY DEF Ac!Order
<1>3. 1 \in 1..4 /\ 2 \in 1..4 /\ 3 \in 1..4 /\ 4 \in 1..4
  OBVIOUS
<1>4. Follows(pdp.state, pdp'.state) =>
        \E i \in 1..4 : pdp.state = Pdp!Order[i] /\ pdp'.state = Pdp!Order[i + 1]
  BY <1>1, <1>3 DEF Follows
<1>5. Follows(ac.state, ac'.state) =>
        \E i \in 1..4 : ac.state = Ac!Order[i] /\ ac'.state = Ac!Order[i + 1]
  BY <1>2, <1>3 DEF Follows
<1> QED
  BY <1>1, <1>2, <1>4, <1>5 DEF Pdp!Advance, Ac!Advance

\* The state a method of the Python machine leaves.
LEMMA PyStates ==
    ASSUME NEW m, WellFormed(m)
    PROVE  /\ \A n \in NodeId :
                LET r == PyProcessKnk(m, n).machine.state IN r = m.state \/ Follows(m.state, r)
           /\ LET r == PyTransition(m, "POLICY_EVAL").machine.state
              IN  r = m.state \/ Follows(m.state, r)
           /\ LET r == PyTransition(m, "TUNNEL_PROVISIONED").machine.state
              IN  r = m.state \/ Follows(m.state, r)
           /\ \A s \in Session :
                LET r == PyActivate(m, s).machine.state IN r = m.state \/ Follows(m.state, r)
           /\ \A c \in Reason :
                LET r == PyTerminate(m, c).machine.state
                IN  r = m.state \/ (m.state # "SESSION_TERMINATED" /\ r = "SESSION_TERMINATED")
           /\ LET r == PyReset(m).machine.state
              IN  r = m.state \/ (m.state = "SESSION_TERMINATED" /\ r = "IDLE")
<1> USE DEF Machine, Valid, NhpState, PyTransition, Enter, Accept, Refuse, Follows
<1>0. m \in Machine /\ m.state \in NhpState
  BY MachineFields
<1>1. ASSUME NEW n \in NodeId
      PROVE  LET r == PyProcessKnk(m, n).machine.state IN r = m.state \/ Follows(m.state, r)
  BY <1>0 DEF PyProcessKnk
<1>2. LET r == PyTransition(m, "POLICY_EVAL").machine.state
      IN  r = m.state \/ Follows(m.state, r)
  BY <1>0
<1>3. LET r == PyTransition(m, "TUNNEL_PROVISIONED").machine.state
      IN  r = m.state \/ Follows(m.state, r)
  BY <1>0
<1>4. ASSUME NEW s \in Session
      PROVE  LET r == PyActivate(m, s).machine.state IN r = m.state \/ Follows(m.state, r)
  BY <1>0 DEF PyActivate
<1>5. ASSUME NEW c \in Reason
      PROVE  LET r == PyTerminate(m, c).machine.state
             IN  r = m.state \/ (m.state # "SESSION_TERMINATED" /\ r = "SESSION_TERMINATED")
  BY <1>0 DEF PyTerminate
<1>6. LET r == PyReset(m).machine.state
      IN  r = m.state \/ (m.state = "SESSION_TERMINATED" /\ r = "IDLE")
  BY <1>0 DEF PyReset, Fresh
<1> QED
  BY <1>1, <1>2, <1>3, <1>4, <1>5, <1>6

LEMMA RsStates ==
    ASSUME NEW m, WellFormed(m)
    PROVE  /\ \A n \in NodeId :
                LET r == RsProcessKnk(m, n).machine.state IN r = m.state \/ Follows(m.state, r)
           /\ LET r == RsTransition(m, "KNOCK_SENT", m, "POLICY_EVAL").machine.state
              IN  r = m.state \/ Follows(m.state, r)
           /\ LET r == RsTransition(m, "POLICY_EVAL", m, "TUNNEL_PROVISIONED").machine.state
              IN  r = m.state \/ Follows(m.state, r)
           /\ \A s \in Session :
                LET r == RsActivate(m, s).machine.state IN r = m.state \/ Follows(m.state, r)
           /\ \A c \in Reason :
                LET r == RsTerminate(m, c).machine.state
                IN  r = m.state \/ (m.state # "SESSION_TERMINATED" /\ r = "SESSION_TERMINATED")
           /\ RsReset(m).machine.state = "IDLE"
<1> USE DEF Machine, NhpState, RsTransition, Enter, Accept, Refuse, Follows
<1>0. m \in Machine /\ m.state \in NhpState
  BY MachineFields
<1>1. ASSUME NEW n \in NodeId
      PROVE  LET r == RsProcessKnk(m, n).machine.state IN r = m.state \/ Follows(m.state, r)
  BY <1>0 DEF RsProcessKnk
<1>2. LET r == RsTransition(m, "KNOCK_SENT", m, "POLICY_EVAL").machine.state
      IN  r = m.state \/ Follows(m.state, r)
  BY <1>0
<1>3. LET r == RsTransition(m, "POLICY_EVAL", m, "TUNNEL_PROVISIONED").machine.state
      IN  r = m.state \/ Follows(m.state, r)
  BY <1>0
<1>4. ASSUME NEW s \in Session
      PROVE  LET r == RsActivate(m, s).machine.state IN r = m.state \/ Follows(m.state, r)
  BY <1>0 DEF RsActivate
<1>5. ASSUME NEW c \in Reason
      PROVE  LET r == RsTerminate(m, c).machine.state
             IN  r = m.state \/ (m.state # "SESSION_TERMINATED" /\ r = "SESSION_TERMINATED")
  BY <1>0 DEF RsTerminate
<1>6. RsReset(m).machine.state = "IDLE"
  BY DEF RsReset, Fresh
<1> QED
  BY <1>1, <1>2, <1>3, <1>4, <1>5, <1>6

\* A step of the two machines, as the life cycle sees each of them.
LEMMA StepStates ==
    ASSUME IInv, [Next]_vars
    PROVE  /\ pdp'.state # pdp.state => Pdp!Advance \/ Pdp!Terminate \/ Pdp!Restart
           /\ ac'.state # ac.state => Ac!Advance \/ Ac!Terminate \/ ac'.state = "IDLE"
<1>1. WellFormed(pdp) /\ WellFormed(ac)
  BY DEF IInv
<1>2. /\ pdp.state # "SESSION_TERMINATED" /\ pdp'.state = "SESSION_TERMINATED" => Pdp!Terminate
      /\ ac.state # "SESSION_TERMINATED" /\ ac'.state = "SESSION_TERMINATED" => Ac!Terminate
      /\ pdp.state = "SESSION_TERMINATED" /\ pdp'.state = "IDLE" => Pdp!Restart
  BY DEF Pdp!Terminate, Ac!Terminate, Pdp!Restart, Pdp!Order
<1>3. ASSUME NEW n \in NodeId, ProcessKnk(n)
      PROVE  /\ pdp'.state # pdp.state => Follows(pdp.state, pdp'.state)
             /\ ac'.state # ac.state => Follows(ac.state, ac'.state)
  <2>1. /\ pdp' = PyProcessKnk(pdp, n).machine
        /\ ac' = RsProcessKnk(ac, n).machine
    BY <1>3 DEF ProcessKnk, Call
  <2> QED
    BY <1>1, <2>1, PyStates, RsStates
<1>4. ASSUME EvaluatePolicy
      PROVE  /\ pdp'.state # pdp.state => Follows(pdp.state, pdp'.state)
             /\ ac'.state # ac.state => Follows(ac.state, ac'.state)
  <2>1. /\ pdp' = PyTransition(pdp, "POLICY_EVAL").machine
        /\ ac' = RsTransition(ac, "KNOCK_SENT", ac, "POLICY_EVAL").machine
    BY <1>4 DEF EvaluatePolicy, Call
  <2> QED
    BY <1>1, <2>1, PyStates, RsStates
<1>5. ASSUME ProvisionTunnel
      PROVE  /\ pdp'.state # pdp.state => Follows(pdp.state, pdp'.state)
             /\ ac'.state # ac.state => Follows(ac.state, ac'.state)
  <2>1. /\ pdp' = PyTransition(pdp, "TUNNEL_PROVISIONED").machine
        /\ ac' = RsTransition(ac, "POLICY_EVAL", ac, "TUNNEL_PROVISIONED").machine
    BY <1>5 DEF ProvisionTunnel, Call
  <2> QED
    BY <1>1, <2>1, PyStates, RsStates
<1>6. ASSUME NEW s \in Session, ActivateSession(s)
      PROVE  /\ pdp'.state # pdp.state => Follows(pdp.state, pdp'.state)
             /\ ac'.state # ac.state => Follows(ac.state, ac'.state)
  <2>1. /\ pdp' = PyActivate(pdp, s).machine
        /\ ac' = RsActivate(ac, s).machine
    BY <1>6 DEF ActivateSession, Call
  <2> QED
    BY <1>1, <2>1, PyStates, RsStates
<1>7. ASSUME NEW r \in Reason, TerminateSession(r)
      PROVE  /\ pdp'.state # pdp.state => pdp.state # "SESSION_TERMINATED" /\ pdp'.state = "SESSION_TERMINATED"
             /\ ac'.state # ac.state => ac.state # "SESSION_TERMINATED" /\ ac'.state = "SESSION_TERMINATED"
  <2>1. /\ pdp' = PyTerminate(pdp, r).machine
        /\ ac' = RsTerminate(ac, r).machine
    BY <1>7 DEF TerminateSession, Call
  <2> QED
    BY <1>1, <2>1, PyStates, RsStates
<1>8. ASSUME Reset
      PROVE  /\ pdp'.state # pdp.state => pdp.state = "SESSION_TERMINATED" /\ pdp'.state = "IDLE"
             /\ ac'.state # ac.state => ac'.state = "IDLE"
  <2>1. /\ pdp' = PyReset(pdp).machine
        /\ ac' = RsReset(ac).machine
    BY <1>8 DEF Reset, Call
  <2> QED
    BY <1>1, <2>1, PyStates, RsStates
<1>9. UNCHANGED vars => pdp' = pdp /\ ac' = ac
  BY DEF vars
<1> QED
  BY <1>2, <1>3, <1>4, <1>5, <1>6, <1>7, <1>8, <1>9, FollowsAdvance DEF Next

\* The Python machine implements the abstract life cycle.
THEOREM PdpRefines == Spec => PdpImplementsLifecycle
<1>1. Init => Pdp!LifecycleInit
  BY DEF Init, Fresh, Pdp!LifecycleInit, Pdp!Order
<1>2. IInv /\ [Next]_vars => [Pdp!Advance \/ Pdp!Terminate \/ Pdp!Restart]_(pdp.state)
  BY StepStates
<1> QED
  BY <1>1, <1>2, Invariance, PTL DEF Spec, PdpImplementsLifecycle, Pdp!LifecycleSpec

\* The Rust machine implements it too, but for its reset.
THEOREM AcRefinesButReset == Spec => AcImplementsAllButReset
<1>1. Init => Ac!LifecycleInit
  BY DEF Init, Fresh, Ac!LifecycleInit, Ac!Order
<1>2. IInv /\ [Next]_vars => [Ac!Advance \/ Ac!Terminate \/ ac.state' = "IDLE"]_(ac.state)
  BY StepStates
<1> QED
  BY <1>1, <1>2, Invariance, PTL DEF Spec, AcImplementsAllButReset
=============================================================================
