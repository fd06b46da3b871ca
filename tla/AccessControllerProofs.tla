------------------------ MODULE AccessControllerProofs ------------------------
(***************************************************************************)
(* Proofs about AccessController, for any limit, any number of callers and *)
(* any set of sessions.                                                    *)
(***************************************************************************)
EXTENDS AccessController, FiniteSetTheorems, TLAPS

\* What the PEP counts and is about to count stays below the limit and the callers
\* together, once there is anything to count.
CountInv ==
    LET counted == active + opened + admitted
    IN  counted > 0 => counted < MaxSessions + Openers

IInv == ControllerTypeOK /\ DriftIsSwallowed /\ CountInv
-----------------------------------------------------------------------------
LEMMA InitIInv == ControllerInit => IInv
<1> SUFFICES ASSUME ControllerInit PROVE IInv
  OBVIOUS
<1>1. Held = {} /\ IsFiniteSet(Held) /\ Cardinality(Held) = 0
  BY FS_EmptySet DEF ControllerInit, Held
<1>2. ControllerTypeOK
  BY <1>1, ControllerAssumption DEF ControllerInit, ControllerTypeOK
<1>3. DriftIsSwallowed /\ CountInv
  BY <1>1, ControllerAssumption DEF ControllerInit, DriftIsSwallowed, CountInv
<1> QED
  BY <1>2, <1>3 DEF IInv

\* A step that leaves the map alone.
LEMMA CountersIInv ==
    ASSUME IInv, UNCHANGED sessions,
           active' \in Nat, admitted' \in Nat, opened' \in Nat, closed' \in Nat,
           swallowed' \in Nat, admitted' + opened' <= Openers, swallowed' <= Openers,
           active' + opened' = Cardinality(Held) + closed' + swallowed',
           CountInv'
    PROVE  IInv'
<1>1. Held' = Held
  BY DEF Held
<1>2. ControllerTypeOK'
  BY <1>1 DEF IInv, ControllerTypeOK
<1>3. DriftIsSwallowed'
  BY <1>1 DEF DriftIsSwallowed
<1> QED
  BY <1>2, <1>3 DEF IInv

LEMMA CreateIInv ==
    ASSUME IInv, NEW s \in Session, CreateSession(s)
    PROVE  IInv'
<1>1. /\ Held' = Held \cup {s} /\ sessions' \in [Held' -> -1..Timeout]
  BY ControllerAssumption DEF IInv, ControllerTypeOK, CreateSession, Held
<1>2. /\ IsFiniteSet(Held') /\ Cardinality(Held) \in Nat
      /\ Cardinality(Held') = Cardinality(Held) + 1
  BY <1>1, FS_AddElement, FS_CardinalityType DEF IInv, ControllerTypeOK, CreateSession
<1>3. ControllerTypeOK'
  BY <1>1, <1>2 DEF IInv, ControllerTypeOK, CreateSession
<1>4. DriftIsSwallowed'
  BY <1>2 DEF IInv, ControllerTypeOK, DriftIsSwallowed, CreateSession
<1>5. CountInv'
  BY ControllerAssumption DEF IInv, ControllerTypeOK, CountInv, CreateSession
<1> QED
  BY <1>3, <1>4, <1>5 DEF IInv

\* Closing some of the sessions and owing the PEP as many decrements.
LEMMA CloseIInv ==
    ASSUME IInv, NEW gone \in SUBSET Held,
           sessions' = Without(gone), closed' = closed + Cardinality(gone),
           UNCHANGED <<active, admitted, opened, swallowed>>
    PROVE  IInv'
<1>1. Held' = Held \ gone /\ sessions' \in [Held' -> -1..Timeout]
  BY DEF IInv, ControllerTypeOK, Without, Held
<1>2. /\ IsFiniteSet(gone) /\ IsFiniteSet(Held)
      /\ Cardinality(gone) \in Nat /\ Cardinality(Held) \in Nat
  BY FS_Subset, FS_CardinalityType DEF IInv, ControllerTypeOK
<1>3. IsFiniteSet(Held') /\ Cardinality(Held') = Cardinality(Held) - Cardinality(gone)
  <2>1. Held \cap gone = gone
    OBVIOUS
  <2> QED
    BY <1>1, <1>2, <2>1, FS_Difference
<1>4. ControllerTypeOK'
  BY <1>1, <1>2, <1>3 DEF IInv, ControllerTypeOK
<1>5. DriftIsSwallowed' /\ CountInv'
  BY <1>2, <1>3 DEF IInv, ControllerTypeOK, DriftIsSwallowed, CountInv
<1> QED
  BY <1>4, <1>5 DEF IInv

LEMMA TimeIInv ==
    ASSUME IInv, TimePasses
    PROVE  IInv'
<1>1. Held' = Held
  BY DEF TimePasses, Held
<1>2. sessions' \in [Held' -> -1..Timeout]
  BY <1>1, ControllerAssumption DEF IInv, ControllerTypeOK, TimePasses, IsExpired
<1> QED
  BY <1>1, <1>2 DEF IInv, ControllerTypeOK, DriftIsSwallowed, CountInv, TimePasses

LEMMA StepIInv == IInv /\ [ControllerNext]_acVars => IInv'
<1> SUFFICES ASSUME IInv, [ControllerNext]_acVars PROVE IInv'
  OBVIOUS
<1>0. /\ active \in Nat /\ admitted \in Nat /\ opened \in Nat /\ closed \in Nat
      /\ swallowed \in Nat /\ admitted + opened <= Openers
      /\ Cardinality(Held) \in Nat /\ active + opened = Cardinality(Held) + closed + swallowed
      /\ swallowed <= Openers
      /\ MaxSessions \in Nat /\ Openers \in Nat
  BY ControllerAssumption, FS_CardinalityType DEF IInv, ControllerTypeOK, DriftIsSwallowed
<1>1. CASE CanAccept
  <2>1. CountInv'
    BY <1>0, <1>1 DEF CanAccept, CountInv
  <2> QED
    BY <1>0, <1>1, <2>1, CountersIInv DEF CanAccept
<1>2. ASSUME NEW s \in Session, CreateSession(s) PROVE IInv'
  BY <1>2, CreateIInv
<1>3. CASE IncrementSessions
  <2>1. CountInv'
    BY <1>0, <1>3 DEF IncrementSessions, CountInv, IInv
  <2> QED
    BY <1>0, <1>3, <2>1, CountersIInv DEF IncrementSessions
<1>4. ASSUME NEW s \in Session, RemoveSession(s) PROVE IInv'
  <2>1. {s} \in SUBSET Held /\ Cardinality({s}) = 1
    BY <1>4, FS_Singleton DEF RemoveSession
  <2> QED
    BY <1>4, <2>1, CloseIInv DEF RemoveSession
<1>5. CASE CleanupExpired
  BY <1>5, CloseIInv DEF CleanupExpired
<1>6. CASE DecrementSessions
  <2>1. CountInv'
    BY <1>0, <1>6 DEF DecrementSessions, CountInv, IInv
  <2>2. swallowed' <= Openers
    <3>1. CASE active = 0 /\ swallowed' = swallowed + 1
      <4>1. closed >= 1 /\ opened >= swallowed + 1
        BY <1>0, <1>6, <3>1 DEF DecrementSessions
      <4> QED
        BY <1>0, <3>1, <4>1
    <3>2. CASE swallowed' = swallowed
      BY <1>0, <3>2
    <3> QED
      BY <1>6, <3>1, <3>2 DEF DecrementSessions
  <2> QED
    BY <1>0, <1>6, <2>1, <2>2, CountersIInv DEF DecrementSessions
<1>7. CASE TimePasses
  BY <1>7, TimeIInv
<1>8. CASE UNCHANGED acVars
  BY <1>8 DEF acVars, IInv, ControllerTypeOK, DriftIsSwallowed, CountInv, Held
<1> QED
  BY <1>1, <1>2, <1>3, <1>4, <1>5, <1>6, <1>7, <1>8 DEF ControllerNext

\* The inductive invariant holds in every reachable state.
THEOREM Invariance == ControllerSpec => []IInv
  BY InitIInv, StepIInv, PTL DEF ControllerSpec

\* Every variable keeps its type: in particular no count of the PEP falls below 0.
THEOREM TypeCorrect == ControllerSpec => []ControllerTypeOK
<1>1. IInv => ControllerTypeOK
  BY DEF IInv
<1> QED
  BY <1>1, Invariance, PTL

\* NhpPep is ahead of the map by the decrements it ignored, never behind it, and never
\* ignores more of them than there are callers.
THEOREM CountsDriftUpwards == ControllerSpec => []DriftIsSwallowed
<1>1. IInv => DriftIsSwallowed
  BY DEF IInv
<1> QED
  BY <1>1, Invariance, PTL

\* What a PEP counts while it has nothing to count stays below its limit, if that limit
\* exceeds the number of callers: it never refuses for ever.
THEOREM IdlePepAccepts ==
    Openers < MaxSessions =>
        (ControllerSpec => [](IdleCount /\ (Held = {} /\ closed = 0 => active < MaxSessions)))
<1> SUFFICES ASSUME Openers < MaxSessions
             PROVE  ControllerSpec =>
                      [](IdleCount /\ (Held = {} /\ closed = 0 => active < MaxSessions))
  OBVIOUS
<1>1. IInv => IdleCount /\ (Held = {} /\ closed = 0 => active < MaxSessions)
  <2> SUFFICES ASSUME IInv, Held = {}, closed = 0
               PROVE  active <= Openers /\ active < MaxSessions
    BY DEF IdleCount
  <2>1. Cardinality(Held) = 0
    BY FS_EmptySet
  <2> QED
    BY <2>1, ControllerAssumption DEF IInv, ControllerTypeOK, DriftIsSwallowed
<1> QED
  BY <1>1, Invariance, PTL

\* The sessions stay below the limit and the callers that open sessions, together.
THEOREM LimitHolds == ControllerSpec => []SessionsBounded
<1>1. IInv => SessionsBounded
  <2> SUFFICES ASSUME IInv, Held # {} PROVE Cardinality(Held) < MaxSessions + Openers
    BY DEF SessionsBounded
  <2>1. Cardinality(Held) \in Nat /\ Cardinality(Held) # 0
    BY FS_CardinalityType, FS_EmptySet DEF IInv, ControllerTypeOK
  <2> QED
    BY <2>1, ControllerAssumption DEF IInv, ControllerTypeOK, DriftIsSwallowed, CountInv
<1> QED
  BY <1>1, Invariance, PTL
=============================================================================
