--------------------------- MODULE AccessController ---------------------------
(***************************************************************************)
(* The sessions of the access controller: SessionManager                   *)
(* (network/session.rs), a map from session ids to sessions that expire,   *)
(* and NhpPep (policy/pep.rs), which keeps a count of them of its own and  *)
(* admits a session by that count.                                         *)
(*                                                                         *)
(* The two share nothing: whoever opens or closes a session calls both, as *)
(* the results of remove_session and cleanup_expired allow, one after the  *)
(* other.  Each call has its object to itself (&mut self); between the two *)
(* calls of one caller those of others may come.                           *)
(***************************************************************************)
EXTENDS Integers, FiniteSets

CONSTANTS
    Session,        \* session ids: a fresh one is any that is not in the map
    Timeout,        \* session_timeout, in ticks
    MaxSessions,    \* max_sessions
    Openers         \* how many callers may be opening a session at once

ASSUME ControllerAssumption ==
    Timeout \in Nat /\ MaxSessions \in Nat /\ Openers \in Nat

VARIABLES
    sessions,   \* the map: how long each session has until expires_at, -1 once past it
    active,     \* active_sessions
    admitted,   \* how many callers were told they may open a session, and have not yet
    opened,     \* how many sessions were opened that the PEP has not heard of
    closed,     \* how many sessions were closed that the PEP has not heard of
    swallowed   \* history: how many decrements saturating_sub has ignored

acVars == <<sessions, active, admitted, opened, closed, swallowed>>

Held == DOMAIN sessions

ControllerTypeOK ==
    /\ Held \subseteq Session /\ IsFiniteSet(Held)
    /\ sessions \in [Held -> -1..Timeout]
    /\ active \in Nat /\ admitted \in Nat /\ opened \in Nat /\ closed \in Nat
    /\ swallowed \in Nat
    /\ admitted + opened <= Openers

\* SessionManager::new and NhpPep::new.
ControllerInit ==
    /\ sessions = [s \in {} |-> 0]
    /\ active = 0 /\ admitted = 0 /\ opened = 0 /\ closed = 0 /\ swallowed = 0

-----------------------------------------------------------------------------
\* Mutant: one session beyond the limit.
CanAcceptInclusive ==
    /\ active <= MaxSessions
    /\ admitted + opened < Openers
    /\ admitted' = admitted + 1
    /\ UNCHANGED <<sessions, active, opened, closed, swallowed>>

\* can_accept_session says yes; a caller that hears no opens nothing.
CanAccept ==
    /\ active < MaxSessions
    /\ admitted + opened < Openers
    /\ admitted' = admitted + 1
    /\ UNCHANGED <<sessions, active, opened, closed, swallowed>>

\* create_session, with a new UUID.
CreateSession(s) ==
    /\ admitted > 0 /\ s \notin Held
    /\ sessions' = [r \in Held \cup {s} |-> IF r = s THEN Timeout ELSE sessions[r]]
    /\ admitted' = admitted - 1 /\ opened' = opened + 1
    /\ UNCHANGED <<active, closed, swallowed>>

IncrementSessions ==
    /\ opened > 0
    /\ opened' = opened - 1 /\ active' = active + 1
    /\ UNCHANGED <<sessions, admitted, closed, swallowed>>

Without(gone) == [r \in Held \ gone |-> sessions[r]]

\* remove_session finds the session; for an id it does not find the PEP is not called.
RemoveSession(s) ==
    /\ s \in Held
    /\ sessions' = Without({s})
    /\ closed' = closed + 1
    /\ UNCHANGED <<active, admitted, opened, swallowed>>

IsExpired(s) == sessions[s] < 0

\* Mutant: the number returned is that of the sessions kept.
CleanupReportsKept ==
    /\ sessions' = Without({s \in Held : IsExpired(s)})
    /\ closed' = closed + Cardinality({s \in Held : ~IsExpired(s)})
    /\ UNCHANGED <<active, admitted, opened, swallowed>>

\* cleanup_expired returns how many sessions it dropped.
CleanupExpired ==
    /\ sessions' = Without({s \in Held : IsExpired(s)})
    /\ closed' = closed + Cardinality({s \in Held : IsExpired(s)})
    /\ UNCHANGED <<active, admitted, opened, swallowed>>

\* Mutant: a plain subtraction.
DecrementBelowZero ==
    /\ closed > 0
    /\ closed' = closed - 1 /\ active' = active - 1
    /\ UNCHANGED <<sessions, admitted, opened, swallowed>>

\* decrement_sessions: a count of 0 stays 0.
DecrementSessions ==
    /\ closed > 0
    /\ closed' = closed - 1
    /\ \/ active > 0 /\ active' = active - 1 /\ UNCHANGED swallowed
       \/ active = 0 /\ UNCHANGED active /\ swallowed' = swallowed + 1
    /\ UNCHANGED <<sessions, admitted, opened>>

\* Monotone time passes.
TimePasses ==
    /\ sessions' = [s \in Held |-> IF IsExpired(s) THEN -1 ELSE sessions[s] - 1]
    /\ UNCHANGED <<active, admitted, opened, closed, swallowed>>

ControllerNext ==
    \/ CanAccept
    \/ \E s \in Session : CreateSession(s) \/ RemoveSession(s)
    \/ IncrementSessions \/ DecrementSessions
    \/ CleanupExpired
    \/ TimePasses

ControllerSpec == ControllerInit /\ [][ControllerNext]_acVars
-----------------------------------------------------------------------------
\* NhpPep never counts fewer sessions than there are, updates under way aside, and the
\* sessions it counts too many are exactly the decrements that saturating_sub ignored: a
\* decrement that overtakes the increment of its own session is lost, the increment is
\* not, and nothing ever lowers the count again.  It is ignored only at a count of 0, so
\* in all its life the PEP loses no more of them than callers open sessions at once.
DriftIsSwallowed ==
    /\ active + opened = Cardinality(Held) + closed + swallowed
    /\ swallowed <= Openers

\* With nothing open and nothing owed, the PEP counts at most the callers that may open
\* sessions at once: one with more room than that never shuts for good.
IdleCount == Held = {} /\ closed = 0 => active <= Openers

\* The map exceeds the limit of NhpPep by less than the number of callers that may be
\* between can_accept_session and increment_sessions.
SessionsBounded == Held # {} => Cardinality(Held) < MaxSessions + Openers
=============================================================================
