----------------------------- MODULE RateLimiter -----------------------------
(***************************************************************************)
(* RateLimitMiddleware (api/middleware.py): a request is admitted while    *)
(* the client has fewer than MaxRequests admissions younger than Window.   *)
(* dispatch reads the clock once and suspends only after it has decided,   *)
(* so a decision is one action; the clock moves between decisions.  The    *)
(* rest of the server, PdpServer, is built around it.                      *)
(***************************************************************************)
EXTENDS WallClock, Sequences, FiniteSets

CONSTANTS
    Client,         \* client addresses
    MaxRequests,    \* max_requests
    Window          \* window_seconds

ASSUME LimiterAssumption == MaxRequests \in Nat /\ Window \in Nat

VARIABLES
    admitted,   \* history: admitted[c] is the sequence of c's admission times
    counts      \* _request_counts: the admissions, as indices, whose time c's list holds

limiterVars == <<clock, peak, admitted, counts>>

LimiterTypeOK ==
    /\ ClockTypeOK
    /\ admitted \in [Client -> Seq(Int)]
    /\ counts \in [Client -> SUBSET Nat]
    /\ \A c \in Client : counts[c] \subseteq DOMAIN admitted[c]

LimiterInit ==
    /\ ClockInit
    /\ admitted = [c \in Client |-> <<>>]
    /\ counts = [c \in Client |-> {}]

\* "Clean old entries".
Recent(c) == {i \in counts[c] : clock - admitted[c][i] < Window}

\* Mutant: one request too many.
AdmitOneMore(c) ==
    /\ Cardinality(Recent(c)) <= MaxRequests
    /\ admitted' = [admitted EXCEPT ![c] = Append(@, clock)]
    /\ counts' = [counts EXCEPT ![c] = Recent(c) \cup {Len(admitted[c]) + 1}]
    /\ UNCHANGED clockVars

\* The list is kept as it was cleaned, with the admission's time at its end.
Admit(c) ==
    /\ Cardinality(Recent(c)) < MaxRequests
    /\ admitted' = [admitted EXCEPT ![c] = Append(@, clock)]
    /\ counts' = [counts EXCEPT ![c] = Recent(c) \cup {Len(admitted[c]) + 1}]
    /\ UNCHANGED clockVars

\* A refused request still cleans the list; it adds nothing to it.
Refuse(c) ==
    /\ Cardinality(Recent(c)) >= MaxRequests
    /\ counts' = [counts EXCEPT ![c] = Recent(c)]
    /\ UNCHANGED <<clock, peak, admitted>>

Dispatch(c) == Admit(c) \/ Refuse(c)

\* The limiter is not asked: the rest of the process runs, or time passes.
NoDecision == UNCHANGED <<admitted, counts>>

LimiterNext ==
    \/ \E c \in Client : Dispatch(c)
    \/ (Tick \/ StepBack) /\ NoDecision

LimiterSpec == LimiterInit /\ [][LimiterNext]_limiterVars
-----------------------------------------------------------------------------
\* The admissions of c up to the i-th whose time is within span of the i-th's.
Within(c, i, span) == {j \in 1..i : admitted[c][i] - admitted[c][j] < span}

\* RateLimitMiddleware.dispatch never admits more than MaxRequests requests of a
\* client within a window, less what a clock correction can take from it.
RateBound ==
    \A c \in Client : \A i \in DOMAIN admitted[c] :
        Cardinality(Within(c, i, Window - MaxBack)) <= MaxRequests
=============================================================================
