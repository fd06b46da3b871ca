----------------------------- MODULE NrsResolver -----------------------------
(***************************************************************************)
(* POST /resolve of the naming service (app/api/nhp_nrs.py and its twin    *)
(* nrs.py): a query names its transaction (jti) and its validity (iat,     *)
(* exp) in headers.  A jti that was recorded is refused; the record is a   *)
(* global of the module, so a restart of the server loses it.  The handler *)
(* does not suspend: a query is one action.                                *)
(***************************************************************************)
EXTENDS WallClock, Sequences

CONSTANTS
    Query,          \* the queries that may be sent: see QueryType
    Jti,            \* transaction identifiers
    MaxWindow,      \* 30: the largest exp - iat
    MaxRestarts     \* bound: so many restarts of the server

\* The context of a query comes down to whether its EDNS tolerance can be met.
QueryType == [jti : Jti, iat : Int, exp : Int, tolerable : BOOLEAN]

ASSUME ResolverAssumption ==
    Query \subseteq QueryType /\ MaxWindow \in Nat /\ MaxRestarts \in Nat

VARIABLES
    _replay_cache,
    answer,         \* the last answer: the query and what came of it
    epoch,          \* history: how often the server was restarted
    settled         \* history: the queries that were resolved or refused for their
                    \* tolerance, in order, each with the time and the epoch

vars == <<clock, peak, _replay_cache, answer, epoch, settled>>

Outcome == {"none", "replay", "expired", "too_long", "unmet", "resolved"}

\* A query is resolved just when its tolerance can be met.
Entry ==
    {e \in [query : Query, at : Int, epoch : Nat, resolved : BOOLEAN] :
        e.resolved = e.query.tolerable}

\* Every variable has its type, and what is settled was resolved or refused as its
\* tolerance asks.
TypeOK ==
    /\ ClockTypeOK
    /\ _replay_cache \in SUBSET Jti
    /\ answer \in [query : Query, outcome : Outcome]
    /\ epoch \in Nat
    /\ settled \in Seq(Entry)

Init ==
    /\ ClockInit
    /\ _replay_cache = {}
    /\ answer \in [query : Query, outcome : {"none"}]
    /\ epoch = 0
    /\ settled = <<>>

\* Mutant: the jti is recorded before the validity is checked.
RefuseRecords(q, why) ==
    /\ answer' = [query |-> q, outcome |-> why]
    /\ _replay_cache' = _replay_cache \cup {q.jti}
    /\ UNCHANGED <<clock, peak, epoch, settled>>

\* A 400: nothing is recorded.
Refuse(q, why) ==
    /\ answer' = [query |-> q, outcome |-> why]
    /\ UNCHANGED <<clock, peak, _replay_cache, epoch, settled>>

\* Mutant: a jti is recorded only if the query is resolved.
SettleResolvedOnly(q) ==
    /\ answer' = [query |-> q, outcome |-> IF q.tolerable THEN "resolved" ELSE "unmet"]
    /\ _replay_cache' = _replay_cache \cup (IF q.tolerable THEN {q.jti} ELSE {})
    /\ settled' = Append(settled, [query |-> q, at |-> clock, epoch |-> epoch,
                                   resolved |-> q.tolerable])
    /\ UNCHANGED <<clock, peak, epoch>>

\* Mutant: the tolerance is not looked at.
SettleUntested(q) ==
    /\ answer' = [query |-> q, outcome |-> "resolved"]
    /\ _replay_cache' = _replay_cache \cup {q.jti}
    /\ settled' = Append(settled, [query |-> q, at |-> clock, epoch |-> epoch,
                                   resolved |-> TRUE])
    /\ UNCHANGED <<clock, peak, epoch>>

\* The jti is recorded before the tolerance is looked at: a 403 uses it up, too.
Settle(q) ==
    /\ answer' = [query |-> q, outcome |-> IF q.tolerable THEN "resolved" ELSE "unmet"]
    /\ _replay_cache' = _replay_cache \cup {q.jti}
    /\ settled' = Append(settled, [query |-> q, at |-> clock, epoch |-> epoch,
                                   resolved |-> q.tolerable])
    /\ UNCHANGED <<clock, peak, epoch>>

Expired(q) == clock > q.exp

\* Mutant: the validity may be as long as the client likes.
TooLongNever(q) == FALSE

TooLong(q) == q.exp - q.iat > MaxWindow

resolve_intent(q) ==
    \/ q.jti \in _replay_cache /\ Refuse(q, "replay")
    \/ q.jti \notin _replay_cache /\ Expired(q) /\ Refuse(q, "expired")
    \/ q.jti \notin _replay_cache /\ ~Expired(q) /\ TooLong(q) /\ Refuse(q, "too_long")
    \/ q.jti \notin _replay_cache /\ ~Expired(q) /\ ~TooLong(q) /\ Settle(q)

\* The process ends and is started again.
Restart ==
    /\ epoch < MaxRestarts
    /\ epoch' = epoch + 1
    /\ _replay_cache' = {}
    /\ UNCHANGED <<clock, peak, answer, settled>>

ClockMoves == (Tick \/ StepBack) /\ UNCHANGED <<_replay_cache, answer, epoch, settled>>

Next == ClockMoves \/ Restart \/ \E q \in Query : resolve_intent(q)

Spec == Init /\ [][Next]_vars
-----------------------------------------------------------------------------
\* Between two restarts a jti is settled at most once, by a resolution or by a
\* refusal, even when it comes back with other headers or another context.
SettledOncePerEpoch ==
    \A i, j \in DOMAIN settled :
        /\ settled[i].query.jti = settled[j].query.jti
        /\ settled[i].epoch = settled[j].epoch
        => i = j

\* What a restart costs: a query issued no later than it was first settled can be
\* settled again, by any number of restarts, only while MaxWindow lasts.
ReplaysAreBrief ==
    \A i, j \in DOMAIN settled :
        settled[i].query = settled[j].query /\ settled[i].query.iat <= settled[i].at
            => settled[j].at - settled[i].at <= MaxWindow

\* A query is called a replay only if its jti was settled since the last restart:
\* an attempt that was refused as expired or too long does not use it up.
ReplayIsGenuine ==
    [][answer' # answer /\ answer'.outcome = "replay"
         => \E i \in DOMAIN settled : /\ settled[i].query.jti = answer'.query.jti
                                      /\ settled[i].epoch = epoch]_vars
=============================================================================
