----------------------------- MODULE KnkPipeline -----------------------------
(***************************************************************************)
(* POST /knk of the policy decision point: submit_knk (api/routes.py), the *)
(* payload checks (protocol/knk.py), the policy engine                     *)
(* (policy/decision_engine.py), the JWT validator with its nonce cache     *)
(* (security/jwt_validation.py) and the MAMA gates.                        *)
(*                                                                         *)
(* No coroutine on this path suspends, so the event loop runs one request  *)
(* from start to end before the next.  Its stages are separate actions all *)
(* the same: each reads the wall clock for itself, and the clock may move, *)
(* forwards or back, between two reads; and another thread may change the  *)
(* trusted keys between any two.  Any submission may arrive at any time    *)
(* and any number of times: a client's retry and a duplicated, delayed or  *)
(* reordered delivery look the same to the server.                         *)
(***************************************************************************)
EXTENDS WallClock, MamaGate, Sequences

CONSTANTS
    Node,           \* node identifiers
    Key,            \* Ed25519 public keys
    NoKey,          \* stands for "no key is trusted for this node"
    Nonce,          \* nonce strings
    Submission,     \* the bodies that may be posted, see SubmissionType
    NoRequest,      \* stands for "no request is being handled"
    MaxDrift,       \* 300: accepted drift of the cleartext timestamp
    ExpBound,       \* STRICT_EXP_BOUND_SECONDS
    Skew,           \* MAX_CLOCK_SKEW_SECONDS
    NonceExpiry     \* _nonce_expiry_seconds

\* The claims a signed token carries: what JSON its header is, its issuer and audience,
\* which other claims are present and well formed, and the values the signature binds.
JwsType ==
    [header : {"object", "other"}, signer : Key, iss : STRING, aud : STRING, claims : SUBSET {"exp", "intent"},
     exp : Int, node_id : Node, timestamp : Int, nonce : Nonce]

\* A request body: what its syntax is worth, the cleartext fields, the
\* metrics the gates judge, and the signed token.
SubmissionType ==
    [format : {"ok", "payload", "schema", "nonce"},
     node_id : Node, public_key : Key, timestamp : Int, nonce : Nonce,
     current_edns : Ratio, cei : CEIMetrics, jws : JwsType]

ASSUME PipelineAssumption ==
    /\ Submission \subseteq SubmissionType
    /\ NoRequest \notin Submission
    /\ NoKey \notin Key
    /\ MaxDrift \in Nat /\ ExpBound \in Nat /\ Skew \in Nat /\ NonceExpiry \in Nat

\* A nonce is remembered for longer than its token can stay acceptable: 300
\* against 60 + 2 * 5, which leaves room for corrections of up to 115 seconds.
ASSUME WindowAssumption == NonceExpiry >= ExpBound + 2 * Skew + 2 * MaxBack

\* The signed tokens that can arrive.
Jws == {s.jws : s \in Submission}

VARIABLES
    trusted,    \* TrustStore: trusted[n] is the key of node n, or NoKey
    vouched,    \* history: the keys the store has held, since the request being handled
                \* was parsed, for the node its token names
    seen,       \* _seen_nonces: a function from the remembered nonces to when they came
    stage,      \* how far the request being handled has come
    request,    \* that request, or NoRequest
    answer,     \* the last answer: an HTTP status, a decision or a rejection reason
    accepted    \* history: the tokens that passed validation, in order, each with the time
                \* and with its fate

vars == <<clock, peak, trusted, vouched, seen, stage, request, answer, accepted>>

Stage == {"idle", "parsed", "validated", "recorded"}

\* The reasons the gates reject for, and those the validator rejects for.
GateReason ==
    {"sla_penalty_exposure_exceeded", "max_throughput_deviation",
     "funding_threshold_exceeded", "safety_gate_triggered", "negative_value_realization"}

Reason ==
    GateReason \cup
    {"untrusted_node", "invalid_signature", "missing_claim", "invalid_audience",
     "cross_validation_failed", "expired_token", "clock_skew_exceeded", "invalid_nonce"}

Answer == {"none", "400", "500", "APPROVE"} \cup Reason

Accepted == [jws : Jws, at : Int, fate : {"consumed", "granted", "refused"}]

TypeOK ==
    /\ ClockTypeOK
    /\ trusted \in [Node -> Key \cup {NoKey}]
    /\ vouched \subseteq Key \cup {NoKey}
    /\ DOMAIN seen \subseteq Nonce /\ seen \in [DOMAIN seen -> Int]
    /\ stage \in Stage
    /\ request \in IF stage = "idle" THEN {NoRequest} ELSE Submission
    /\ answer \in Answer
    /\ accepted \in Seq(Accepted)

-----------------------------------------------------------------------------
Init ==
    /\ ClockInit
    /\ trusted \in [Node -> Key \cup {NoKey}]
    /\ vouched = {}
    /\ seen = [n \in {} |-> 0]
    /\ stage = "idle"
    /\ request = NoRequest
    /\ answer = "none"
    /\ accepted = <<>>

\* Mutant: the request is still held when the handler returns.
ReplyKeepsRequest(a) == stage' = "idle" /\ answer' = a /\ vouched' = {} /\ UNCHANGED request

\* The handler returns: the engine or the route has an answer for the client.
Reply(a) == stage' = "idle" /\ request' = NoRequest /\ answer' = a /\ vouched' = {}

Proceed(next) == stage' = next /\ UNCHANGED <<request, answer, vouched>>

-----------------------------------------------------------------------------
TimestampOK(s, now) ==
    /\ s.timestamp <= now + MaxDrift
    /\ now - s.timestamp <= MaxDrift

\* The body is parsed, and the handler has a request.
Parse(s) ==
    /\ stage' = "parsed" /\ request' = s /\ answer' = "none"
    /\ vouched' = {trusted[s.jws.node_id]}

\* Mutant: the nonce is recorded as soon as the body parses.
FullValidateBurnsNonce(s) ==
    /\ stage = "idle"
    /\ IF s.format = "ok" /\ TimestampOK(s, clock) THEN Parse(s) ELSE Reply("400")
    /\ seen' = [n \in DOMAIN seen \cup {s.nonce} |-> clock]
    /\ UNCHANGED <<clock, peak, trusted, accepted>>

\* submit_knk and NhpKnkParser.full_validate: malformed or stale bodies get a 400.
FullValidate(s) ==
    /\ stage = "idle"
    /\ IF s.format = "ok" /\ TimestampOK(s, clock) THEN Parse(s) ELSE Reply("400")
    /\ UNCHANGED <<clock, peak, trusted, seen, accepted>>

ValidIssuers == {"nhp-sba-agent", "nhp-sba-soc", "nhp-sba-operator"}
ExpectedAudience == "nhp-sba-server"

\* An issuer claim that is missing or empty.
NoIssuer == ""

\* Mutant: no token expires.
NotExpiredUnchecked(jws, now) == TRUE

NotExpired(jws, now) == jws.exp >= now - Skew

\* Mutant: long-lived tokens pass.
NotTooFarUnbounded(jws, now) == TRUE

NotTooFar(jws, now)  == jws.exp <= now + ExpBound + Skew

CrossValidates(s) ==
    /\ s.jws.node_id = s.node_id
    /\ s.jws.timestamp = s.timestamp
    /\ s.jws.nonce = s.nonce

\* validate() up to the nonce, in the code's order: each check with the rejection reason
\* _map_jwt_error gives its failure.  A header that is JSON but no object raises what
\* neither the validator nor the engine catches: the route answers it with a 500.
JwtChecks(s, now) ==
    <<[ok |-> trusted[s.node_id] = s.public_key,  reason |-> "untrusted_node"],
      [ok |-> s.jws.header = "object",            reason |-> "500"],
      [ok |-> s.jws.signer = s.public_key,        reason |-> "invalid_signature"],
      [ok |-> s.jws.iss # NoIssuer,               reason |-> "missing_claim"],
      [ok |-> s.jws.iss \in ValidIssuers,         reason |-> "cross_validation_failed"],
      [ok |-> s.jws.aud = ExpectedAudience,       reason |-> "invalid_audience"],
      [ok |-> "exp" \in s.jws.claims,             reason |-> "missing_claim"],
      [ok |-> NotExpired(s.jws, now),             reason |-> "expired_token"],
      [ok |-> NotTooFar(s.jws, now),              reason |-> "clock_skew_exceeded"],
      [ok |-> "intent" \in s.jws.claims,          reason |-> "missing_claim"],
      [ok |-> CrossValidates(s),                  reason |-> "cross_validation_failed"]>>

\* Mutant: the answer of the trust store is ignored.
PassedUntrusted(checks) == \A i \in DOMAIN checks \ {1} : checks[i].ok

Passed(checks) == \A i \in DOMAIN checks : checks[i].ok

\* The code raises at the first check that fails.
FirstFailure(checks) ==
    LET first == CHOOSE i \in DOMAIN checks :
                    ~checks[i].ok /\ \A j \in 1..(i - 1) : checks[j].ok
    IN  checks[first].reason

\* NhpJwtValidator.validate, steps 1 to 6.
ValidateClaims ==
    /\ stage = "parsed"
    /\ LET checks == JwtChecks(request, clock)
       IN \/ Passed(checks) /\ Proceed("validated")
          \/ ~Passed(checks) /\ Reply(FirstFailure(checks))
    /\ UNCHANGED <<clock, peak, trusted, seen, accepted>>

\* Mutants: forget one tick early; never forget.
CleanupNoncesInclusive(cache, now) ==
    [n \in {m \in DOMAIN cache : ~(now - cache[m] >= NonceExpiry)} |-> cache[n]]
CleanupNoncesNever(cache, now) == cache

\* _cleanup_nonces: forget what is older than the expiry window.
CleanupNonces(cache, now) ==
    [n \in {m \in DOMAIN cache : ~(now - cache[m] > NonceExpiry)} |-> cache[n]]

Remember(cache, n, now) ==
    [m \in DOMAIN cache \cup {n} |-> IF m = n THEN now ELSE cache[m]]

NewlyAccepted == [jws |-> request.jws, at |-> clock, fate |-> "consumed"]

\* Mutant: the nonce is recorded but not looked up first.
ValidateNonceUnchecked ==
    /\ stage = "validated"
    /\ seen' = CleanupNonces(Remember(seen, request.nonce, clock), clock)
    /\ accepted' = Append(accepted, NewlyAccepted)
    /\ Proceed("recorded")
    /\ UNCHANGED <<clock, peak, trusted>>

\* _validate_nonce: a replay is refused before anything is recorded or cleaned up.
ValidateNonce ==
    /\ stage = "validated"
    /\ \/ /\ request.nonce \in DOMAIN seen
          /\ Reply("invalid_nonce")
          /\ UNCHANGED <<seen, accepted>>
       \/ /\ request.nonce \notin DOMAIN seen
          /\ seen' = CleanupNonces(Remember(seen, request.nonce, clock), clock)
          /\ accepted' = Append(accepted, NewlyAccepted)
          /\ Proceed("recorded")
    /\ UNCHANGED <<clock, peak, trusted>>

\* The engine's decision settles the token it accepted last.
Decide(a, fate) ==
    /\ Reply(a)
    /\ accepted' = [accepted EXCEPT ![Len(accepted)] = [@ EXCEPT !.fate = fate]]

\* Mutant: the gates raise, and the route answers with an error.
EvaluateGatesRaise ==
    /\ stage = "recorded"
    /\ Reply("400")
    /\ UNCHANGED <<clock, peak, trusted, seen, accepted>>

\* The MAMA gates, and the decision they lead to.
EvaluateGates ==
    /\ stage = "recorded"
    /\ \/ "passed" \in GateVerdicts(request.current_edns, request.cei)
          /\ Decide("APPROVE", "granted")
       \/ \E reason \in GateVerdicts(request.current_edns, request.cei) \ {"passed"} :
             Decide(reason, "refused")
    /\ UNCHANGED <<clock, peak, trusted, seen>>

-----------------------------------------------------------------------------
\* TrustStore.load_key, load_key_bytes and remove_key: the store is shared between
\* threads, so the keys may change between any two stages of a request.
SetTrust(n, k) ==
    /\ trusted' = [trusted EXCEPT ![n] = k]
    /\ vouched' = IF stage # "idle" /\ request.jws.node_id = n THEN vouched \cup {k} ELSE vouched
    /\ UNCHANGED <<clock, peak, seen, stage, request, answer, accepted>>

ClockMoves ==
    /\ Tick \/ StepBack
    /\ UNCHANGED <<trusted, vouched, seen, stage, request, answer, accepted>>

Handle == ValidateClaims \/ ValidateNonce \/ EvaluateGates

Next ==
    \/ \E s \in Submission : FullValidate(s)
    \/ Handle
    \/ \E n \in Node, k \in Key \cup {NoKey} : SetTrust(n, k)
    \/ ClockMoves

Spec == Init /\ [][Next]_vars
-----------------------------------------------------------------------------
Consumed == {accepted[i].jws : i \in DOMAIN accepted}

\* The latest fate a history records for a token.
FateIn(history, t) ==
    LET uses == {i \in DOMAIN history : history[i].jws = t}
    IN  IF uses = {} THEN "unused"
        ELSE history[CHOOSE i \in uses : \A j \in uses : j <= i].fate

Ledger == INSTANCE TokenLedger WITH Token <- Jws, fate <- [t \in Jws |-> FateIn(accepted, t)]

\* NhpJwtValidator.validate never lets the same signed token pass twice, however
\* often it is delivered and however the clock moves.
AcceptedOnce ==
    \A i, j \in DOMAIN accepted : accepted[i].jws = accepted[j].jws => i = j

\* Why: as long as the expiry check could still let an accepted token pass, with
\* the clock as far back as a correction can take it, _cleanup_nonces has kept it.
LiveTokenRemembered ==
    \A t \in Consumed : NotExpired(t, peak - MaxBack) => t.nonce \in DOMAIN seen

\* invalid_nonce is answered only to a request whose nonce came with a token that was
\* accepted before: only a token that passed every other check uses up a nonce, so that no
\* malformed, forged or expired submission makes the server refuse the genuine one.
NonceRefusedOnlyAfterUse ==
    [][stage = "validated" /\ stage' = "idle" /\ answer' = "invalid_nonce"
         => \E t \in Consumed : t.nonce = request.nonce]_vars

\* The cache is the recent acceptances and nothing else.  Sweeping only when it adds an
\* entry, _validate_nonce refuses a nonce exactly until a later acceptance comes more than
\* the window after its own, be that long overdue: the cache grows with the acceptances of
\* a window and not with those before it, nor with what is refused.
CacheIsExact ==
    \A n \in Nonce :
        n \in DOMAIN seen <=>
            \E i \in DOMAIN accepted :
                /\ accepted[i].jws.nonce = n
                /\ \A j \in DOMAIN accepted :
                      j > i => accepted[j].at - accepted[i].at <= NonceExpiry

\* However the keys change meanwhile, a session is granted only to a request whose token
\* is signed with a key that the store held for its node at some moment while this very
\* request was handled: a key removed before it arrived gains nothing, nor does one the
\* request merely claims.
GrantIsSound ==
    [][answer' = "APPROVE" /\ stage = "recorded" /\ stage' = "idle"
         => request.jws.signer \in vouched]_vars

\* The pipeline implements the ledger: a token is consumed, then granted or
\* refused, once and for ever.
ImplementsLedger == Ledger!LedgerSpec
=============================================================================
