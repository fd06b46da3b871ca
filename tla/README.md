# A verification of the ZTCPP / NHP-SBA reference implementation

This directory holds TLA+ modules, TLC configurations and machine-checked proofs
about the reference implementation of NHP-SBA: a policy decision point in Python
(`src/nhp_server`) and an access controller, the policy enforcement point, in Rust
(`src/nhp_ac`). Agents knock with a signed NHP-KNK request; the decision point
authenticates it, judges its metrics and grants a session; the access controller
is to enforce it.

Contents: [the system](#the-system), [how it is modelled](#how-it-is-modelled),
[what the runs show](#what-the-runs-show), [what is proved](#what-is-proved),
[disagreements with the documentation](#disagreements-with-the-documentation),
[what is not modelled](#what-is-not-modelled-and-why),
[how to extend it](#how-to-extend-it).
`PROJECT.json` lists the components, the runs, the source lines behind each
definition, the hazards with the properties aimed at them, and the theorems.

To check a module: `tlc -config MCKnkPipeline.cfg MCKnkPipeline`. To check its
proofs: `tlapm KnkPipelineProofs.tla`.

## The system

| Component | State it keeps | Operations | What is hard | What makes it correct |
|---|---|---|---|---|
| Admission pipeline (`app/api/routes.py`, `app/protocol/knk.py`, `app/policy/decision_engine.py`, `app/security/jwt_validation.py`) | `_seen_nonces`, a dictionary from nonce to the time it was recorded | `submit_knk`: payload checks, JWT checks, nonce, gates, session parameters | retries and duplicates; three readings of a clock that may be corrected; a cache swept only on acceptance; a nonce used up before the gates decide; keys that other threads change meanwhile | a token is accepted once and settled for ever; only a verified request uses a nonce up; the cache is what the recent acceptances left in it; a grant goes to a key the store vouched for |
| MAMA gates (`app/policy/mama_gate.py`) | none | `evaluate`: funding, safety, value, in this order | floating-point ties; metrics that are NaN; overlapping limits | what is worse is not admitted where what is better is refused |
| EDNS score (`app/policy/edns_metrics.py`) | none | `compute`, `classify_risk` | unchecked inputs, cut on one side; constants that must agree with another file | a ratio for all inputs, monotone in each; consistent with the safety gate |
| Trust store (`app/security/trust_store.py`) | two dictionaries: key objects and raw bytes | `load_key`, `load_key_bytes`, `remove_key`, `is_trusted`, `get_public_key`, `get_public_key_bytes`, `list_trusted_nodes` | "thread-safe", with no lock; two writes per call | each answer is one the store could give at one instant; the dictionaries agree at rest |
| Rate limiter (`app/api/middleware.py`) | per client, the times of its recent admissions | `dispatch` | a sliding window over a clock that steps back | a bound on the rate |
| Naming service (`app/api/nhp_nrs.py`, twin `nrs.py`) | a module global: the set of transactions seen | `resolve_intent` | client-supplied validity; refusals that use a transaction up; the set is lost at a restart | once per epoch; a restart reopens a query only for its validity |
| Handshake machines (`app/protocol/state_machine.py`, `nhp_ac/src/protocol/nhp_state_machine.rs`) | phase, node, session, reason, count | six methods each | two implementations meant to be equal, one by a table and one by tests; fields assigned before a refusal | equal until a reset only Rust takes; fields that tell the history; one identifier for an open session |
| Rust replay cache (`nhp_ac/src/protocol/replay.rs`) | a set of nonces, the time it was last cleared | `check_and_add` | cleared as a whole, for age or when full | no genuine nonce refused; a bounded set; replays bounded by clearings |
| Start-up (`app/main.py`, `api/dependencies.py`) | none: it builds the limiter, the trust store and the validator | `create_app`, `lifespan` | the process may die in the middle of a request, and starts with nothing it knew | a token accepted before is replayed only while it lives; no nonce is used up without a verdict |
| Rust sessions and PEP counter (`network/session.rs`, `policy/pep.rs`) | a map of sessions; a counter kept apart from it | create, get, remove, clean up; ask, increment, decrement | a counter nobody ties to the map; asking and counting are two calls; a subtraction that saturates | the counter never falls behind the map; the limit is exceeded only by callers under way |
| Rust ingress pipeline (`crypto_pipeline.rs`) | the packet's buffer | decrypt in place, verify, parse | the buffer after a failure | nothing unverified is parsed; a failed packet is not accepted later |
| Rust codecs (`packet.rs`, `http2_frame.rs`, `knk.rs`) | none | encode, decode | lengths at the edge of their width | round trips |
| v0.2 decision point (`nhp_server/main.py`, `safety-gates`, `sat`) | none | knock, evaluate, issue a token | constants in several places | a token is valid at its snapshot |
| SBA mediation and clients (`app/sba`, part of `middleware.py`) | an HTTP client | register, discover, subscribe | I/O | see [what is not modelled](#what-is-not-modelled-and-why) |

How they interact. A request enters the server through the rate limiter and
reaches the route, which parses the body, calls the policy engine, and through it
the JWT validator, which reads the trust store; the engine then calls the gates.
All of these are called by name and share the process: the validator's nonce cache,
the trust store, the limiter's lists and the resolver's set are objects in memory
that live as long as the process does. A request is suspended once, where the limiter
awaits `call_next` and its body is read off the socket; before it, the limiter's
decision, and after it, everything from the parsing of the body to the reply, run to
their end on the one thread of the event loop. The trust store, on the other hand,
offers itself to several threads. The
naming service is a route of its own. The Rust modules are not wired to one another
yet: its library builds the ingress pipeline, its `main` a listener that hands
packets to nobody. They are modelled by what a caller can do with them.

## How it is modelled

| Module | Models | Notes |
|---|---|---|
| `WallClock` | `time.time()` | It ticks, and a correction sets it back by at most `MaxBack` below its peak. Extended by every module that reads it. |
| `KnkPipeline` | the admission pipeline | One action per stage; each reads the clock for itself. |
| `MamaGate` | the three gates | Constant-level operators in integers; where the exact score ties with a threshold, both outcomes. |
| `TokenLedger` | (abstract) | What the pipeline promises: a token is unused, consumed, then granted or refused, for ever. |
| `RiskPolicy` | the EDNS score and its classes, next to the gates | Extends `MamaGate`. |
| `RateLimiter` | `RateLimitMiddleware` | A decision is one action. |
| `PdpServer` | the server: the limiter, calls that wait for their bodies, the pipeline, the restart of the process | Extends `KnkPipeline` and `RateLimiter` and composes their actions. |
| `NrsResolver` | `resolve_intent`, a restart of the server | A query is one action. |
| `Handshake` | both handshake machines, driven by the same calls | One action per method, made of both. |
| `HandshakeLifecycle` | (abstract) | The phases in order, termination from any, a new start after it. |
| `TrustStore` | the trust store | One action per dictionary access, any number of threads. |
| `AtomicTrust` | (abstract) | A map whose calls take effect at one instant. |
| `ReplayCache` | the Rust replay cache | Monotone time. |
| `AccessController` | `SessionManager` and `NhpPep`, and callers of both | Monotone time. |
| `*Proofs` | | Theorems about the module they extend. |
| `MC*` | | The instances TLC checks. |

Some correspondences that are not obvious:

- **`KnkPipeline`.** `FullValidate` is the route and the parser up to the first 400;
  `ValidateClaims` is `validate` up to the nonce, as a sequence of eleven checks in the
  code's order, each with the reason `_map_jwt_error` gives it, so that the answer is
  that of the first failure. One of them is none of the validator's: a JWS header that
  is JSON but no object makes `header.get` raise (`jws.py:105`) what neither the
  verifier nor the engine catches, and the route answers 500 (`routes.py:115`). It
  comes after the trust check and before the signature, and changes no state. After
  the nonce is recorded no statement can raise, so that the model has no such answer there. `ValidateNonce` is `_validate_nonce` with the clean-up
  that ends it; `EvaluateGates` is the rest. The stages are separate actions although
  no other request runs in between: the clock may move between them, and it is read
  in three of them. A submission may be delivered at any time and again, which covers
  retries, duplicates, delays and reordering. A token is a record of what the
  signature binds, and a signature is good when the signer's key is the public key
  presented. `SetTrust` is another thread that loads or removes a key ("thread-safe
  operations for runtime key management", `trust_store.py:36`): it may come between any
  two stages. What threads see inside one call of the store is `TrustStore`'s subject.
  `vouched` is a history variable: the keys the store has held for the token's node
  since the request was parsed. So is `accepted`: the tokens that passed, each with the
  time and with its fate.
- **`MamaGate`.** The code works in binary floating point: `0.60 - 0.50 < 0.10` is
  true in Python. The models count in hundredths and let a tie go either way, so
  what is proved holds for both roundings. It abstracts the error away from ties:
  ratios finer than the scale of the model are not followed. A metric may be `NaN`:
  Python's JSON reader accepts it and the bounds of `CEIMetrics` (`ge`, `le`) let it
  through, as they are comparisons. The funding gate refuses it (`not (x <= limit)`); the
  safety and value gates, which refuse what is *below* a minimum, pass it. The score
  `current_edns` cannot be NaN: the route writes the payload out again with `orjson`,
  which makes it null, and the schema refuses it with a 400.
- **`RateLimiter`.** The list of times is represented by the indices, in the history
  of admissions, of those it holds; a request that is refused still cleans the list.
  `admitted` is a history variable.
- **`PdpServer`.** A call is one request of a client; a client that sends a body again
  makes another call. `progress[r]` follows it: the limiter decides (`Arrive`), the
  call waits at `call_next` for its body or hangs up (`Read`), a complete one is
  entered (`Enter`) in whatever order the loop finds, and its stages follow
  (`Continue`), each an action of `KnkPipeline`; in the end `progress[r]` is its answer.
  Only the clock and the trust store move between two stages, since nothing in the
  handler suspends; the guards `stage = "idle"` are the one thread of the loop, and
  `Provision`, which has none, is a thread of the store's owner. `Restart` may come anywhere, between two stages included: `Boot` is what
  `lifespan` and `create_app` build, and the calls inside are lost. `accepted` and
  `admitted` are histories of one life of the process, `first` of all of them.
  The store starts empty (`create_trust_store`). As shipped the application does not
  start: `main.py:21` imports `NhpSbaSbaMediationMiddleware`, and `main.py:69` adds it,
  while `middleware.py:94` defines `NhpSbaMediationMiddleware`, so the import fails before
  `create_app` is called. The model is of the application with that name put right; on
  this path the middleware hands every request on.
- **`AccessController`.** Nothing in the repository calls the two objects together, so
  the model's callers do what the calls allow: they open a session after
  `can_accept_session` said yes, report an opened one with `increment_sessions`, and a
  session that `remove_session` found, or `cleanup_expired` counted, with
  `decrement_sessions`. Each call has its object to itself (`&mut self`), and between
  two calls of one caller come those of others. A new UUID is any id not in the map.
  Time left is kept instead of `expires_at`: 0 is the instant of expiry, at which
  `is_expired` is still false.
- **`NrsResolver`.** A query's context is one Boolean, whether its tolerance can be
  met. `settled` is a history variable, and so is `epoch`, the number of restarts. The
  signature header is not modelled, since the code never reads it.
- **`Handshake`.** A method returns the machine it leaves and whether it accepted; a
  Python method that raises may have assigned a field first. `agreed` is the history
  of the arguments both machines accepted; `apart` says that Rust has taken a reset
  that Python refused.
- **`TrustStore`.** A dictionary access is atomic in CPython. `overlap[n]` is a
  history variable: the latest write to `n` began while another was under way.
- **`ReplayCache`.** `check_and_add` includes the clean-up it starts with. The
  methods take `&mut self`, so a call is one action. `sweeps` and `overflows` are
  history variables that count the two kinds of clearing.
- **`RiskPolicy`.** The variables hold the latest measurement and what the code makes
  of it. Nothing in the server calls the calculator: the score a request carries is
  the agent's. The module asks what the gates do with an agent that uses it.

Definitions whose comment says *Mutant* are what a plausible bug would make of the
next one; no specification uses them. Each property is known to be violated when one
of them takes its original's place.

## What the runs show

A run of `pass` is exhaustive within its bounds, which the modules and the
configurations name.

| Run | Bounds, and why they are enough | What it shows |
|---|---|---|
| `pipeline` | 18 submissions of 2 nodes with 2 keys: three genuine tokens of one node, two of which share a nonce, and one of the other; tokens again with metrics that tie at each gate, fail, or are `NaN`; one submission for every check that can fail, the header that raises included. The keys change between any two stages. Clock up to 5, corrections of 1. `NonceExpiry` is exactly `ExpBound + 2 * Skew + 2 * MaxBack`, the least for which the properties are true, and the horizon leaves room for a token to be accepted, expire and be forgotten, and for an entry to outlive the window. | `AcceptedOnce`; `LiveTokenRemembered`, the reason for it; `CacheIsExact`: the cache is at every moment what the acceptances have left, so that a nonce is refused until, and only until, an acceptance comes more than the window after its own, and entries are as many as the acceptances that none followed so late; `NonceRefusedOnlyAfterUse`: no forged, malformed or expired request uses up a nonce, so that none makes the server refuse the genuine one; `GrantIsSound`: a session goes only to a signer whose key the store held for the node while the request was handled; `ImplementsLedger`: the refinement of `TokenLedger`. |
| `server` | 3 calls of one client with one token: the original, a retry and a copy; a limit of 2 requests in 2 ticks, clock up to 2, corrections of 1; any number of restarts, keys that change at any moment. The clock passes every age of the token: it is issued ahead of the clock at 0, acceptable at 1 and expired at 2, so it can be accepted again in another life, and not after its own. The limiter's list fills, is cleaned and fills again while the clock is set back: with the span `Window` in place of `Window - MaxBack`, `RateBound` is violated in this run. The horizon is small because liveness is checked on the whole graph. | `ReplayMeansDecided`: whoever is told that a nonce is used shares it with a call that has had its verdict, whatever failed or died meanwhile; `RateBound`; `LedgerBetweenRestarts`: each life of the process keeps the ledger, and only a restart gives a token back; `ReplaysAreBrief`: what a restart reopens, and for how long; `EveryReadyCallIsAnswered`: a client that stalls in the middle of its body holds up nobody else. |
| `handshake` | 2 nodes, sessions and reasons, to tell a refused argument from an accepted one. The state space is finite without a bound. | `MirrorUntilReset`, `AuditFieldsAgreed`, `BothFieldsFollowPhase`, and both machines' refinements of `HandshakeLifecycle`. |
| `handshake_reason`, `handshake_mirrors` | the same | violations, see below |
| `trust_store` | 2 threads, so that any two accesses can meet, 2 keys, 1 node, as nodes do not interact. Finite without a bound. | `TrustIsAtomic`, `ObjectsAreAtomic`: each dictionary by itself refines an atomic map; `AgreeUnlessOverlap`. |
| `trust_store_rest` | the same | violation, see below |
| `replay_cache` | 3 nonces against 2 entries, expiry 2, time up to 6, 6 acceptances: two clearings for age and two overflows. | `RefusedOnlyWithinExpiry`; `ThriceOnlyOnOverflow`; `RepeatsArePaidFor`: a nonce passes once and then only as often as the set was cleared, and what each kind of clearing costs; its bounds are reached. |
| `replay_window` | the same | violation, see below |
| `access_controller` | 4 ids, 2 callers opening at a limit of 2 sessions, a timeout of 2 ticks: 3 sessions can be open at once, the fourth id shows that no more can, and each can expire before the PEP has heard of it. Finite without a bound. | `DriftIsSwallowed` and `SessionsBounded`, whose bounds are reached. |
| `nrs` | 5 queries of 2 transactions: genuine, later, too long, not tolerable, issued ahead of the clock; 1 restart, corrections of 1. | `SettledOncePerEpoch`; `ReplaysAreBrief`; `ReplayIsGenuine`. |
| `risk_policy` | the default configuration; every combination of 3 levels of 5 inputs, with components above one, negative deficits and ties; metrics on both sides of the limits and metrics that are `NaN`. | `EdnsMonotone`; `NoRewardForWorse`; `AdmittedIsLowRisk`: 0.25 in `classify_risk` is what 0.85 means in the safety gate, for an index that is a number; `FundingRatioNeverDecides`: with the default limits, the funding ratio is never the reason. |

Deadlock is checked in every run; none can stop.

**Fairness.** `ServerSpec` assumes weak fairness of `Enter` and `Continue` for each
call: the event loop resumes every task whose input is there, and the handler it has
entered awaits nothing that suspends. It assumes nothing of clients, which may stall
for ever, of the clock, or of the process, which may die: a call is then lost, not
waiting. The other specifications state no fairness. For `AccessController` none would
be justified, since nobody in the repository calls `cleanup_expired`; a slot is freed
when a caller frees it.

What `DriftIsSwallowed` means for the PEP: a decrement is swallowed when a session ends
before its own `increment_sessions`, and each one takes a slot away for ever, as nothing
lowers the count again. It takes a count of 0, so all losses together are never more
than the callers that may be opening a session at once, for however long the PEP runs.
Where they can be as many as `max_sessions`, the PEP may end up refusing everyone with
no session open; where they are fewer, it never does (`IdlePepAccepts`).

What `RepeatsArePaidFor` means for the replay cache: with the limit and expiry it is
given, the number of times one nonce can pass is at most one more than the elapsed time
over the expiry plus the number of nonces accepted over `max_entries`. A flood of fresh
nonces therefore buys a repetition for every `max_entries` of them.

What `GrantIsSound` does and does not promise: the key is looked up once, so a key removed
while its request is handled is still granted; one removed before the request was parsed
is not. A grant therefore lags a removal by no more than one request, which runs to its
end without being suspended.

What `CacheIsExact` means for the memory the cache takes: it grows with the tokens that
are accepted in a window of `NonceExpiry` (300 s), which the limiter bounds for each
address but not for all of them, and it keeps what it has until the next acceptance.

What `RateBound` bounds is the rate of admissions. The admitted requests of several
windows may still complete their bodies together, and are then handled one after the
other.

What the code's numbers mean for the pipeline: nonces are remembered for 300 s,
tokens may expire 60 s ahead, and 5 s of skew are allowed, so `AcceptedOnce` holds
for corrections of the clock of up to 115 s. After a restart a token may pass again
for at most 70 s, plus a correction, from its first acceptance (`ReplaysAreBrief`):
a server that stays down for that long replays nothing.

## What is proved

TLC checks small instances. The proof modules establish the same properties for
every value of the constants, from the named assumptions of the modules, which TLC
evaluates in the runs. In each, an inductive invariant is proved
first (`Invariance`), and the properties follow from it, an action property from it
and one step.

- **`KnkPipelineProofs`** — all properties of the run `pipeline`. `AcceptedOnce` is not inductive: what rules a second acceptance out is the state of the cache, and
  the cache forgets. The invariant says of each accepted token that its nonce is
  remembered since a time from which the window covers all it has left to live, or
  was forgotten at a reading of the clock by which, even after a correction, it has
  expired (`MemoryInv`); and of a request between two stages that what was checked
  under an earlier reading still bounds it (`ValidatedInv`). It rests on
  `WindowAssumption`, `NonceExpiry >= ExpBound + 2 * Skew + 2 * MaxBack`, which the
  code's constants satisfy. `Refinement` shows that every step is a step of the
  ledger or leaves it alone; that the ledger never takes a verdict back
  (`VerdictsStand`) is proved of the ledger and carried over to the pipeline
  (`VerdictsAreFinal`). `CacheIsExact` is inductive once it says of the entries when
  they came: what is in the cache came with the latest acceptance of its nonce that
  nothing later has swept (`ExactInv`); that only verified nonces are cached, and hence
  `NonceRefusedOnlyAfterUse`, follow. `GrantIsSound` needs that from the check of the key
  on the signer is among the keys vouched for (`TrustInv`), which no change of the store
  takes back.
- **`PdpServerProofs`** — first the limiter by itself: `RateBound`, because what the
  list has forgotten is older than the window by the *latest* clock, hence by
  `Window - MaxBack` at any admission (`ForgottenAreOld`), and the list never holds
  more than the limit. Then the server: its steps are steps of its parts, so that
  their invariants carry over, and a restart establishes them again; to them it adds
  who is in the handler (`HandlerInv`), that every cached nonce belongs to a call that has
  its verdict or is in the handler on its way to one (`DecidedInv`), and that a token was
  first accepted when it had no more than `ExpBound`, the skew and a correction left to
  live (`FirstInv`). `ReplaysAreDecided` and `RestartsReplayBriefly` follow for any number
  of calls, clients and restarts.

  What the pipeline promises by itself is then proved of the process it runs in,
  restarts included. A step that is no restart is one of the pipeline, so the ledger
  is kept between two of them (`ServerRefinesLedger`), and the invariants about keys and
  cached nonces hold again when a process starts, as it handles nothing and has cached
  nothing: hence grants are sound although keys change between check and grant, a first
  use is never refused, the cache is exact and what can still pass is remembered
  (`ServerGrantsAreSound`, `ServerNonceRefusalsEarned`, `ServerCacheIsExact`). The list of
  a client address never exceeds the limit (`ListsAreBounded`).

  `AnswersApproach` is the part of `EveryReadyCallIsAnswered` that is safety: while a
  call is in the handler its next stage has an outcome (the gates return a verdict on
  all metrics, ties included, `VerdictExists`), each stage leaves fewer to come, and no
  step but these and a restart moves the call; a call that waits for the handler goes
  on waiting or is entered.
- **`AccessControllerProofs`** — the balance of the count, the map and what is under
  way is inductive by itself; the limit needs in addition that the count, together with
  the sessions and admissions it has not heard of, stays below the limit plus the
  callers (`CountInv`). A decrement is ignored at a count of 0 only, where the balance
  says that more increments are outstanding than were ever ignored: that bounds what
  the PEP loses. For any number of callers and sessions.
- **`HandshakeProofs`** — the machines mirror each other, the fields tell the phase,
  and both refine the life cycle, for all identifiers.
- **`TrustStoreProofs`** — for any number of threads, each dictionary refines an
  atomic map, and without an overlap a node has one writer, whose key is in the
  objects once it has stored it there: hence `AgreeUnlessOverlap`.
- **`ReplayCacheProofs`** — an acceptance is placed by the two counts of clearings;
  the set holds exactly what was accepted since the last one, and two clearings for
  age are more than `Expiry` apart. `RepeatsArePaidFor` needs accounts that are
  inductive (`PaidInv`): a nonce the set does not hold has an acceptance to spare, the
  time of the last clearing for age pays for all of them, and what the set holds has
  not yet paid for an overflow. The set never outgrows its limit, but for one entry when
  the limit is 0 (`CacheIsBounded`).
- **`NrsResolverProofs`** — the set is exactly what was settled since the restart, and
  all of it within its validity.
- **`RiskPolicyProofs`** — the score is a ratio and monotone for all inputs at the
  module's levels, any multiples of 20 hundredths (`LevelAssumption`); the gates for every
  configuration and with metrics that may be `NaN`; the two statements about default
  constants from the inequalities they need, `AdmissionIsLowRisk` for an index that is a
  number. `NaNIsNeverBelow` says why not for others: the safety and the value gate refuse
  no index that is `NaN`, whatever the rest is.

What stays with TLC: `EveryReadyCallIsAnswered`. Its safety part is proved
(`AnswersApproach`); the step from there, that weak fairness of `Enter` and `Continue`
makes the event loop take up a waiting call and finish it, needs liveness and `ENABLED`,
which are out of the prover's reach. TLC checks it for the calls of the run; it holds for
any finite number of them, as each occupies the handler for at most four steps, and
says nothing of a server that is never without another request. Out of reach too are induction over data and
recursive operators, of which the modules need none. The bounds on the state (`Horizon`,
`MaxLog` and `MaxRestarts`) restrict the models; the proofs hold for every value of them.

What the proofs take from the modules: cryptography and encodings do what their
libraries promise; a token's `exp` is an integer (Python's `json` accepts the literal
`NaN`, which passes both comparisons of `_validate_expiration`, but a trusted node would
have to sign it); the clock's corrections are bounded by `MaxBack` below its peak.

## Disagreements with the documentation

Each is a run that ends in a violation, and an entry under `findings`.

- `handshake_reason`: "Termination reason if state is SESSION_TERMINATED"
  (`state_machine.py:79`). A second `terminate` raises, but has replaced the reason.
- `handshake_mirrors`: "mirrors the Python implementation"
  (`nhp_state_machine.rs:27`). The Rust `reset` is accepted in every state.
- `trust_store_rest`: "Provides thread-safe operations" (`trust_store.py:36`).
  Overlapping writes can leave the two dictionaries in disagreement for ever.
- `replay_window`: "using a time-based sliding window" (`replay.rs:4`). The set is
  emptied as a whole, and a nonce just seen is fresh again.

Two more have no run of their own.

- The safety gate "Verifies that the EDNS score and Capability Effectiveness Index (CEI)
  meet minimum safety requirements" (`mama_gate.py:9`), and "This is a fail-closed
  design" (`mama_gate.py:16`). An index that is `NaN` passes the safety and the value gate,
  whatever the score is (`NaNIsNeverBelow`). `AdmittedIsLowRisk` makes an exception of it,
  without which the run `risk_policy` ends in a violation.
- A second `activate_session` is refused by both handshake machines, but Python has
  assigned the new identifier by then (`state_machine.py:124`) and Rust has not. That the
  two differ there is what `MirrorUntilReset` leaves out of the comparison.

## What is not modelled, and why

- Cryptography, base64, JSON, HTTP and FlatBuffers: assumed to do what their
  libraries promise. Well-formedness is one attribute of a submission.
- `teardown_session`, health checks, logging, metrics, tracing: no state of the
  protocol. `clear_nonce_cache` is used by tests only, and would forget what the window
  promises to remember.
- The SBA mediation middleware refers to names it never assigns
  (`middleware.py:113`), and `app/main.py` imports it under another name than it is
  defined by, so that the application as shipped stops at the import; on the paths it is
  meant for there is no behaviour to model. The NRF, AMF and PCF clients wrap an
  HTTP library.
- The v0.2 decision point imports `safety_gates.evaluator` from a directory named
  `safety-gates`. Its evaluator is a sequence of comparisons with constants, its issuer
  sets `iat` to the snapshot and `exp` to the snapshot plus the duration asked for:
  stateless, and settled by a unit test.
- The Rust ingress pipeline (`crypto_pipeline.rs`) is a straight line of three library
  calls on a buffer it borrows: decrypt, verify, parse, each with an early return. It
  keeps nothing between packets and no caller passes the buffer again; what could go
  wrong lies in the primitives.
- The Rust codecs are pure functions of their input with no state and no caller among
  the modules above. A frame's length is written in three bytes, so that a payload of
  2^24 bytes or more would not come back; nobody builds one.
- `get_session` returns an expired session until the clean-up: nothing in the repository
  says who may use a session when, so there is no property to state.
- The naming service is not composed with `PdpServer`: it shares nothing with the pipeline
  but the limiter in front, and its own module has its own restart.
- The Rust listener, transport, settings and errors: I/O and configuration that
  dispatches to none of the modules above.
- Simulators, benchmarks, plots, documents, the vendored Java runtime.

- `docs/threat-model` holds TLA+ models of a design (one logical gateway, monotone
  nonces) and a Python program that enumerates one of them. They do not describe this
  code and are not used here.

## How to extend it

All components that keep state and can run are modelled. What would come next needs
code that does not exist yet: a main loop in the access controller that feeds packets
through the ingress pipeline to the handshake machine, opens sessions and calls the
clean-up. With it `AccessController`, `ReplayCache` and the Rust half of `Handshake`
compose as `PdpServer` composes the decision point, a slot that is freed eventually
becomes a liveness property with a fairness to justify it, and the buffer of
`crypto_pipeline.rs` gets a life of its own. A wired mediation middleware would join
`PdpServer` in front of the pipeline.

To add to a module: one action per operation, an invariant as a conjunction of named
parts, a definition marked *Mutant* for every property, no recursive operator in a
module that is extended by proofs.
