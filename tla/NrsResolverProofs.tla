-------------------------- MODULE NrsResolverProofs --------------------------
(***************************************************************************)
(* Theorems about the naming service: the set of transactions is exactly   *)
(* what was settled since the last restart, and every query was settled    *)
(* before its validity ended.                                              *)
(***************************************************************************)
EXTENDS NrsResolver, TLAPS

\* The set holds the transactions that were settled since the last restart, no others.
CacheIsThisEpoch ==
    \A jti : jti \in _replay_cache <=>
        \E i \in DOMAIN settled : settled[i].query.jti = jti /\ settled[i].epoch = epoch

\* What is settled was in time, its validity was short, and it is of no later epoch.
SettledInTime ==
    \A i \in DOMAIN settled :
        /\ settled[i].at <= settled[i].query.exp
        /\ settled[i].query.exp - settled[i].query.iat <= MaxWindow
        /\ settled[i].epoch <= epoch

IInv == TypeOK /\ CacheIsThisEpoch /\ SettledInTime /\ SettledOncePerEpoch

\* What Append does to a sequence of settled queries.
LEMMA AppendEntry ==
    ASSUME NEW s \in Seq(Entry), NEW e \in Entry
    PROVE  /\ Append(s, e) \in Seq(Entry)
           /\ DOMAIN s = 1..Len(s) /\ Len(s) \in Nat
           /\ DOMAIN Append(s, e) = 1..(Len(s) + 1)
           /\ \A i \in DOMAIN s : Append(s, e)[i] = s[i]
           /\ Append(s, e)[Len(s) + 1] = e
OBVIOUS

\* The clock keeps its type, and nothing else moves with it.
LEMMA ClockStep ==
    ASSUME TypeOK, ClockMoves
    PROVE  ClockTypeOK' /\ UNCHANGED <<_replay_cache, answer, epoch, settled>>
<1>1. CASE Tick
  BY <1>1 DEF TypeOK, ClockTypeOK, Tick, ClockMoves
<1>2. CASE StepBack
  BY <1>2 DEF TypeOK, ClockTypeOK, StepBack, ClockMoves
<1> QED BY <1>1, <1>2 DEF ClockMoves

\* A step of resolve_intent refuses the query or settles it.
LEMMA ResolveCases ==
    ASSUME NEW q \in Query, resolve_intent(q)
    PROVE  \/ \E why \in {"replay", "expired", "too_long"} :
                /\ Refuse(q, why)
                /\ why = "replay" => q.jti \in _replay_cache
           \/ q.jti \notin _replay_cache /\ ~Expired(q) /\ ~TooLong(q) /\ Settle(q)
BY DEF resolve_intent

\* The inductive invariant.
THEOREM Invariance == Spec => []IInv
<1>1. Init => IInv
  BY DEF Init, IInv, TypeOK, ClockInit, ClockTypeOK, Outcome, CacheIsThisEpoch,
         SettledInTime, SettledOncePerEpoch
<1>2. IInv /\ [Next]_vars => IInv'
  <2> SUFFICES ASSUME IInv, [Next]_vars PROVE IInv'
    OBVIOUS
  <2>1. ASSUME UNCHANGED <<_replay_cache, epoch, settled>>, ClockTypeOK',
               answer' \in [query : Query, outcome : Outcome]
        PROVE  IInv'
    BY <2>1 DEF IInv, TypeOK, CacheIsThisEpoch, SettledInTime, SettledOncePerEpoch
  <2>2. CASE ClockMoves
    BY <2>1, <2>2, ClockStep DEF IInv, TypeOK
  <2>3. CASE Restart
    <3>1. TypeOK'
      BY <2>3 DEF Restart, IInv, TypeOK, ClockTypeOK
    <3>2. \A i \in DOMAIN settled : settled[i].epoch \in Nat /\ settled[i].epoch < epoch'
      BY <2>3 DEF Restart, IInv, TypeOK, Entry, SettledInTime
    <3>3. CacheIsThisEpoch'
      BY <2>3, <3>2, <3>1 DEF Restart, CacheIsThisEpoch, TypeOK
    <3>4. SettledInTime' /\ SettledOncePerEpoch'
      BY <2>3, <3>2, <3>1 DEF Restart, IInv, TypeOK, SettledInTime, SettledOncePerEpoch
    <3> QED BY <3>1, <3>3, <3>4 DEF IInv
  <2>4. ASSUME NEW q \in Query, resolve_intent(q) PROVE IInv'
    <3>1. CASE \E why \in {"replay", "expired", "too_long"} : Refuse(q, why)
      BY <2>1, <3>1 DEF Refuse, IInv, TypeOK, ClockTypeOK, Outcome
    <3>2. CASE q.jti \notin _replay_cache /\ ~Expired(q) /\ ~TooLong(q) /\ Settle(q)
      <4> DEFINE e == [query |-> q, at |-> clock, epoch |-> epoch, resolved |-> q.tolerable]
      <4>1. /\ q.jti \in Jti /\ q.iat \in Int /\ q.exp \in Int /\ q.tolerable \in BOOLEAN
            /\ MaxWindow \in Nat
        BY ResolverAssumption DEF QueryType
      <4>2. e \in Entry
        BY <4>1 DEF Entry, IInv, TypeOK, ClockTypeOK
      <4>3. /\ settled' = Append(settled, e) /\ UNCHANGED <<clock, peak, epoch>>
            /\ _replay_cache' = _replay_cache \cup {q.jti}
        BY <3>2 DEF Settle
      <4>4. /\ e.query = q /\ e.at = clock /\ e.epoch = epoch
        OBVIOUS
      <4>5. clock <= q.exp /\ q.exp - q.iat <= MaxWindow
        BY <3>2, <4>1 DEF Expired, TooLong, IInv, TypeOK, ClockTypeOK
      <4> HIDE DEF e
      <4>6. settled \in Seq(Entry)
        BY DEF IInv, TypeOK
      <4>7. /\ settled' \in Seq(Entry)
            /\ DOMAIN settled = 1..Len(settled) /\ Len(settled) \in Nat
            /\ DOMAIN settled' = 1..(Len(settled) + 1)
            /\ \A i \in DOMAIN settled : settled'[i] = settled[i]
            /\ settled'[Len(settled) + 1] = e
        BY <4>2, <4>3, <4>6, AppendEntry
      <4>8. TypeOK'
        BY <3>2, <4>1, <4>3, <4>7 DEF Settle, IInv, TypeOK, ClockTypeOK, Outcome
      <4>9. CacheIsThisEpoch'
        BY <4>3, <4>4, <4>7 DEF IInv, CacheIsThisEpoch
      <4>10. SettledInTime'
        BY <4>3, <4>4, <4>5, <4>7, <4>8 DEF IInv, TypeOK, SettledInTime
      <4>11. SettledOncePerEpoch'
        BY <3>2, <4>3, <4>4, <4>7 DEF IInv, CacheIsThisEpoch, SettledOncePerEpoch
      <4> QED BY <4>8, <4>9, <4>10, <4>11 DEF IInv
    <3> QED BY <2>4, <3>1, <3>2, ResolveCases
  <2>5. CASE UNCHANGED vars
    BY <2>1, <2>5 DEF vars, IInv, TypeOK, ClockTypeOK
  <2> QED BY <2>2, <2>3, <2>4, <2>5 DEF Next
<1> QED BY <1>1, <1>2, PTL DEF Spec

\* Every variable keeps its type, for every set of queries.
THEOREM TypeCorrect == Spec => []TypeOK
BY Invariance, PTL DEF IInv

\* A transaction is settled at most once between two restarts.
THEOREM SettledOnce == Spec => []SettledOncePerEpoch
BY Invariance, PTL DEF IInv

\* However often the server is restarted, a query is settled again only while its
\* validity can last.
THEOREM ReplaysEnd == Spec => []ReplaysAreBrief
<1>1. IInv => ReplaysAreBrief
  <2> SUFFICES ASSUME IInv, NEW i \in DOMAIN settled, NEW j \in DOMAIN settled,
                      settled[i].query = settled[j].query,
                      settled[i].query.iat <= settled[i].at
               PROVE  settled[j].at - settled[i].at <= MaxWindow
    BY DEF ReplaysAreBrief
  <2>1. settled[i] \in Entry /\ settled[j] \in Entry
    BY DEF IInv, TypeOK
  <2>2. /\ settled[i].at \in Int /\ settled[j].at \in Int /\ settled[i].query \in Query
        /\ settled[i].query.iat \in Int /\ settled[i].query.exp \in Int /\ MaxWindow \in Int
    BY <2>1, ResolverAssumption DEF Entry, QueryType
  <2>3. /\ settled[j].at <= settled[i].query.exp
        /\ settled[i].query.exp - settled[i].query.iat <= MaxWindow
    BY DEF IInv, SettledInTime
  <2> QED BY <2>2, <2>3
<1> QED BY <1>1, Invariance, PTL

\* A query is called a replay only if its transaction was settled since the restart.
THEOREM ReplaysAreGenuine == Spec => ReplayIsGenuine
<1>1. IInv /\ [Next]_vars =>
        [answer' # answer /\ answer'.outcome = "replay"
           => \E i \in DOMAIN settled : /\ settled[i].query.jti = answer'.query.jti
                                        /\ settled[i].epoch = epoch]_vars
  <2> SUFFICES ASSUME IInv, Next, answer' # answer, answer'.outcome = "replay"
               PROVE  \E i \in DOMAIN settled : /\ settled[i].query.jti = answer'.query.jti
                                                /\ settled[i].epoch = epoch
    OBVIOUS
  <2>1. PICK q \in Query : resolve_intent(q)
    BY DEF Next, ClockMoves, Restart
  <2>2. answer'.query = q /\ q.jti \in _replay_cache
    <3>1. CASE \E why \in {"replay", "expired", "too_long"} :
                  Refuse(q, why) /\ (why = "replay" => q.jti \in _replay_cache)
      BY <3>1 DEF Refuse
    <3>2. CASE Settle(q)
      <4>1. answer'.outcome \in {"resolved", "unmet"}
        BY <3>2 DEF Settle
      <4> QED BY <4>1
    <3> QED BY <2>1, <3>1, <3>2, ResolveCases
  <2> QED BY <2>2 DEF IInv, CacheIsThisEpoch
<1> QED BY <1>1, Invariance, PTL DEF ReplayIsGenuine, Spec
=============================================================================
