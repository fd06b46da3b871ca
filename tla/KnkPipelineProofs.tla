-------------------------- MODULE KnkPipelineProofs --------------------------
(***************************************************************************)
(* Proofs about KnkPipeline, for every set of nodes, keys, nonces and      *)
(* submissions, every clock horizon, and every window that satisfies       *)
(* WindowAssumption.                                                       *)
(***************************************************************************)
EXTENDS KnkPipeline, TLAPS

\* The longest time after the recording of its nonce that a token can expire.
Reach == ExpBound + Skew + MaxBack

\* An accepted token is remembered since a time from which NonceExpiry covers
\* all it has left to live, or was forgotten at a clock reading by which, even
\* after a correction, it has expired.
Covered(t) ==
    \/ t.nonce \in DOMAIN seen /\ t.exp <= seen[t.nonce] + Reach
    \/ t.exp + NonceExpiry < peak + Reach

MemoryInv == \A t \in Consumed : Covered(t)

\* What ValidateClaims has established by the time ValidateNonce reads the cache.
ValidatedInv ==
    stage = "validated" =>
        /\ request.jws.nonce = request.nonce
        /\ request.jws.exp <= peak + ExpBound + Skew
        /\ request.jws \in Consumed => request.nonce \in DOMAIN seen

\* The gates judge the token accepted last, which has no verdict yet.
RecordedInv ==
    stage = "recorded" =>
        /\ accepted # <<>>
        /\ accepted[Len(accepted)].fate = "consumed"

IInv == TypeOK /\ ClockInv /\ MemoryInv /\ ValidatedInv /\ RecordedInv /\ AcceptedOnce
-----------------------------------------------------------------------------
\* The verdicts of the gates are answers the route knows.
LEMMA VerdictType ==
    ASSUME NEW edns, NEW cei
    PROVE  GateVerdicts(edns, cei) \subseteq GateReason \cup {"passed"}
  BY DEF GateVerdicts, FundingGate, SafetyGate, ValueGate, GateReason

\* Rounding leaves every score with an answer, ...
LEMMA ClearsEither ==
    ASSUME NEW score \in Int \cup {NaN}, NEW threshold \in Int
    PROVE  Clears(score, threshold) # {}
  <1>1. CASE score = NaN
    <2>1. TRUE \in Clears(score, threshold)
      BY <1>1 DEF Clears
    <2>2. QED
      BY <2>1
  <1>2. CASE score # NaN
    <2>1. (score > threshold) \in Clears(score, threshold)
      BY <1>2 DEF Clears
    <2>2. QED
      BY <2>1
  <1>3. QED
    BY <1>1, <1>2

LEMMA VerdictOfOutcome ==
    ASSUME NEW outcomes, outcomes # {}, NEW reason
    PROVE  {IF ok THEN "passed" ELSE reason : ok \in outcomes} # {}
  <1>1. PICK passed \in outcomes : TRUE
    OBVIOUS
  <1>2. (IF passed THEN "passed" ELSE reason) \in {IF ok THEN "passed" ELSE reason : ok \in outcomes}
    OBVIOUS
  <1>3. QED
    BY <1>2

\* ... so that the gates have a verdict on all metrics.
LEMMA VerdictExists ==
    ASSUME NEW edns \in Ratio, NEW cei \in CEIMetrics
    PROVE  GateVerdicts(edns, cei) # {}
  <1>1. /\ Config.min_funding_ratio \in Int /\ 100 * Config.min_safety_score \in Int
        /\ Config.min_value_realization \in Int
    BY ConfigAssumption DEF ConfigType, Ratio
  <1>2. /\ FundingScore(cei) \in Int \cup {NaN}
        /\ SafetyScore(edns, cei) \in Int \cup {NaN}
        /\ ValueScore(cei) \in Int \cup {NaN}
    <2>1. /\ cei.sla_penalty_exposure \in Int \cup {NaN}
          /\ cei.throughput_impact \in Int \cup {NaN}
          /\ cei.capability_effectiveness_index \in Int \cup {NaN}
          /\ cei.projected_demand_not_served \in Int \cup {NaN}
          /\ edns \in Int
      BY DEF CEIMetrics, Metric, Ratio
    <2>2. FundingScore(cei) \in Int \cup {NaN}
      BY <2>1 DEF FundingScore, Computed, MaxRatio
    <2>3. SafetyScore(edns, cei) \in Int \cup {NaN}
      BY <2>1 DEF SafetyScore, Computed
    <2>4. ValueScore(cei) \in Int \cup {NaN}
      BY <2>1 DEF ValueScore, Computed
    <2>5. QED
      BY <2>2, <2>3, <2>4
  <1>3. FundingGate(cei) # {} /\ SafetyGate(edns, cei) # {} /\ ValueGate(cei) # {}
    <2>1. /\ Clears(FundingScore(cei), Config.min_funding_ratio) # {}
          /\ Clears(SafetyScore(edns, cei), 100 * Config.min_safety_score) # {}
          /\ Clears(ValueScore(cei), Config.min_value_realization) # {}
      BY <1>1, <1>2, ClearsEither
    <2>2. SafetyGate(edns, cei) # {} /\ ValueGate(cei) # {}
      BY <2>1, VerdictOfOutcome DEF SafetyGate, ValueGate
    <2>3. FundingGate(cei) # {}
      <3>1. {IF ok THEN "passed" ELSE "funding_threshold_exceeded" :
               ok \in Clears(FundingScore(cei), Config.min_funding_ratio)} # {}
        BY <2>1, VerdictOfOutcome
      <3>2. QED
        BY <3>1 DEF FundingGate
    <2>4. QED
      BY <2>2, <2>3
  <1>4. QED
    BY <1>3 DEF GateVerdicts

\* There are eleven checks, and each failure has an answer the route knows.
LEMMA ChecksShape ==
    ASSUME NEW s, NEW now
    PROVE  /\ DOMAIN JwtChecks(s, now) = 1..11
           /\ \A i \in 1..11 :
                 JwtChecks(s, now)[i].reason \in (Reason \cup {"500"}) \ {"invalid_nonce"}
  <1>1. DOMAIN JwtChecks(s, now) = 1..11
    BY DEF JwtChecks
  <1>2. /\ JwtChecks(s, now)[1].reason \in (Reason \cup {"500"}) \ {"invalid_nonce"}
        /\ JwtChecks(s, now)[2].reason \in (Reason \cup {"500"}) \ {"invalid_nonce"}
        /\ JwtChecks(s, now)[3].reason \in (Reason \cup {"500"}) \ {"invalid_nonce"}
        /\ JwtChecks(s, now)[4].reason \in (Reason \cup {"500"}) \ {"invalid_nonce"}
        /\ JwtChecks(s, now)[5].reason \in (Reason \cup {"500"}) \ {"invalid_nonce"}
        /\ JwtChecks(s, now)[6].reason \in (Reason \cup {"500"}) \ {"invalid_nonce"}
        /\ JwtChecks(s, now)[7].reason \in (Reason \cup {"500"}) \ {"invalid_nonce"}
        /\ JwtChecks(s, now)[8].reason \in (Reason \cup {"500"}) \ {"invalid_nonce"}
        /\ JwtChecks(s, now)[9].reason \in (Reason \cup {"500"}) \ {"invalid_nonce"}
        /\ JwtChecks(s, now)[10].reason \in (Reason \cup {"500"}) \ {"invalid_nonce"}
        /\ JwtChecks(s, now)[11].reason \in (Reason \cup {"500"}) \ {"invalid_nonce"}
    BY DEF JwtChecks, Reason
  <1>3. QED
    BY <1>1, <1>2

\* Of the numbers of the checks that fail, one comes first.
LEMMA FirstOfEleven ==
    ASSUME NEW P, NEW k \in 1..11, ~P[k].ok
    PROVE  \E i \in 1..11 : ~P[i].ok /\ \A j \in 1..(i - 1) : P[j].ok
  BY SMTT(30)

\* The answer to a request that fails validation before its nonce is looked up is a reason
\* other than a used nonce, or a 500.
LEMMA FailureType ==
    ASSUME NEW s, NEW now, ~Passed(JwtChecks(s, now))
    PROVE  FirstFailure(JwtChecks(s, now)) \in (Reason \cup {"500"}) \ {"invalid_nonce"}
  <1>1. PICK k \in 1..11 : ~JwtChecks(s, now)[k].ok
    BY ChecksShape DEF Passed
  <1>2. \E i \in 1..11 :
            /\ ~JwtChecks(s, now)[i].ok
            /\ \A j \in 1..(i - 1) : JwtChecks(s, now)[j].ok
    BY <1>1, FirstOfEleven
  <1>3. QED
    BY <1>2, ChecksShape DEF FirstFailure

\* A token that passes the checks has, at that reading of the clock, an
\* expiry inside the bounds and the nonce the request shows.
LEMMA PassedChecks ==
    ASSUME NEW s, NEW now, Passed(JwtChecks(s, now))
    PROVE  NotExpired(s.jws, now) /\ NotTooFar(s.jws, now) /\ CrossValidates(s)
  <1>1. /\ JwtChecks(s, now)[8].ok /\ JwtChecks(s, now)[9].ok /\ JwtChecks(s, now)[11].ok
    BY ChecksShape DEF Passed
  <1>2. QED
    BY <1>1 DEF JwtChecks

LEMMA SubmissionFields ==
    ASSUME NEW s \in Submission
    PROVE  /\ s.jws \in Jws /\ s.nonce \in Nonce
           /\ s.jws.nonce \in Nonce /\ s.jws.exp \in Int /\ s.jws.node_id \in Node
  BY PipelineAssumption DEF SubmissionType, JwsType, Jws

LEMMA JwsFields ==
    ASSUME NEW t \in Jws
    PROVE  t.nonce \in Nonce /\ t.exp \in Int
  BY SubmissionFields DEF Jws

LEMMA ConsumedType ==
    ASSUME accepted \in Seq(Accepted)
    PROVE  Consumed \subseteq Jws
  <1>1. \A i \in DOMAIN accepted : accepted[i] \in Accepted
    OBVIOUS
  <1>2. QED
    BY <1>1 DEF Consumed, Accepted

\* Appending an accepted token.
LEMMA AppendConsumed ==
    ASSUME NEW a, accepted \in Seq(Accepted), a \in Accepted,
           accepted' = Append(accepted, a)
    PROVE  /\ accepted' \in Seq(Accepted)
           /\ Len(accepted') = Len(accepted) + 1
           /\ accepted'[Len(accepted')] = a
           /\ \A i \in DOMAIN accepted : i \in DOMAIN accepted' /\ accepted'[i] = accepted[i]
           /\ \A i \in DOMAIN accepted' : i \in DOMAIN accepted \/ i = Len(accepted')
           /\ Consumed' = Consumed \cup {a.jws}
  BY DEF Consumed

\* A decision changes the fate of the last accepted token and no token's identity.
LEMMA DecideConsumed ==
    ASSUME NEW a, NEW fate \in {"granted", "refused"}, accepted \in Seq(Accepted),
           accepted # <<>>, Decide(a, fate)
    PROVE  /\ accepted' \in Seq(Accepted)
           /\ DOMAIN accepted' = DOMAIN accepted
           /\ \A i \in DOMAIN accepted :
                 accepted'[i].jws = accepted[i].jws /\ accepted'[i].at = accepted[i].at
           /\ \A i \in DOMAIN accepted :
                 i # Len(accepted) => accepted'[i] = accepted[i]
           /\ accepted'[Len(accepted)].fate = fate
           /\ Consumed' = Consumed
  <1>1. /\ Len(accepted) \in DOMAIN accepted
        /\ accepted[Len(accepted)] \in Accepted
    OBVIOUS
  <1>2. [accepted[Len(accepted)] EXCEPT !.fate = fate] \in Accepted
    BY <1>1 DEF Accepted
  <1>3. /\ accepted' \in Seq(Accepted)
        /\ DOMAIN accepted' = DOMAIN accepted
    BY <1>1, <1>2 DEF Decide
  <1>4. \A i \in DOMAIN accepted : i # Len(accepted) => accepted'[i] = accepted[i]
    BY <1>1 DEF Decide
  <1>5. /\ accepted'[Len(accepted)].jws = accepted[Len(accepted)].jws
        /\ accepted'[Len(accepted)].at = accepted[Len(accepted)].at
        /\ accepted'[Len(accepted)].fate = fate
    BY <1>1 DEF Decide, Accepted
  <1>6. \A i \in DOMAIN accepted :
            accepted'[i].jws = accepted[i].jws /\ accepted'[i].at = accepted[i].at
    BY <1>4, <1>5
  <1>7. Consumed' = Consumed
    BY <1>3, <1>6 DEF Consumed
  <1>8. QED
    BY <1>3, <1>4, <1>5, <1>6, <1>7

-----------------------------------------------------------------------------
LEMMA InitIInv == Init => IInv
  <1> SUFFICES ASSUME Init PROVE IInv
    OBVIOUS
  <1>1. TypeOK
    BY DEF Init, TypeOK, ClockInit, ClockTypeOK, Stage, Answer
  <1>2. ClockInv
    BY ClockAssumption DEF Init, ClockInit, ClockInv
  <1>3. MemoryInv /\ ValidatedInv /\ RecordedInv /\ AcceptedOnce
    BY DEF Init, MemoryInv, Consumed, ValidatedInv, RecordedInv, AcceptedOnce
  <1>4. QED
    BY <1>1, <1>2, <1>3 DEF IInv

\* A step that moves neither the clock, the cache nor the history.
LEMMA QuietStep ==
    ASSUME IInv, TypeOK', UNCHANGED <<clock, peak, seen, accepted>>,
           stage' \in {"idle", "parsed"}
    PROVE  IInv'
  <1>1. ClockInv' /\ MemoryInv' /\ AcceptedOnce'
    BY DEF IInv, ClockInv, MemoryInv, Consumed, Covered, AcceptedOnce
  <1>2. ValidatedInv' /\ RecordedInv'
    BY DEF ValidatedInv, RecordedInv
  <1>3. QED
    BY <1>1, <1>2 DEF IInv

LEMMA FullValidateStep ==
    ASSUME IInv, NEW s \in Submission, FullValidate(s)
    PROVE  IInv'
  <1>1. TypeOK'
    BY SubmissionFields DEF IInv, TypeOK, ClockTypeOK, FullValidate, Parse, Reply, Stage, Answer
  <1>2. stage' \in {"idle", "parsed"}
    BY DEF FullValidate, Parse, Reply
  <1>3. QED
    BY <1>1, <1>2, QuietStep DEF FullValidate

LEMMA SetTrustStep ==
    ASSUME IInv, NEW n \in Node, NEW k \in Key \cup {NoKey}, SetTrust(n, k)
    PROVE  IInv'
  <1>1. TypeOK'
    BY DEF IInv, TypeOK, ClockTypeOK, SetTrust
  <1>2. UNCHANGED <<clock, peak, seen, stage, request, accepted>>
    BY DEF SetTrust
  <1>3. ClockInv' /\ MemoryInv' /\ AcceptedOnce'
    BY <1>2 DEF IInv, ClockInv, MemoryInv, Consumed, Covered, AcceptedOnce
  <1>4. ValidatedInv' /\ RecordedInv'
    BY <1>2 DEF IInv, ValidatedInv, Consumed, RecordedInv
  <1>5. QED
    BY <1>1, <1>3, <1>4 DEF IInv

\* A token that is still acceptable is remembered: what is covered by its
\* expiry alone has expired at every reading a correction can lead to.
LEMMA LiveIsSeen ==
    ASSUME IInv, NEW t \in Consumed, NotExpired(t, peak - MaxBack)
    PROVE  t.nonce \in DOMAIN seen
  <1>1. Covered(t)
    BY DEF IInv, MemoryInv
  <1>2. t.exp \in Int
    BY ConsumedType, JwsFields DEF IInv, TypeOK
  <1>3. peak \in Int
    BY DEF IInv, TypeOK, ClockTypeOK
  <1>4. QED
    BY <1>1, <1>2, <1>3, ClockAssumption, PipelineAssumption, WindowAssumption
    DEF Covered, Reach, NotExpired

LEMMA ValidateClaimsStep ==
    ASSUME IInv, ValidateClaims
    PROVE  IInv'
  <1> DEFINE checks == JwtChecks(request, clock)
  <1>0. request \in Submission
    BY DEF IInv, TypeOK, ValidateClaims
  <1>1. CASE Passed(checks) /\ Proceed("validated")
    <2>1. TypeOK'
      BY <1>0, <1>1 DEF IInv, TypeOK, ClockTypeOK, ValidateClaims, Proceed, Stage
    <2>2. ClockInv' /\ MemoryInv' /\ AcceptedOnce' /\ RecordedInv'
      BY <1>1 DEF IInv, ValidateClaims, Proceed, ClockInv, MemoryInv, Consumed, Covered,
                  AcceptedOnce, RecordedInv
    <2>3. /\ NotExpired(request.jws, clock) /\ NotTooFar(request.jws, clock)
          /\ CrossValidates(request)
      BY <1>1, PassedChecks
    <2>4. /\ clock \in Int /\ peak \in Int /\ clock <= peak /\ peak - MaxBack <= clock
          /\ request.jws.exp \in Int
      BY <1>0, SubmissionFields, ClockAssumption DEF IInv, TypeOK, ClockTypeOK, ClockInv
    <2>5. request.jws.exp <= peak + ExpBound + Skew
      BY <2>3, <2>4, PipelineAssumption DEF NotTooFar
    <2>6. NotExpired(request.jws, peak - MaxBack)
      BY <2>3, <2>4, PipelineAssumption, ClockAssumption DEF NotExpired
    <2>7. request.jws \in Consumed => request.nonce \in DOMAIN seen
      BY <2>3, <2>6, LiveIsSeen DEF CrossValidates
    <2>8. ValidatedInv'
      BY <1>1, <2>3, <2>5, <2>7 DEF ValidatedInv, ValidateClaims, Proceed, CrossValidates,
                                    Consumed
    <2>9. QED
      BY <2>1, <2>2, <2>8 DEF IInv
  <1>2. CASE ~Passed(checks) /\ Reply(FirstFailure(checks))
    <2>1. FirstFailure(checks) \in Reason \cup {"500"}
      BY <1>2, FailureType
    <2>2. TypeOK'
      BY <1>2, <2>1 DEF IInv, TypeOK, ClockTypeOK, ValidateClaims, Reply, Stage, Answer
    <2>3. QED
      BY <1>2, <2>2, QuietStep DEF ValidateClaims, Reply
  <1>3. QED
    BY <1>1, <1>2 DEF ValidateClaims

\* The cache after an acceptance: the new nonce is in it, and what was swept
\* out was older than the window.
LEMMA SweptCache ==
    ASSUME NEW n, NEW now \in Int, seen \in [DOMAIN seen -> Int], n \notin DOMAIN seen,
           seen' = CleanupNonces(Remember(seen, n, now), now)
    PROVE  /\ seen' \in [DOMAIN seen' -> Int]
           /\ DOMAIN seen' \subseteq DOMAIN seen \cup {n}
           /\ n \in DOMAIN seen' /\ seen'[n] = now
           /\ \A m \in DOMAIN seen :
                 \/ m \in DOMAIN seen' /\ seen'[m] = seen[m]
                 \/ now - seen[m] > NonceExpiry
           /\ \A m \in DOMAIN seen' \cap DOMAIN seen : now - seen[m] <= NonceExpiry
  <1> DEFINE R == Remember(seen, n, now)
  <1>1. /\ DOMAIN R = DOMAIN seen \cup {n}
        /\ R[n] = now
        /\ \A m \in DOMAIN seen : R[m] = seen[m] /\ R[m] \in Int
    BY DEF Remember
  <1>2. seen' = [m \in {l \in DOMAIN R : ~(now - R[l] > NonceExpiry)} |-> R[m]]
    BY DEF CleanupNonces
  <1> HIDE DEF R
  <1>3. n \in DOMAIN seen' /\ seen'[n] = now
    BY <1>1, <1>2, PipelineAssumption
  <1>4. \A m \in DOMAIN seen' : m \in DOMAIN R /\ seen'[m] = R[m] /\ ~(now - R[m] > NonceExpiry)
    BY <1>2
  <1>5. \A m \in DOMAIN R : R[m] \in Int
    BY <1>1
  <1>6. \A m \in DOMAIN seen :
                 \/ m \in DOMAIN seen' /\ seen'[m] = seen[m]
                 \/ now - seen[m] > NonceExpiry
    BY <1>1, <1>2
  <1>7. seen' \in [DOMAIN seen' -> Int]
    BY <1>2, <1>4, <1>5
  <1>8. \A m \in DOMAIN seen' \cap DOMAIN seen : now - seen[m] <= NonceExpiry
    BY <1>1, <1>4, PipelineAssumption
  <1>9. QED
    BY <1>1, <1>3, <1>4, <1>6, <1>7, <1>8

LEMMA ValidateNonceStep ==
    ASSUME IInv, ValidateNonce
    PROVE  IInv'
  <1>0. /\ request \in Submission
        /\ request.jws.nonce = request.nonce
        /\ request.jws.exp <= peak + ExpBound + Skew
        /\ request.jws \in Consumed => request.nonce \in DOMAIN seen
    BY DEF IInv, TypeOK, ValidatedInv, ValidateNonce
  <1>1. CASE request.nonce \in DOMAIN seen /\ Reply("invalid_nonce") /\ UNCHANGED <<seen, accepted>>
    <2>1. TypeOK'
      BY <1>1 DEF IInv, TypeOK, ClockTypeOK, ValidateNonce, Reply, Stage, Answer, Reason
    <2>2. QED
      BY <1>1, <2>1, QuietStep DEF ValidateNonce, Reply
  <1>2. CASE /\ request.nonce \notin DOMAIN seen
             /\ seen' = CleanupNonces(Remember(seen, request.nonce, clock), clock)
             /\ accepted' = Append(accepted, NewlyAccepted)
             /\ Proceed("recorded")
    <2> DEFINE a == NewlyAccepted
    <2>1. /\ clock \in Int /\ peak \in Int /\ clock <= peak /\ peak - MaxBack <= clock
          /\ request.jws.exp \in Int /\ request.jws \in Jws /\ request.nonce \in Nonce
      BY <1>0, SubmissionFields, ClockAssumption DEF IInv, TypeOK, ClockTypeOK, ClockInv
    <2>2. /\ accepted \in Seq(Accepted)
          /\ seen \in [DOMAIN seen -> Int] /\ DOMAIN seen \subseteq Nonce
      BY DEF IInv, TypeOK
    <2>3. /\ seen' \in [DOMAIN seen' -> Int]
          /\ DOMAIN seen' \subseteq DOMAIN seen \cup {request.nonce}
          /\ request.nonce \in DOMAIN seen' /\ seen'[request.nonce] = clock
          /\ \A m \in DOMAIN seen :
                 \/ m \in DOMAIN seen' /\ seen'[m] = seen[m]
                 \/ clock - seen[m] > NonceExpiry
      BY <1>2, <2>1, <2>2, SweptCache
    <2>4. a \in Accepted /\ a.jws = request.jws
      BY <2>1 DEF Accepted, NewlyAccepted
    <2>5. /\ accepted' \in Seq(Accepted)
          /\ Len(accepted') = Len(accepted) + 1
          /\ accepted'[Len(accepted')] = a
          /\ \A i \in DOMAIN accepted : i \in DOMAIN accepted' /\ accepted'[i] = accepted[i]
          /\ \A i \in DOMAIN accepted' : i \in DOMAIN accepted \/ i = Len(accepted')
          /\ Consumed' = Consumed \cup {request.jws}
      BY <1>2, <2>2, <2>4, AppendConsumed
    <2>6. TypeOK'
      BY <1>2, <2>1, <2>2, <2>3, <2>5
      DEF IInv, TypeOK, ClockTypeOK, ValidateNonce, Proceed, Stage
    <2>7. UNCHANGED <<clock, peak>>
      BY DEF ValidateNonce
    <2>8. MemoryInv'
      <3> SUFFICES ASSUME NEW t \in Consumed' PROVE Covered(t)'
        BY DEF MemoryInv
      <3>1. CASE t = request.jws
        BY <1>0, <2>1, <2>3, <2>7, <3>1, ClockAssumption, PipelineAssumption DEF Covered, Reach
      <3>2. CASE t \in Consumed
        <4>1. Covered(t) /\ t.exp \in Int
          BY <2>2, <3>2, ConsumedType, JwsFields DEF IInv, MemoryInv
        <4>2. CASE t.exp + NonceExpiry < peak + Reach
          BY <2>7, <4>2 DEF Covered
        <4>3. CASE t.nonce \in DOMAIN seen /\ t.exp <= seen[t.nonce] + Reach
          <5>1. CASE t.nonce \in DOMAIN seen' /\ seen'[t.nonce] = seen[t.nonce]
            BY <4>3, <5>1 DEF Covered
          <5>2. CASE clock - seen[t.nonce] > NonceExpiry
            <6>1. seen[t.nonce] \in Int /\ Reach \in Int
              BY <2>2, <4>3, ClockAssumption, PipelineAssumption DEF Reach
            <6>2. t.exp + NonceExpiry < peak + Reach
              BY <2>1, <4>1, <4>3, <5>2, <6>1, PipelineAssumption
            <6>3. QED
              BY <2>7, <6>2 DEF Covered
          <5>3. QED
            BY <2>3, <4>3, <5>1, <5>2
        <4>4. QED
          BY <4>1, <4>2, <4>3 DEF Covered
      <3>3. QED
        BY <2>5, <3>1, <3>2
    <2>9. AcceptedOnce'
      <3>1. request.jws \notin Consumed
        BY <1>0, <1>2
      <3>2. \A i \in DOMAIN accepted : accepted'[i].jws # request.jws
        BY <2>5, <3>1 DEF Consumed
      <3>3. QED
        BY <2>4, <2>5, <3>2 DEF IInv, AcceptedOnce
    <2>10. RecordedInv'
      BY <2>2, <2>5 DEF RecordedInv, NewlyAccepted
    <2>11. ValidatedInv' /\ ClockInv'
      BY <1>2, <2>7 DEF IInv, ValidatedInv, Proceed, ClockInv
    <2>12. QED
      BY <2>6, <2>8, <2>9, <2>10, <2>11 DEF IInv
  <1>3. QED
    BY <1>1, <1>2 DEF ValidateNonce

\* The two outcomes of EvaluateGates.
LEMMA GateOutcome ==
    ASSUME EvaluateGates
    PROVE  \E a \in Answer, fate \in {"granted", "refused"} : Decide(a, fate)
  <1>1. CASE Decide("APPROVE", "granted")
    BY <1>1 DEF Answer
  <1>2. CASE \E reason \in GateVerdicts(request.current_edns, request.cei) \ {"passed"} :
                Decide(reason, "refused")
    BY <1>2, VerdictType DEF Answer, Reason
  <1>3. QED
    BY <1>1, <1>2 DEF EvaluateGates

LEMMA EvaluateGatesStep ==
    ASSUME IInv, EvaluateGates
    PROVE  IInv'
  <1>1. PICK a \in Answer, fate \in {"granted", "refused"} : Decide(a, fate)
    BY GateOutcome
  <1>2. accepted \in Seq(Accepted) /\ accepted # <<>>
    BY DEF IInv, TypeOK, RecordedInv, EvaluateGates
  <1>3. /\ accepted' \in Seq(Accepted)
        /\ DOMAIN accepted' = DOMAIN accepted
        /\ \A i \in DOMAIN accepted : accepted'[i].jws = accepted[i].jws
        /\ Consumed' = Consumed
    BY <1>1, <1>2, DecideConsumed
  <1>4. UNCHANGED <<clock, peak, trusted, seen>> /\ stage' = "idle" /\ request' = NoRequest
        /\ answer' = a /\ vouched' = {}
    BY <1>1 DEF EvaluateGates, Decide, Reply
  <1>5. TypeOK'
    BY <1>3, <1>4 DEF IInv, TypeOK, ClockTypeOK, Stage
  <1>6. ClockInv' /\ MemoryInv'
    BY <1>3, <1>4 DEF IInv, ClockInv, MemoryInv, Covered
  <1>7. AcceptedOnce'
    BY <1>3 DEF IInv, AcceptedOnce
  <1>8. ValidatedInv' /\ RecordedInv'
    BY <1>4 DEF ValidatedInv, RecordedInv
  <1>9. QED
    BY <1>5, <1>6, <1>7, <1>8 DEF IInv

LEMMA ClockStep ==
    ASSUME IInv, ClockMoves
    PROVE  IInv'
  <1>1. /\ clock \in Int /\ peak \in Int /\ clock <= peak /\ peak - clock <= MaxBack
    BY DEF IInv, TypeOK, ClockTypeOK, ClockInv
  <1>2. /\ clock' \in Int /\ peak' \in Int /\ peak <= peak'
        /\ clock' <= peak' /\ peak' - clock' <= MaxBack
    <2>1. CASE Tick
      BY <1>1, <2>1, ClockAssumption DEF Tick
    <2>2. CASE StepBack
      BY <1>1, <2>2, ClockAssumption DEF StepBack
    <2>3. QED
      BY <2>1, <2>2 DEF ClockMoves
  <1>3. UNCHANGED <<trusted, vouched, seen, stage, request, answer, accepted>>
    BY DEF ClockMoves
  <1>4. TypeOK' /\ ClockInv' /\ AcceptedOnce' /\ RecordedInv'
    BY <1>2, <1>3 DEF IInv, TypeOK, ClockTypeOK, ClockInv, AcceptedOnce, RecordedInv
  <1>5. MemoryInv'
    <2> SUFFICES ASSUME NEW t \in Consumed PROVE Covered(t)'
      BY <1>3 DEF MemoryInv, Consumed
    <2>1. Covered(t) /\ t.exp \in Int
      BY ConsumedType, JwsFields DEF IInv, TypeOK, MemoryInv
    <2>2. QED
      BY <1>1, <1>2, <1>3, <2>1, ClockAssumption, PipelineAssumption DEF Covered, Reach
  <1>6. ValidatedInv'
    <2> SUFFICES ASSUME stage = "validated" PROVE ValidatedInv'
      BY <1>3 DEF ValidatedInv
    <2>1. request.jws.exp \in Int
      BY SubmissionFields DEF IInv, TypeOK
    <2>2. QED
      BY <1>1, <1>2, <1>3, <2>1, PipelineAssumption DEF IInv, ValidatedInv, Consumed
  <1>7. QED
    BY <1>4, <1>5, <1>6 DEF IInv

LEMMA StepIInv == IInv /\ [Next]_vars => IInv'
  <1> SUFFICES ASSUME IInv, [Next]_vars PROVE IInv'
    OBVIOUS
  <1>1. CASE \E s \in Submission : FullValidate(s)
    BY <1>1, FullValidateStep
  <1>2. CASE ValidateClaims
    BY <1>2, ValidateClaimsStep
  <1>3. CASE ValidateNonce
    BY <1>3, ValidateNonceStep
  <1>4. CASE EvaluateGates
    BY <1>4, EvaluateGatesStep
  <1>5. CASE \E n \in Node, k \in Key \cup {NoKey} : SetTrust(n, k)
    BY <1>5, SetTrustStep
  <1>6. CASE ClockMoves
    BY <1>6, ClockStep
  <1>7. CASE UNCHANGED vars
    BY <1>7 DEF vars, IInv, TypeOK, ClockTypeOK, ClockInv, MemoryInv, Consumed, Covered,
                ValidatedInv, RecordedInv, AcceptedOnce
  <1>8. QED
    BY <1>1, <1>2, <1>3, <1>4, <1>5, <1>6, <1>7 DEF Next, Handle

\* The inductive invariant holds of every behaviour of the pipeline.
THEOREM Invariance == Spec => []IInv
  <1>1. QED
    BY InitIInv, StepIInv, PTL DEF Spec

\* Every variable of the pipeline keeps its type.
THEOREM TypeCorrect == Spec => []TypeOK
  <1>1. IInv => TypeOK
    BY DEF IInv
  <1>2. QED
    BY <1>1, Invariance, PTL

\* No signed token passes NhpJwtValidator.validate twice, whatever is delivered
\* again, delayed or reordered, as long as the nonce window covers the validity
\* of a token and the corrections of the clock.
THEOREM NoReplay == Spec => []AcceptedOnce
  <1>1. IInv => AcceptedOnce
    BY DEF IInv
  <1>2. QED
    BY <1>1, Invariance, PTL

\* _cleanup_nonces never forgets the nonce of a token the expiry check could
\* still let pass.
THEOREM NothingLiveForgotten == Spec => []LiveTokenRemembered
  <1>1. IInv => LiveTokenRemembered
    BY LiveIsSeen DEF LiveTokenRemembered
  <1>2. QED
    BY <1>1, Invariance, PTL
-----------------------------------------------------------------------------
\* Where each token occurs once, its fate is the one of that occurrence.
LEMMA FateOfUse ==
    ASSUME NEW h \in Seq(Accepted), NEW k \in DOMAIN h,
           \A i, j \in DOMAIN h : h[i].jws = h[j].jws => i = j
    PROVE  FateIn(h, h[k].jws) = h[k].fate
  <1> DEFINE uses == {i \in DOMAIN h : h[i].jws = h[k].jws}
  <1>1. uses = {k}
    OBVIOUS
  <1>2. k \in Int
    OBVIOUS
  <1>3. (CHOOSE i \in {k} : \A j \in {k} : j <= i) = k
    BY <1>2
  <1>4. QED
    BY <1>1, <1>3 DEF FateIn

LEMMA FateOfUnused ==
    ASSUME NEW h, NEW t, \A i \in DOMAIN h : h[i].jws # t
    PROVE  FateIn(h, t) = "unused"
  BY DEF FateIn

\* Two histories in which every token occurs once, and t at the same place with
\* the same fate if at all, agree on t.
LEMMA FateUnchanged ==
    ASSUME NEW h \in Seq(Accepted), NEW g \in Seq(Accepted), NEW t,
           \A i, j \in DOMAIN h : h[i].jws = h[j].jws => i = j,
           \A i, j \in DOMAIN g : g[i].jws = g[j].jws => i = j,
           \A i \in DOMAIN g : g[i].jws = t => i \in DOMAIN h,
           \A i \in DOMAIN h : h[i].jws = t => i \in DOMAIN g /\ g[i] = h[i],
           \A i \in DOMAIN g \cap DOMAIN h : g[i].jws = h[i].jws
    PROVE  FateIn(g, t) = FateIn(h, t)
  <1>1. CASE \E k \in DOMAIN h : h[k].jws = t
    <2>1. PICK k \in DOMAIN h : h[k].jws = t
      BY <1>1
    <2>2. k \in DOMAIN g /\ g[k] = h[k]
      BY <2>1
    <2>3. FateIn(h, t) = h[k].fate
      BY <2>1, FateOfUse
    <2>4. FateIn(g, t) = g[k].fate
      BY <2>1, <2>2, FateOfUse
    <2>5. QED
      BY <2>2, <2>3, <2>4
  <1>2. CASE \A k \in DOMAIN h : h[k].jws # t
    <2>1. \A k \in DOMAIN g : g[k].jws # t
      BY <1>2
    <2>2. QED
      BY <1>2, <2>1, FateOfUnused
  <1>3. QED
    BY <1>1, <1>2

Fates == [t \in Jws |-> FateIn(accepted, t)]

LEMMA InitRefines == Init => Ledger!LedgerInit
  <1> SUFFICES ASSUME Init PROVE Fates = [t \in Jws |-> "unused"]
    BY DEF Ledger!LedgerInit, Fates
  <1>1. \A t \in Jws : FateIn(accepted, t) = "unused"
    BY FateOfUnused DEF Init
  <1>2. QED
    BY <1>1 DEF Fates

\* An acceptance consumes its token in the ledger.
LEMMA AcceptRefines ==
    ASSUME IInv, IInv', ValidateNonce, accepted' # accepted
    PROVE  Ledger!Consume(request.jws) /\ request.jws \in Jws
  <1> DEFINE a == NewlyAccepted
             t == request.jws
  <1>1. /\ t \in Jws /\ a \in Accepted /\ accepted \in Seq(Accepted)
        /\ accepted' = Append(accepted, a)
        /\ t \notin Consumed
    BY SubmissionFields DEF IInv, TypeOK, ClockTypeOK, ValidatedInv, ValidateNonce, Accepted,
                            NewlyAccepted
  <1>2. /\ accepted' \in Seq(Accepted)
        /\ accepted'[Len(accepted')] = a
        /\ Len(accepted') \in DOMAIN accepted'
        /\ \A i \in DOMAIN accepted : i \in DOMAIN accepted' /\ accepted'[i] = accepted[i]
        /\ \A i \in DOMAIN accepted' : i \in DOMAIN accepted \/ i = Len(accepted')
    <2>1. Len(accepted') = Len(accepted) + 1
      BY <1>1
    <2>2. QED
      BY <1>1, <2>1, AppendConsumed
  <1> HIDE DEF a
  <1>3. /\ \A i, j \in DOMAIN accepted : accepted[i].jws = accepted[j].jws => i = j
        /\ \A i, j \in DOMAIN accepted' : accepted'[i].jws = accepted'[j].jws => i = j
    BY DEF IInv, AcceptedOnce
  <1>4. a.jws = t /\ a.fate = "consumed"
    BY DEF a, NewlyAccepted
  <1>5. FateIn(accepted, t) = "unused"
    BY <1>1, FateOfUnused DEF Consumed
  <1>6. FateIn(accepted', t) = "consumed"
    BY <1>2, <1>3, <1>4, FateOfUse
  <1>7. \A u \in Jws : u # t => FateIn(accepted', u) = FateIn(accepted, u)
    <2> SUFFICES ASSUME NEW u \in Jws, u # t
                 PROVE  FateIn(accepted', u) = FateIn(accepted, u)
      OBVIOUS
    <2>1. \A i \in DOMAIN accepted' : accepted'[i].jws = u => i \in DOMAIN accepted
      BY <1>2, <1>4
    <2>2. \A i \in DOMAIN accepted :
            accepted[i].jws = u => i \in DOMAIN accepted' /\ accepted'[i] = accepted[i]
      BY <1>2
    <2>3. \A i \in DOMAIN accepted' \cap DOMAIN accepted : accepted'[i].jws = accepted[i].jws
      BY <1>2
    <2>4. accepted \in Seq(Accepted) /\ accepted' \in Seq(Accepted)
      BY <1>1, <1>2
    <2>5. QED
      BY <1>3, <2>1, <2>2, <2>3, <2>4, FateUnchanged
  <1>8. Fates' = [Fates EXCEPT ![t] = "consumed"] /\ Fates[t] = "unused"
    BY <1>1, <1>5, <1>6, <1>7 DEF Fates
  <1>9. QED
    BY <1>1, <1>8 DEF Ledger!Consume, Ledger!Settle, Fates

\* A decision gives the ledger the verdict on the token accepted last.
LEMMA DecideRefines ==
    ASSUME IInv, IInv', EvaluateGates
    PROVE  \E t \in Jws : Ledger!Grant(t) \/ Ledger!Refuse(t)
  <1> DEFINE n == Len(accepted)
             t == accepted[n].jws
  <1>1. PICK a \in Answer, fate \in {"granted", "refused"} : Decide(a, fate)
    BY GateOutcome
  <1>2. /\ accepted \in Seq(Accepted) /\ accepted # <<>>
        /\ accepted[n].fate = "consumed"
    BY DEF IInv, TypeOK, RecordedInv, EvaluateGates
  <1>3. n \in DOMAIN accepted /\ accepted[n] \in Accepted
    BY <1>2
  <1>4. t \in Jws
    BY <1>3 DEF Accepted
  <1>5. /\ accepted' \in Seq(Accepted)
        /\ DOMAIN accepted' = DOMAIN accepted
        /\ \A i \in DOMAIN accepted : accepted'[i].jws = accepted[i].jws
        /\ \A i \in DOMAIN accepted : i # n => accepted'[i] = accepted[i]
        /\ accepted'[n].fate = fate
    BY <1>1, <1>2, DecideConsumed
  <1>6. /\ \A i, j \in DOMAIN accepted : accepted[i].jws = accepted[j].jws => i = j
        /\ \A i, j \in DOMAIN accepted' : accepted'[i].jws = accepted'[j].jws => i = j
    BY DEF IInv, AcceptedOnce
  <1>7. FateIn(accepted, t) = "consumed"
    BY <1>2, <1>3, <1>6, FateOfUse
  <1>8. FateIn(accepted', t) = fate
    <2>1. accepted'[n].jws = t /\ n \in DOMAIN accepted'
      BY <1>3, <1>5
    <2>2. FateIn(accepted', accepted'[n].jws) = accepted'[n].fate
      BY <1>5, <1>6, <2>1, FateOfUse
    <2>3. QED
      BY <1>5, <2>1, <2>2
  <1>9. \A u \in Jws : u # t => FateIn(accepted', u) = FateIn(accepted, u)
    <2> SUFFICES ASSUME NEW u \in Jws, u # t
                 PROVE  FateIn(accepted', u) = FateIn(accepted, u)
      OBVIOUS
    <2>1. \A i \in DOMAIN accepted : accepted[i].jws = u => accepted'[i] = accepted[i]
      BY <1>5
    <2>2. QED
      BY <1>2, <1>5, <1>6, <2>1, FateUnchanged
  <1>10. Fates' = [Fates EXCEPT ![t] = fate] /\ Fates[t] = "consumed"
    BY <1>4, <1>7, <1>8, <1>9 DEF Fates
  <1>11. Ledger!Grant(t) \/ Ledger!Refuse(t)
    BY <1>4, <1>10 DEF Ledger!Grant, Ledger!Refuse, Ledger!Settle, Fates
  <1>12. QED
    BY <1>4, <1>11

LEMMA StepRefines ==
    ASSUME IInv, IInv', [Next]_vars
    PROVE  [Ledger!LedgerNext]_Fates
  <1>1. CASE ValidateNonce /\ accepted' # accepted
    BY <1>1, AcceptRefines DEF Ledger!LedgerNext
  <1>2. CASE EvaluateGates
    BY <1>2, DecideRefines DEF Ledger!LedgerNext
  <1>3. CASE accepted' = accepted
    BY <1>3 DEF Fates
  <1>4. accepted' = accepted \/ EvaluateGates \/ (ValidateNonce /\ accepted' # accepted)
    BY DEF Next, Handle, vars, FullValidate, ValidateClaims, SetTrust, ClockMoves
  <1>5. QED
    BY <1>1, <1>2, <1>3, <1>4

\* The pipeline implements the ledger: every token is consumed at most once,
\* then granted or refused once, and the verdict stands for ever.
THEOREM Refinement == Spec => ImplementsLedger
  <1>1. IInv /\ IInv' /\ [Next]_vars
          => [Ledger!LedgerNext]_([t \in Jws |-> FateIn(accepted, t)])
    BY StepRefines DEF Fates
  <1>2. QED
    BY <1>1, InitRefines, Invariance, PTL DEF Spec, ImplementsLedger, Ledger!LedgerSpec

\* The ledger by itself never changes a verdict.
LEMMA LedgerVerdictsStand == Ledger!LedgerSpec => Ledger!VerdictsStand
  <1>1. [Ledger!LedgerNext]_Fates
          => [\A t \in Jws : Fates[t] \in {"granted", "refused"} => Fates'[t] = Fates[t]]_Fates
    <2> SUFFICES ASSUME Ledger!LedgerNext, NEW t \in Jws, Fates[t] \in {"granted", "refused"}
                 PROVE  Fates'[t] = Fates[t]
      OBVIOUS
    <2>1. PICK u \in Jws : Ledger!Consume(u) \/ Ledger!Grant(u) \/ Ledger!Refuse(u)
      BY DEF Ledger!LedgerNext
    <2>2. Fates[u] \in {"unused", "consumed"} /\ \E f : Fates' = [Fates EXCEPT ![u] = f]
      BY <2>1 DEF Ledger!Consume, Ledger!Grant, Ledger!Refuse, Ledger!Settle, Fates
    <2>3. t # u
      BY <2>2
    <2>4. QED
      BY <2>2, <2>3 DEF Fates
  <1>2. QED
    BY <1>1, PTL DEF Ledger!LedgerSpec, Ledger!VerdictsStand, Fates

\* A granted token stays granted and a refused one refused, whatever is delivered
\* again and whatever the cache has forgotten.
THEOREM VerdictsAreFinal == Spec => Ledger!VerdictsStand
  BY Refinement, LedgerVerdictsStand, PTL DEF ImplementsLedger
-----------------------------------------------------------------------------
\* What vouched holds is up to date while a request is handled, and covers the key that
\* signed its token once that has been found to be trusted.
TrustInv ==
    /\ stage # "idle" => trusted[request.jws.node_id] \in vouched
    /\ stage \in {"validated", "recorded"} => request.jws.signer \in vouched

LEMMA StepTrustInv == TypeOK /\ TrustInv /\ [Next]_vars => TrustInv'
  <1> SUFFICES ASSUME TypeOK, TrustInv, [Next]_vars PROVE TrustInv'
    OBVIOUS
  <1>1. CASE \E s \in Submission : FullValidate(s)
    BY <1>1 DEF FullValidate, Parse, Reply, TrustInv
  <1>2. CASE ValidateClaims
    <2>1. CASE Passed(JwtChecks(request, clock)) /\ Proceed("validated")
      <3>1. JwtChecks(request, clock)[1].ok /\ JwtChecks(request, clock)[3].ok
        BY <2>1, ChecksShape DEF Passed
      <3>2. trusted[request.node_id] = request.public_key
            /\ request.jws.signer = request.public_key
        BY <3>1 DEF JwtChecks
      <3>3. request.jws.node_id = request.node_id
        BY <2>1, PassedChecks DEF CrossValidates
      <3>4. request.jws.signer \in vouched
        BY <1>2, <3>2, <3>3 DEF ValidateClaims, TrustInv
      <3>5. QED
        BY <1>2, <2>1, <3>4 DEF ValidateClaims, Proceed, TrustInv
    <2>2. CASE ~Passed(JwtChecks(request, clock)) /\ stage' = "idle"
      BY <2>2 DEF TrustInv
    <2>3. QED
      BY <1>2, <2>1, <2>2 DEF ValidateClaims, Reply
  <1>3. CASE ValidateNonce
    BY <1>3 DEF ValidateNonce, Reply, Proceed, TrustInv
  <1>4. CASE EvaluateGates
    BY <1>4 DEF EvaluateGates, Decide, Reply, TrustInv
  <1>5. CASE \E n \in Node, k \in Key \cup {NoKey} : SetTrust(n, k)
    <2>1. PICK n \in Node, k \in Key \cup {NoKey} : SetTrust(n, k)
      BY <1>5
    <2>2. UNCHANGED <<stage, request>> /\ vouched \subseteq vouched'
      BY <2>1 DEF SetTrust
    <2>3. ASSUME stage # "idle" PROVE trusted'[request.jws.node_id] \in vouched'
      <3>1. trusted[request.jws.node_id] \in vouched /\ trusted \in [Node -> Key \cup {NoKey}]
        BY <2>3 DEF TypeOK, TrustInv
      <3>2. request.jws.node_id \in Node
        BY <2>3, SubmissionFields DEF TypeOK
      <3>3. QED
        BY <2>1, <2>2, <2>3, <3>1, <3>2 DEF SetTrust
    <2>4. QED
      BY <2>2, <2>3 DEF TrustInv
  <1>6. CASE ClockMoves
    BY <1>6 DEF ClockMoves, TrustInv
  <1>7. CASE UNCHANGED vars
    BY <1>7 DEF vars, TrustInv
  <1>8. QED
    BY <1>1, <1>2, <1>3, <1>4, <1>5, <1>6, <1>7 DEF Next, Handle

LEMMA GrantStep ==
    ASSUME TrustInv, answer' = "APPROVE", stage = "recorded", stage' = "idle"
    PROVE  request.jws.signer \in vouched
  BY DEF TrustInv

\* A session is granted only for a token signed with a key that the trust store held for
\* its node while the request was handled, though the keys may change at any moment of it.
THEOREM GrantsAreSound == Spec => GrantIsSound
  <1>1. Init => TrustInv
    BY DEF Init, TrustInv
  <1>2. TrustInv
          => [answer' = "APPROVE" /\ stage = "recorded" /\ stage' = "idle"
                => request.jws.signer \in vouched]_vars
    BY GrantStep
  <1>3. QED
    BY <1>1, <1>2, StepTrustInv, TypeCorrect, PTL DEF Spec, GrantIsSound
-----------------------------------------------------------------------------
\* No acceptance has come more than the window after the i-th.
Lasting(i) ==
    \A j \in DOMAIN accepted : j > i => accepted[j].at - accepted[i].at <= NonceExpiry

\* The cache holds the nonces of the lasting acceptances, with their times, and no other.
ExactInv ==
    /\ \A i \in DOMAIN accepted :
          Lasting(i) => /\ accepted[i].jws.nonce \in DOMAIN seen
                        /\ seen[accepted[i].jws.nonce] = accepted[i].at
    /\ \A n \in DOMAIN seen : \E i \in DOMAIN accepted : accepted[i].jws.nonce = n /\ Lasting(i)

LEMMA AcceptExactInv ==
    ASSUME IInv, ExactInv, ValidateNonce, request.nonce \notin DOMAIN seen
    PROVE  ExactInv'
  <1> DEFINE a == NewlyAccepted
  <1>1. /\ accepted \in Seq(Accepted) /\ clock \in Int /\ seen \in [DOMAIN seen -> Int]
        /\ request \in Submission /\ request.jws.nonce = request.nonce
    BY DEF IInv, TypeOK, ClockTypeOK, ValidatedInv, ValidateNonce
  <1>2. a \in Accepted /\ a.jws.nonce = request.nonce /\ a.at = clock
    BY <1>1, SubmissionFields DEF Accepted, NewlyAccepted
  <1>3. /\ accepted' = Append(accepted, a)
        /\ seen' = CleanupNonces(Remember(seen, request.nonce, clock), clock)
    BY DEF ValidateNonce
  <1> HIDE DEF a
  <1>4. PICK k \in DOMAIN accepted' :
            /\ k \notin DOMAIN accepted /\ accepted'[k] = a
            /\ \A i \in DOMAIN accepted : i \in DOMAIN accepted' /\ accepted'[i] = accepted[i]
            /\ \A i \in DOMAIN accepted' : i \in DOMAIN accepted \/ i = k
            /\ \A i \in DOMAIN accepted : i < k
            /\ DOMAIN accepted \subseteq Int /\ k \in Int
    <2>1. Len(accepted') = Len(accepted) + 1 /\ Len(accepted') \in DOMAIN accepted'
      BY <1>1, <1>2, <1>3
    <2>2. QED
      BY <1>1, <1>2, <1>3, <2>1
  <1>5. /\ DOMAIN seen' \subseteq DOMAIN seen \cup {request.nonce}
        /\ request.nonce \in DOMAIN seen' /\ seen'[request.nonce] = clock
        /\ \A m \in DOMAIN seen :
              \/ m \in DOMAIN seen' /\ seen'[m] = seen[m]
              \/ clock - seen[m] > NonceExpiry
        /\ \A m \in DOMAIN seen' \cap DOMAIN seen : clock - seen[m] <= NonceExpiry
    BY <1>1, <1>3, SweptCache
  <1>6. \A i \in DOMAIN accepted : accepted[i].at \in Int
    <2>1. \A i \in DOMAIN accepted : accepted[i] \in Accepted
      BY <1>1
    <2>2. QED
      BY <2>1 DEF Accepted
  <1>7. \A i \in DOMAIN accepted :
            Lasting(i)' <=> Lasting(i) /\ clock - accepted[i].at <= NonceExpiry
    BY <1>2, <1>4 DEF Lasting
  <1>8. Lasting(k)'
    BY <1>4 DEF Lasting
  <1>9. ASSUME NEW i \in DOMAIN accepted', Lasting(i)'
        PROVE  /\ accepted'[i].jws.nonce \in DOMAIN seen'
               /\ seen'[accepted'[i].jws.nonce] = accepted'[i].at
    <2>1. CASE i = k
      BY <1>2, <1>4, <1>5, <2>1
    <2>2. CASE i \in DOMAIN accepted
      <3> DEFINE n == accepted[i].jws.nonce
      <3>1. Lasting(i) /\ clock - accepted[i].at <= NonceExpiry
        BY <1>7, <1>9, <2>2
      <3>2. n \in DOMAIN seen /\ seen[n] = accepted[i].at
        BY <2>2, <3>1 DEF ExactInv
      <3>3. ~(clock - seen[n] > NonceExpiry)
        BY <1>1, <1>6, <2>2, <3>1, <3>2, PipelineAssumption
      <3>4. n \in DOMAIN seen' /\ seen'[n] = seen[n]
        BY <1>5, <3>2, <3>3
      <3>5. QED
        BY <1>4, <2>2, <3>2, <3>4
    <2>3. QED
      BY <1>4, <2>1, <2>2
  <1>10. ASSUME NEW n \in DOMAIN seen'
         PROVE  \E i \in DOMAIN accepted' : accepted'[i].jws.nonce = n /\ Lasting(i)'
    <2>1. CASE n = request.nonce
      BY <1>2, <1>4, <1>8, <2>1
    <2>2. CASE n \in DOMAIN seen
      <3>1. PICK i \in DOMAIN accepted : accepted[i].jws.nonce = n /\ Lasting(i)
        BY <2>2 DEF ExactInv
      <3>2. clock - accepted[i].at <= NonceExpiry
        BY <1>5, <1>10, <2>2, <3>1 DEF ExactInv
      <3>3. Lasting(i)'
        BY <1>7, <3>1, <3>2
      <3>4. QED
        BY <1>4, <3>1, <3>3
    <2>3. QED
      BY <1>5, <1>10, <2>1, <2>2
  <1>11. QED
    BY <1>9, <1>10 DEF ExactInv

\* A decision on the last acceptance leaves what each was, and when, as it is.
LEMMA DecideExactInv ==
    ASSUME IInv, ExactInv, EvaluateGates
    PROVE  ExactInv'
  <1>1. accepted \in Seq(Accepted) /\ accepted # <<>>
    BY DEF IInv, TypeOK, RecordedInv, EvaluateGates
  <1>2. /\ DOMAIN accepted' = DOMAIN accepted
        /\ \A i \in DOMAIN accepted :
              accepted'[i].jws = accepted[i].jws /\ accepted'[i].at = accepted[i].at
    BY <1>1, GateOutcome, DecideConsumed
  <1>3. seen' = seen
    BY DEF EvaluateGates
  <1>4. \A i \in DOMAIN accepted : Lasting(i)' <=> Lasting(i)
    BY <1>2 DEF Lasting
  <1>5. QED
    BY <1>2, <1>3, <1>4 DEF ExactInv

LEMMA StepExactInv == IInv /\ ExactInv /\ [Next]_vars => ExactInv'
  <1> SUFFICES ASSUME IInv, ExactInv, [Next]_vars
               PROVE  ExactInv'
    OBVIOUS
  <1>1. CASE ValidateNonce /\ request.nonce \notin DOMAIN seen
    BY <1>1, AcceptExactInv
  <1>2. CASE EvaluateGates
    BY <1>2, DecideExactInv
  <1>3. CASE UNCHANGED <<seen, accepted>>
    BY <1>3 DEF ExactInv, Lasting
  <1>4. \/ UNCHANGED <<seen, accepted>>
        \/ EvaluateGates
        \/ ValidateNonce /\ request.nonce \notin DOMAIN seen
    BY DEF Next, Handle, vars, FullValidate, ValidateClaims, ValidateNonce, SetTrust, ClockMoves
  <1>5. QED
    BY <1>1, <1>2, <1>3, <1>4

\* What the cache holds comes from lasting acceptances at every moment.
THEOREM CacheInvariance == Spec => []ExactInv
  <1>1. Init => ExactInv
    BY DEF Init, ExactInv
  <1>2. QED
    BY <1>1, StepExactInv, Invariance, PTL DEF Spec

LEMMA ExactCache == ExactInv /\ TypeOK => CacheIsExact
  <1> SUFFICES ASSUME ExactInv, TypeOK, NEW n \in Nonce
               PROVE  n \in DOMAIN seen <=>
                        \E i \in DOMAIN accepted : accepted[i].jws.nonce = n /\ Lasting(i)
    BY DEF CacheIsExact, Lasting
  <1>1. QED
    BY DEF ExactInv

\* At every moment the nonce cache holds the nonces of exactly those acceptances that none
\* more than the window later has followed.
THEOREM CacheRemembersExactly == Spec => []CacheIsExact
  BY CacheInvariance, TypeCorrect, ExactCache, PTL
-----------------------------------------------------------------------------
\* _validate_nonce, the last check, is the only one to record a nonce.
CacheHoldsOnlyVerified ==
    \A n \in DOMAIN seen : \E t \in Consumed : t.nonce = n

LEMMA VerifiedCache == ExactInv => CacheHoldsOnlyVerified
  BY DEF ExactInv, CacheHoldsOnlyVerified, Consumed

\* Only a token that passed every other check uses up a nonce.
THEOREM OnlyVerifiedCached == Spec => []CacheHoldsOnlyVerified
  BY CacheInvariance, VerifiedCache, PTL

LEMMA RefusedNonceStep ==
    ASSUME CacheHoldsOnlyVerified, [Next]_vars,
           stage = "validated", stage' = "idle", answer' = "invalid_nonce"
    PROVE  \E t \in Consumed : t.nonce = request.nonce
  <1>1. ValidateNonce
    BY DEF Next, Handle, vars, FullValidate, ValidateClaims, EvaluateGates, SetTrust, ClockMoves
  <1>2. request.nonce \in DOMAIN seen
    BY <1>1 DEF ValidateNonce, Proceed
  <1>3. QED
    BY <1>2 DEF CacheHoldsOnlyVerified

\* A first use of a nonce is never taken for a replay.
THEOREM NonceRefusalsEarned == Spec => NonceRefusedOnlyAfterUse
  <1>1. CacheHoldsOnlyVerified /\ [Next]_vars
          => [stage = "validated" /\ stage' = "idle" /\ answer' = "invalid_nonce"
                => \E t \in Consumed : t.nonce = request.nonce]_vars
    BY RefusedNonceStep
  <1>2. QED
    BY <1>1, OnlyVerifiedCached, PTL DEF Spec, NonceRefusedOnlyAfterUse
=============================================================================
