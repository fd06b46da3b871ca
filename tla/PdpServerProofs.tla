--------------------------- MODULE PdpServerProofs ---------------------------
(***************************************************************************)
(* Proofs about PdpServer, for any number of calls and clients.  First the *)
(* limiter by itself: the bound on the rate with a clock that may step     *)
(* back.  Then the process: each of its steps is a step of the pipeline    *)
(* and a step of the limiter, so that what is proved of the two carries    *)
(* over, or it is a restart.                                               *)
(***************************************************************************)
EXTENDS PdpServer, KnkPipelineProofs, FiniteSetTheorems

\* What has left the list is older than the window by the latest clock.
ForgottenAreOld ==
    \A c \in Client : \A i \in DOMAIN admitted[c] :
        i \notin counts[c] => peak - admitted[c][i] >= Window

\* The list never grows beyond the limit.
HeldBound ==
    \A c \in Client : IsFiniteSet(counts[c]) /\ Cardinality(counts[c]) <= MaxRequests

LimiterIInv == LimiterTypeOK /\ ClockInv /\ ForgottenAreOld /\ HeldBound /\ RateBound

-----------------------------------------------------------------------------
\* Cleaning the list keeps a finite part of it.
LEMMA RecentHeld ==
    ASSUME LimiterIInv, NEW c \in Client
    PROVE  /\ Recent(c) \subseteq counts[c]
           /\ IsFiniteSet(Recent(c))
           /\ Cardinality(Recent(c)) \in Nat
           /\ Cardinality(Recent(c)) <= MaxRequests
<1>1. Recent(c) \subseteq counts[c]
  BY DEF Recent
<1>2. IsFiniteSet(counts[c]) /\ Cardinality(counts[c]) <= MaxRequests
  BY DEF LimiterIInv, HeldBound
<1>3. IsFiniteSet(Recent(c)) /\ Cardinality(Recent(c)) <= Cardinality(counts[c])
  BY <1>1, <1>2, FS_Subset
<1>4. Cardinality(Recent(c)) \in Nat /\ Cardinality(counts[c]) \in Nat
  BY <1>2, <1>3, FS_CardinalityType
<1> QED
  BY <1>1, <1>2, <1>3, <1>4, LimiterAssumption

\* What cleaning drops is older than the window.
LEMMA DroppedAreOld ==
    ASSUME LimiterIInv, NEW c \in Client, NEW i \in DOMAIN admitted[c], i \notin Recent(c)
    PROVE  peak - admitted[c][i] >= Window
<1>1. admitted[c][i] \in Int /\ clock \in Int /\ peak \in Int /\ clock <= peak /\ Window \in Nat
  BY LimiterAssumption DEF LimiterIInv, LimiterTypeOK, ClockTypeOK, ClockInv
<1>2. CASE i \in counts[c]
  <2>1. ~(clock - admitted[c][i] < Window)
    BY <1>2 DEF Recent
  <2> QED
    BY <1>1, <2>1
<1>3. CASE i \notin counts[c]
  BY <1>3 DEF LimiterIInv, ForgottenAreOld
<1> QED
  BY <1>2, <1>3

-----------------------------------------------------------------------------
LEMMA InitLimiterIInv == LimiterInit => LimiterIInv
<1> SUFFICES ASSUME LimiterInit PROVE LimiterIInv
  OBVIOUS
<1> USE DEF LimiterInit, ClockInit
<1>1. LimiterTypeOK
  BY DEF LimiterTypeOK, ClockTypeOK
<1>2. ClockInv
  BY ClockAssumption DEF ClockInv
<1>3. ForgottenAreOld /\ RateBound
  BY DEF ForgottenAreOld, RateBound
<1>4. HeldBound
  BY FS_EmptySet, LimiterAssumption DEF HeldBound
<1> QED
  BY <1>1, <1>2, <1>3, <1>4 DEF LimiterIInv

LEMMA AdmitIInv ==
    ASSUME LimiterIInv, NEW c \in Client, Admit(c)
    PROVE  LimiterIInv'
<1> DEFINE n == Len(admitted[c]) + 1
           new == Append(admitted[c], clock)
<1>1. /\ admitted \in [Client -> Seq(Int)] /\ counts \in [Client -> SUBSET Nat]
      /\ clock \in Int /\ peak \in Int /\ clock <= peak /\ peak - clock <= MaxBack
      /\ \A d \in Client : counts[d] \subseteq DOMAIN admitted[d]
  BY DEF LimiterIInv, LimiterTypeOK, ClockTypeOK, ClockInv
<1>2. /\ clock' = clock /\ peak' = peak
      /\ Cardinality(Recent(c)) < MaxRequests
      /\ admitted' = [admitted EXCEPT ![c] = new]
      /\ counts' = [counts EXCEPT ![c] = Recent(c) \cup {n}]
  BY DEF Admit, clockVars
<1>3. /\ new \in Seq(Int) /\ Len(new) = n /\ n \in Nat /\ n >= 1
      /\ DOMAIN new = 1..n /\ DOMAIN admitted[c] = 1..(n - 1)
      /\ new[n] = clock
      /\ \A i \in 1..(n - 1) : new[i] = admitted[c][i]
  BY <1>1
<1>4. /\ admitted'[c] = new /\ counts'[c] = Recent(c) \cup {n}
      /\ \A d \in Client \ {c} : admitted'[d] = admitted[d] /\ counts'[d] = counts[d]
  BY <1>1, <1>2
<1>5. /\ Recent(c) \subseteq counts[c] /\ IsFiniteSet(Recent(c))
      /\ Cardinality(Recent(c)) \in Nat
  BY RecentHeld
<1>6. MaxRequests \in Nat /\ Window \in Nat /\ MaxBack \in Nat
  BY LimiterAssumption, ClockAssumption
<1>7. LimiterTypeOK'
  <2>1. ClockTypeOK'
    BY <1>1, <1>2 DEF ClockTypeOK
  <2>2. admitted' \in [Client -> Seq(Int)]
    BY <1>1, <1>2, <1>3
  <2>3. counts' \in [Client -> SUBSET Nat]
    BY <1>1, <1>2, <1>3, <1>5
  <2>4. \A d \in Client : counts'[d] \subseteq DOMAIN admitted'[d]
    <3> SUFFICES ASSUME NEW d \in Client PROVE counts'[d] \subseteq DOMAIN admitted'[d]
      OBVIOUS
    <3>1. CASE d = c
      <4>1. Recent(c) \subseteq 1..n /\ n \in 1..n
        BY <1>1, <1>3, <1>5
      <4> QED
        BY <1>3, <1>4, <3>1, <4>1
    <3>2. CASE d # c
      BY <1>1, <1>4, <3>2
    <3> QED
      BY <3>1, <3>2
  <2> QED
    BY <2>1, <2>2, <2>3, <2>4 DEF LimiterTypeOK
<1>8. ClockInv'
  BY <1>1, <1>2 DEF ClockInv
<1>9. ForgottenAreOld'
  <2> SUFFICES ASSUME NEW d \in Client, NEW i \in DOMAIN admitted'[d], i \notin counts'[d]
               PROVE  peak' - admitted'[d][i] >= Window
    BY DEF ForgottenAreOld
  <2>1. CASE d = c
    <3>1. i \in 1..(n - 1) /\ i \notin Recent(c)
      BY <1>3, <1>4, <2>1
    <3>2. peak - admitted[c][i] >= Window
      BY <1>3, <3>1, DroppedAreOld
    <3> QED
      BY <1>2, <1>3, <1>4, <2>1, <3>1, <3>2
  <2>2. CASE d # c
    BY <1>2, <1>4, <2>2 DEF LimiterIInv, ForgottenAreOld
  <2> QED
    BY <2>1, <2>2
<1>10. HeldBound'
  <2> SUFFICES ASSUME NEW d \in Client
               PROVE  IsFiniteSet(counts'[d]) /\ Cardinality(counts'[d]) <= MaxRequests
    BY DEF HeldBound
  <2>1. CASE d = c
    <3>1. /\ IsFiniteSet(Recent(c) \cup {n})
          /\ Cardinality(Recent(c) \cup {n}) =
                IF n \in Recent(c) THEN Cardinality(Recent(c)) ELSE Cardinality(Recent(c)) + 1
      BY <1>5, FS_AddElement
    <3>2. Cardinality(Recent(c) \cup {n}) <= MaxRequests
      BY <1>2, <1>5, <1>6, <3>1
    <3> QED
      BY <1>4, <2>1, <3>1, <3>2
  <2>2. CASE d # c
    BY <1>4, <2>2 DEF LimiterIInv, HeldBound
  <2> QED
    BY <2>1, <2>2
<1>11. RateBound'
  <2> SUFFICES ASSUME NEW d \in Client, NEW i \in DOMAIN admitted'[d]
               PROVE  Cardinality({j \in 1..i :
                          admitted'[d][i] - admitted'[d][j] < Window - MaxBack}) <= MaxRequests
    BY DEF RateBound, Within
  <2> DEFINE W == {j \in 1..i : admitted'[d][i] - admitted'[d][j] < Window - MaxBack}
  <2>1. CASE d = c /\ i = n
    <3>1. W \subseteq counts'[c]
      <4> SUFFICES ASSUME NEW j \in 1..n, clock - new[j] < Window - MaxBack, j \notin Recent(c),
                          j # n
                   PROVE  FALSE
        BY <1>3, <1>4, <2>1
      <4>1. j \in DOMAIN admitted[c] /\ new[j] = admitted[c][j] /\ admitted[c][j] \in Int
        <5> HIDE DEF n, new
        <5>1. j \in 1..(n - 1)
          BY <1>3
        <5>2. j \in DOMAIN admitted[c] /\ new[j] = admitted[c][j]
          BY <1>3, <5>1
        <5>3. admitted[c] \in Seq(Int)
          BY <1>1
        <5> QED
          BY <5>2, <5>3
      <4>2. peak - admitted[c][j] >= Window
        BY <4>1, DroppedAreOld
      <4> QED
        BY <1>1, <1>6, <4>1, <4>2
    <3>2. IsFiniteSet(counts'[c]) /\ Cardinality(counts'[c]) <= MaxRequests
      BY <1>10 DEF HeldBound
    <3>3. IsFiniteSet(W) /\ Cardinality(W) <= Cardinality(counts'[c])
      BY <3>1, <3>2, FS_Subset
    <3>4. Cardinality(W) \in Nat /\ Cardinality(counts'[c]) \in Nat
      BY <3>2, <3>3, FS_CardinalityType
    <3> QED
      BY <1>6, <3>2, <3>3, <3>4
  <2>2. CASE ~(d = c /\ i = n)
    <3>1. i \in DOMAIN admitted[d] /\ \A j \in 1..i : admitted'[d][j] = admitted[d][j]
      <4> HIDE DEF n, new
      <4>1. CASE d = c
        <5>1. i \in 1..(n - 1)
          BY <1>3, <1>4, <2>2, <4>1
        <5>2. \A j \in 1..i : j \in 1..(n - 1)
          BY <1>3, <5>1
        <5> QED
          BY <1>3, <1>4, <4>1, <5>1, <5>2
      <4>2. CASE d # c
        BY <1>4, <4>2
      <4> QED
        BY <4>1, <4>2
    <3>2. i \in 1..i
      BY <1>1, <3>1
    <3>3. W = Within(d, i, Window - MaxBack)
      BY <3>1, <3>2 DEF Within
    <3> QED
      BY <3>1, <3>3 DEF LimiterIInv, RateBound
  <2> QED
    BY <2>1, <2>2
<1> QED
  BY <1>7, <1>8, <1>9, <1>10, <1>11 DEF LimiterIInv

LEMMA RefuseIInv ==
    ASSUME LimiterIInv, NEW c \in Client, Refuse(c)
    PROVE  LimiterIInv'
<1>1. /\ counts \in [Client -> SUBSET Nat]
      /\ \A d \in Client : counts[d] \subseteq DOMAIN admitted[d]
  BY DEF LimiterIInv, LimiterTypeOK
<1>2. /\ clock' = clock /\ peak' = peak /\ admitted' = admitted
      /\ counts' = [counts EXCEPT ![c] = Recent(c)]
  BY DEF Refuse
<1>3. counts'[c] = Recent(c) /\ \A d \in Client \ {c} : counts'[d] = counts[d]
  BY <1>1, <1>2
<1>4. /\ Recent(c) \subseteq counts[c] /\ IsFiniteSet(Recent(c))
      /\ Cardinality(Recent(c)) <= MaxRequests
  BY RecentHeld
<1>5. LimiterTypeOK'
  BY <1>1, <1>2, <1>3, <1>4 DEF LimiterIInv, LimiterTypeOK, ClockTypeOK
<1>6. ClockInv' /\ RateBound'
  BY <1>2 DEF LimiterIInv, ClockInv, RateBound, Within
<1>7. ForgottenAreOld'
  <2> SUFFICES ASSUME NEW d \in Client, NEW i \in DOMAIN admitted[d], i \notin counts'[d]
               PROVE  peak - admitted[d][i] >= Window
    BY <1>2 DEF ForgottenAreOld
  <2>1. CASE d = c
    BY <1>3, <2>1, DroppedAreOld
  <2>2. CASE d # c
    BY <1>3, <2>2 DEF LimiterIInv, ForgottenAreOld
  <2> QED
    BY <2>1, <2>2
<1>8. HeldBound'
  BY <1>3, <1>4 DEF LimiterIInv, HeldBound
<1> QED
  BY <1>5, <1>6, <1>7, <1>8 DEF LimiterIInv

\* The clock moves between two decisions.
LEMMA ClockLimiterIInv ==
    ASSUME LimiterIInv, Tick \/ StepBack, NoDecision
    PROVE  LimiterIInv'
<1>1. admitted' = admitted /\ counts' = counts
  BY DEF NoDecision
<1>2. clock \in Int /\ peak \in Int /\ clock <= peak /\ peak - clock <= MaxBack
  BY DEF LimiterIInv, LimiterTypeOK, ClockTypeOK, ClockInv
<1>3. clock' \in Int /\ peak' \in Int /\ clock' <= peak' /\ peak' - clock' <= MaxBack
      /\ peak' >= peak
  BY <1>2, ClockAssumption DEF Tick, StepBack
<1>4. LimiterTypeOK' /\ ClockInv' /\ HeldBound' /\ RateBound'
  BY <1>1, <1>3 DEF LimiterIInv, LimiterTypeOK, ClockTypeOK, ClockInv, HeldBound,
                    RateBound, Within
<1>5. ForgottenAreOld'
  <2> SUFFICES ASSUME NEW d \in Client, NEW i \in DOMAIN admitted[d], i \notin counts[d]
               PROVE  peak' - admitted[d][i] >= Window
    BY <1>1 DEF ForgottenAreOld
  <2>1. peak - admitted[d][i] >= Window
    BY DEF LimiterIInv, ForgottenAreOld
  <2>2. admitted[d][i] \in Int
    BY DEF LimiterIInv, LimiterTypeOK
  <2> QED
    BY <1>2, <1>3, <2>1, <2>2, LimiterAssumption
<1> QED
  BY <1>4, <1>5 DEF LimiterIInv

-----------------------------------------------------------------------------
LEMMA StepLimiterIInv == LimiterIInv /\ [LimiterNext]_limiterVars => LimiterIInv'
<1> SUFFICES ASSUME LimiterIInv, [LimiterNext]_limiterVars PROVE LimiterIInv'
  OBVIOUS
<1>1. ASSUME NEW c \in Client, Admit(c) PROVE LimiterIInv'
  BY <1>1, AdmitIInv
<1>2. ASSUME NEW c \in Client, Refuse(c) PROVE LimiterIInv'
  BY <1>2, RefuseIInv
<1>3. CASE (Tick \/ StepBack) /\ NoDecision
  BY <1>3, ClockLimiterIInv
<1>4. CASE UNCHANGED limiterVars
  BY <1>4 DEF limiterVars, LimiterIInv, LimiterTypeOK, ClockTypeOK, ClockInv,
              ForgottenAreOld, HeldBound, RateBound, Within
<1> QED
  BY <1>1, <1>2, <1>3, <1>4 DEF LimiterNext, Dispatch

\* The inductive invariant holds in every reachable state.
THEOREM LimiterInvariance == LimiterSpec => []LimiterIInv
  BY InitLimiterIInv, StepLimiterIInv, PTL DEF LimiterSpec

\* The state of RateLimitMiddleware keeps its type: in particular every entry of a
\* client's list is the time of one of its admissions.
THEOREM LimiterTypeCorrect == LimiterSpec => []LimiterTypeOK
<1>1. LimiterIInv => LimiterTypeOK
  BY DEF LimiterIInv
<1> QED
  BY <1>1, LimiterInvariance, PTL

\* dispatch admits at most MaxRequests requests of a client within any span shorter
\* than the window by the clock's correction, for every limit and window.
THEOREM RateIsBounded == LimiterSpec => []RateBound
<1>1. LimiterIInv => RateBound
  BY DEF LimiterIInv
<1> QED
  BY <1>1, LimiterInvariance, PTL

-----------------------------------------------------------------------------
\* One call is in the handler at a time, and the handler is at work on its body.
HandlerInv ==
    /\ progress \in [Call -> Progress]
    /\ stage = "idle" <=> InHand = {}
    /\ \A r \in InHand : InHand = {r} /\ request = Body[r]

\* Some call that carried the nonce has been answered with a decision of the gates.
Decided(n) == \E q \in Call : Body[q].nonce = n /\ progress[q] \in GateAnswer

\* A nonce the cache holds belongs to such a call, or to the call in hand, of which the
\* gates are asked next.
DecidedInv ==
    /\ \A n \in DOMAIN seen : Decided(n) \/ (stage = "recorded" /\ request.nonce = n)
    /\ \A r \in Call : progress[r] = "invalid_nonce" => Decided(Body[r].nonce)

\* A token was first accepted when it had at most ExpBound and the skew left to
\* live, by a clock that may have been set back since the expiry was checked.
FirstInv ==
    /\ DOMAIN first \subseteq Jws /\ first \in [DOMAIN first -> Int]
    /\ Consumed \subseteq DOMAIN first
    /\ \A t \in DOMAIN first : t.exp <= first[t] + ExpBound + Skew + MaxBack

ServerIInv == IInv /\ LimiterIInv /\ HandlerInv /\ DecidedInv /\ FirstInv
-----------------------------------------------------------------------------
LEMMA InitServerIInv == ServerInit => ServerIInv
<1> SUFFICES ASSUME ServerInit PROVE ServerIInv
  OBVIOUS
<1>1. IInv /\ LimiterIInv
  BY InitIInv, InitLimiterIInv DEF ServerInit
<1>2. HandlerInv
  BY DEF ServerInit, Init, HandlerInv, Progress, InHand
<1>3. DecidedInv /\ FirstInv
  BY DEF ServerInit, Init, DecidedInv, FirstInv, Consumed
<1> QED
  BY <1>1, <1>2, <1>3 DEF ServerIInv

\* A step of the process that is no restart is one of the pipeline and one of the
\* limiter, of which at most one moves.
LEMMA StepsOfTheParts ==
    ASSUME [ServerNext]_serverVars, ~Restart
    PROVE  [Next]_vars /\ [LimiterNext]_limiterVars
<1>1. ASSUME NEW r \in Call, Arrive(r) PROVE [Next]_vars /\ [LimiterNext]_limiterVars
  <2>1. Caller[r] \in Client
    BY CallAssumption
  <2> QED
    BY <1>1, <2>1 DEF Arrive, LimiterNext, Dispatch, vars
<1>2. ASSUME NEW r \in Call, Read(r) PROVE [Next]_vars /\ [LimiterNext]_limiterVars
  BY <1>2 DEF Read, NoDecision, limiterVars, vars
<1>3. ASSUME NEW r \in Call, Enter(r) PROVE [Next]_vars /\ [LimiterNext]_limiterVars
  <2>1. Body[r] \in Submission
    BY CallAssumption
  <2> QED
    BY <1>3, <2>1 DEF Enter, FullValidate, NoDecision, Next, limiterVars
<1>4. ASSUME NEW r \in Call, Continue(r) PROVE [Next]_vars /\ [LimiterNext]_limiterVars
  BY <1>4 DEF Continue, Handle, ValidateClaims, ValidateNonce, EvaluateGates, Next,
              NoDecision, limiterVars
<1>5. ASSUME NEW n \in Node, NEW k \in Key \cup {NoKey}, Provision(n, k)
      PROVE  [Next]_vars /\ [LimiterNext]_limiterVars
  BY <1>5 DEF Provision, SetTrust, NoDecision, Next, limiterVars
<1>6. CASE TimePasses
  BY <1>6 DEF TimePasses, ClockMoves, Next, LimiterNext
<1>7. CASE UNCHANGED serverVars
  BY <1>7 DEF serverVars
<1> QED
  BY <1>1, <1>2, <1>3, <1>4, <1>5, <1>6, <1>7 DEF ServerNext

-----------------------------------------------------------------------------
\* The handler returns with an answer.
LEMMA HandlerReplies ==
    ASSUME Handle \/ (\E s \in Submission : FullValidate(s)), stage' = "idle"
    PROVE  answer' \in HandlerAnswer
<1>1. CASE \E s \in Submission : FullValidate(s)
  BY <1>1 DEF FullValidate, Parse, Reply, HandlerAnswer, Answer
<1>2. CASE ValidateClaims
  <2>1. answer' = FirstFailure(JwtChecks(request, clock)) /\ ~Passed(JwtChecks(request, clock))
    BY <1>2 DEF ValidateClaims, Reply, Proceed
  <2>2. answer' \in (Reason \cup {"500"}) \ {"invalid_nonce"}
    BY <2>1, FailureType
  <2> QED
    BY <2>2 DEF HandlerAnswer, Answer, Reason, GateReason
<1>3. CASE ValidateNonce
  BY <1>3 DEF ValidateNonce, Reply, Proceed, HandlerAnswer, Answer, Reason
<1>4. CASE EvaluateGates
  <2>1. answer' \in GateAnswer
    BY <1>4, VerdictType DEF EvaluateGates, Decide, Reply, GateAnswer
  <2> QED
    BY <2>1 DEF GateAnswer, HandlerAnswer, Answer, Reason, GateReason
<1> QED
  BY <1>1, <1>2, <1>3, <1>4 DEF Handle

\* Moving the call in hand along, or no call: the handler is at work on one body.
LEMMA FollowHandler ==
    ASSUME HandlerInv, NEW r \in Call, InHand \subseteq {r}, Follow(r),
           stage' # "idle" => request' = Body[r],
           stage' = "idle" => answer' \in HandlerAnswer
    PROVE  HandlerInv'
<1>1. progress' = [progress EXCEPT ![r] = IF stage' = "idle" THEN answer' ELSE "handling"]
  BY DEF Follow
<1>2. progress' \in [Call -> Progress]
  BY <1>1 DEF HandlerInv, Progress, InServer
<1>3. "handling" \notin HandlerAnswer
  BY DEF HandlerAnswer, Answer, Reason, GateReason
<1>4. \A q \in Call \ {r} : progress'[q] = progress[q] /\ progress[q] # "handling"
  BY <1>1 DEF HandlerInv, InHand
<1>5. progress'[r] = IF stage' = "idle" THEN answer' ELSE "handling"
  BY <1>1 DEF HandlerInv
<1>6. InHand' = IF stage' = "idle" THEN {} ELSE {r}
  BY <1>3, <1>4, <1>5 DEF InHand
<1> QED
  BY <1>2, <1>6 DEF HandlerInv

\* While no call is in the handler, a call that moves elsewhere puts none there.
LEMMA MoveHandler ==
    ASSUME HandlerInv, NEW r \in Call, NEW from, NEW to \in Progress \ {"handling"},
           from # "handling", Move(r, from, to), UNCHANGED <<stage, request>>
    PROVE  HandlerInv'
<1>1. progress' \in [Call -> Progress]
  BY DEF HandlerInv, Move
<1>2. InHand' = InHand
  BY DEF HandlerInv, Move, InHand
<1> QED
  BY <1>1, <1>2 DEF HandlerInv

LEMMA StepHandlerInv ==
    ASSUME HandlerInv, [ServerNext]_serverVars
    PROVE  HandlerInv'
<1>1. ASSUME NEW r \in Call, Arrive(r) PROVE HandlerInv'
  <2>1. CASE Move(r, "unsent", "reading")
    BY <1>1, <2>1, MoveHandler DEF Arrive, vars, Progress, InServer
  <2>2. CASE Move(r, "unsent", "429")
    BY <1>1, <2>2, MoveHandler DEF Arrive, vars, Progress, InServer
  <2> QED
    BY <1>1, <2>1, <2>2 DEF Arrive
<1>2. ASSUME NEW r \in Call, Read(r) PROVE HandlerInv'
  <2>1. CASE Move(r, "reading", "ready")
    BY <1>2, <2>1, MoveHandler DEF Read, vars, Progress, InServer
  <2>2. CASE Move(r, "reading", "lost")
    BY <1>2, <2>2, MoveHandler DEF Read, vars, Progress, InServer
  <2> QED
    BY <1>2, <2>1, <2>2 DEF Read
<1>3. ASSUME NEW r \in Call, Enter(r) PROVE HandlerInv'
  <2>1. InHand = {} /\ Follow(r)
    BY <1>3 DEF Enter, FullValidate, HandlerInv
  <2>2. stage' # "idle" => request' = Body[r]
    BY <1>3 DEF Enter, FullValidate, Parse, Reply
  <2>3. stage' = "idle" => answer' \in HandlerAnswer
    BY <1>3, CallAssumption, HandlerReplies DEF Enter
  <2> QED
    BY <2>1, <2>2, <2>3, FollowHandler
<1>4. ASSUME NEW r \in Call, Continue(r) PROVE HandlerInv'
  <2>1. InHand = {r} /\ request = Body[r] /\ Follow(r)
    BY <1>4 DEF Continue, HandlerInv, InHand
  <2>2. stage' # "idle" => request' = request
    BY <1>4 DEF Continue, Handle, ValidateClaims, ValidateNonce, EvaluateGates, Decide,
                Reply, Proceed
  <2>3. stage' = "idle" => answer' \in HandlerAnswer
    BY <1>4, HandlerReplies DEF Continue
  <2> QED
    BY <2>1, <2>2, <2>3, FollowHandler
<1>5. CASE UNCHANGED <<stage, request, progress>>
  BY <1>5 DEF HandlerInv, InHand
<1>6. CASE Restart
  <2>1. progress' = [r \in Call |-> IF progress[r] \in InServer THEN "lost" ELSE progress[r]]
        /\ stage' = "idle"
    BY <1>6 DEF Restart, Boot
  <2>2. progress' \in [Call -> Progress] /\ InHand' = {}
    BY <2>1 DEF HandlerInv, InHand, Progress, InServer
  <2> QED
    BY <2>1, <2>2 DEF HandlerInv
<1>7. CASE \/ \E n \in Node, k \in Key \cup {NoKey} : Provision(n, k)
           \/ TimePasses
           \/ UNCHANGED serverVars
  BY <1>5, <1>7 DEF Provision, SetTrust, TimePasses, ClockMoves, serverVars, vars
<1> QED
  BY <1>1, <1>2, <1>3, <1>4, <1>6, <1>7 DEF ServerNext

-----------------------------------------------------------------------------
\* A call that has been answered keeps its answer.
LEMMA AnswersStand ==
    ASSUME HandlerInv, [ServerNext]_serverVars, NEW q \in Call, progress[q] \in HandlerAnswer
    PROVE  progress'[q] = progress[q]
<1>1. /\ progress \in [Call -> Progress]
      /\ progress[q] \notin InServer \cup {"unsent"}
  BY DEF HandlerInv, HandlerAnswer, Answer, Reason, GateReason, InServer
<1>2. ASSUME NEW r \in Call, Arrive(r) \/ Read(r) PROVE progress'[q] = progress[q]
  BY <1>1, <1>2 DEF Arrive, Read, Move, InServer
<1>3. ASSUME NEW r \in Call, Enter(r) \/ Continue(r) PROVE progress'[q] = progress[q]
  BY <1>1, <1>3 DEF Enter, Continue, Follow, InServer
<1>4. CASE Restart
  BY <1>1, <1>4 DEF Restart
<1>5. CASE \/ \E n \in Node, k \in Key \cup {NoKey} : Provision(n, k)
           \/ TimePasses
           \/ UNCHANGED serverVars
  BY <1>5 DEF Provision, TimePasses, serverVars
<1> QED
  BY <1>2, <1>3, <1>4, <1>5 DEF ServerNext

LEMMA DecidedStands ==
    ASSUME HandlerInv, [ServerNext]_serverVars, NEW n, Decided(n)
    PROVE  Decided(n)'
<1>1. PICK q \in Call : Body[q].nonce = n /\ progress[q] \in GateAnswer
  BY DEF Decided
<1>2. progress[q] \in HandlerAnswer
  BY <1>1 DEF GateAnswer, HandlerAnswer, Answer, Reason, GateReason
<1>3. progress'[q] = progress[q]
  BY <1>2, AnswersStand
<1> QED
  BY <1>1, <1>3 DEF Decided

\* The handler's step for a call: an acceptance is followed by the decision of the gates on
\* the same call, and a nonce is refused only when it has been decided.
LEMMA ContinueDecidedInv ==
    ASSUME IInv, HandlerInv, DecidedInv, NEW r \in Call, Continue(r)
    PROVE  DecidedInv'
<1>1. /\ InHand = {r} /\ request = Body[r] /\ progress \in [Call -> Progress]
      /\ progress' = [progress EXCEPT ![r] = IF stage' = "idle" THEN answer' ELSE "handling"]
  BY DEF Continue, Follow, HandlerInv, InHand
<1>2. /\ progress'[r] = IF stage' = "idle" THEN answer' ELSE "handling"
      /\ \A q \in Call \ {r} : progress'[q] = progress[q]
  BY <1>1
<1>3. ASSUME NEW n, Decided(n) PROVE Decided(n)'
  <2>1. [ServerNext]_serverVars
    BY DEF ServerNext
  <2> QED
    BY <1>3, <2>1, DecidedStands
<1>4. \A q \in Call \ {r} : progress'[q] = "invalid_nonce" => Decided(Body[q].nonce)'
  BY <1>2, <1>3 DEF DecidedInv
<1>5. CASE ValidateClaims
  <2>1. UNCHANGED seen /\ \A n \in DOMAIN seen : Decided(n)
    BY <1>5 DEF ValidateClaims, DecidedInv
  <2>2. progress'[r] # "invalid_nonce"
    BY <1>2, <1>5, FailureType DEF ValidateClaims, Reply, Proceed
  <2> QED
    BY <1>3, <1>4, <2>1, <2>2 DEF DecidedInv
<1>6. CASE ValidateNonce /\ request.nonce \in DOMAIN seen
  <2>1. UNCHANGED seen /\ \A n \in DOMAIN seen : Decided(n)
    BY <1>6 DEF ValidateNonce, DecidedInv
  <2>2. Decided(Body[r].nonce)'
    BY <1>1, <1>3, <1>6, <2>1
  <2> QED
    BY <1>3, <1>4, <2>1, <2>2 DEF DecidedInv
<1>7. CASE ValidateNonce /\ request.nonce \notin DOMAIN seen
  <2>1. \A n \in DOMAIN seen : Decided(n)
    BY <1>7 DEF ValidateNonce, DecidedInv
  <2>2. DOMAIN seen' \subseteq DOMAIN seen \cup {request.nonce}
    <3>1. clock \in Int /\ seen \in [DOMAIN seen -> Int]
      BY DEF IInv, TypeOK, ClockTypeOK
    <3> QED
      BY <1>7, <3>1, SweptCache DEF ValidateNonce
  <2>3. stage' = "recorded" /\ request' = request /\ progress'[r] = "handling"
    BY <1>2, <1>7 DEF ValidateNonce, Proceed
  <2> QED
    BY <1>3, <1>4, <2>1, <2>2, <2>3 DEF DecidedInv
<1>8. CASE EvaluateGates
  <2>1. stage' = "idle" /\ answer' \in GateAnswer /\ UNCHANGED seen
    BY <1>8, VerdictType DEF EvaluateGates, Decide, Reply, GateAnswer
  <2>2. progress'[r] \in GateAnswer
    BY <1>2, <2>1
  <2>3. progress'[r] # "invalid_nonce"
    BY <2>2 DEF GateAnswer, GateReason
  <2>4. Decided(Body[r].nonce)'
    BY <2>2 DEF Decided
  <2>5. ASSUME NEW n \in DOMAIN seen' PROVE Decided(n)'
    <3>1. Decided(n) \/ n = Body[r].nonce
      BY <1>1, <2>1, <2>5 DEF DecidedInv
    <3> QED
      BY <1>3, <2>4, <3>1
  <2> QED
    BY <1>4, <2>3, <2>5 DEF DecidedInv
<1> QED
  BY <1>5, <1>6, <1>7, <1>8 DEF Continue, Handle

LEMMA StepDecidedInv ==
    ASSUME IInv, HandlerInv, DecidedInv, [ServerNext]_serverVars
    PROVE  DecidedInv'
<1>1. ASSUME NEW r \in Call, Continue(r) PROVE DecidedInv'
  BY <1>1, ContinueDecidedInv
<1>2. ASSUME UNCHANGED seen \/ seen' = [n \in {} |-> 0],
             \/ UNCHANGED <<stage, request>>
             \/ stage # "recorded"
             \/ seen' = [n \in {} |-> 0],
             \A q \in Call : progress'[q] = "invalid_nonce" => progress[q] = "invalid_nonce"
      PROVE  DecidedInv'
  <2>1. \A n : Decided(n) => Decided(n)'
    BY DecidedStands
  <2> QED
    BY <1>2, <2>1 DEF DecidedInv
<1>3. progress \in [Call -> Progress]
  BY DEF HandlerInv
<1>4. ASSUME NEW r \in Call, Arrive(r) \/ Read(r) PROVE DecidedInv'
  <2>1. UNCHANGED <<seen, stage, request>>
    BY <1>4 DEF Arrive, Read, vars
  <2>2. \A q \in Call : progress'[q] = "invalid_nonce" => progress[q] = "invalid_nonce"
    BY <1>3, <1>4 DEF Arrive, Read, Move
  <2> QED
    BY <1>2, <2>1, <2>2
<1>5. ASSUME NEW r \in Call, Enter(r) PROVE DecidedInv'
  <2>1. UNCHANGED seen /\ stage = "idle" /\ (stage' = "idle" => answer' = "400")
    BY <1>5 DEF Enter, FullValidate, Parse, Reply
  <2>2. \A q \in Call : progress'[q] = "invalid_nonce" => progress[q] = "invalid_nonce"
    BY <1>3, <1>5, <2>1 DEF Enter, Follow
  <2> QED
    BY <1>2, <2>1, <2>2
<1>6. CASE Restart
  <2>1. seen' = [n \in {} |-> 0]
    BY <1>6 DEF Restart, Boot
  <2>2. \A q \in Call : progress'[q] = "invalid_nonce" => progress[q] = "invalid_nonce"
    BY <1>6 DEF Restart
  <2> QED
    BY <1>2, <2>1, <2>2
<1>7. CASE \/ \E n \in Node, k \in Key \cup {NoKey} : Provision(n, k)
           \/ TimePasses
           \/ UNCHANGED serverVars
  <2>1. UNCHANGED <<seen, stage, request, progress>>
    BY <1>7 DEF Provision, SetTrust, TimePasses, ClockMoves, serverVars, vars
  <2> QED
    BY <1>2, <2>1
<1> QED
  BY <1>1, <1>4, <1>5, <1>6, <1>7 DEF ServerNext

\* What a step of the pipeline adds to the accepted tokens.
LEMMA NewlyConsumed ==
    ASSUME IInv, Handle
    PROVE  /\ UNCHANGED <<clock, peak>>
           /\ \A t \in Consumed' : \/ t \in Consumed
                                   \/ t = request.jws /\ stage = "validated"
<1>1. UNCHANGED <<clock, peak>>
  BY DEF Handle, ValidateClaims, ValidateNonce, EvaluateGates
<1>2. CASE ValidateNonce /\ accepted' # accepted
  <2> DEFINE a == NewlyAccepted
  <2>1. request \in Submission /\ accepted \in Seq(Accepted) /\ clock \in Int
    BY <1>2 DEF IInv, TypeOK, ClockTypeOK, ValidateNonce
  <2>2. a \in Accepted /\ a.jws = request.jws
    BY <2>1, SubmissionFields DEF Accepted, NewlyAccepted
  <2>3. Consumed' = Consumed \cup {request.jws}
    BY <1>2, <2>1, <2>2, AppendConsumed DEF ValidateNonce
  <2> QED
    BY <1>1, <1>2, <2>3 DEF ValidateNonce
<1>3. CASE EvaluateGates
  <2>1. accepted \in Seq(Accepted) /\ accepted # <<>>
    BY <1>3 DEF IInv, TypeOK, RecordedInv, EvaluateGates
  <2>2. Consumed' = Consumed
    BY <1>3, <2>1, GateOutcome, DecideConsumed
  <2> QED
    BY <1>1, <2>2
<1>4. CASE accepted' = accepted
  BY <1>1, <1>4 DEF Consumed
<1> QED
  BY <1>2, <1>3, <1>4 DEF Handle, ValidateClaims

LEMMA ContinueFirstInv ==
    ASSUME IInv, IInv', FirstInv, NEW r \in Call, Continue(r)
    PROVE  FirstInv'
<1>1. /\ Handle
      /\ first' = [t \in DOMAIN first \cup Consumed' |->
                      IF t \in DOMAIN first THEN first[t] ELSE clock]
  BY DEF Continue
<1>2. /\ DOMAIN first \subseteq Jws /\ first \in [DOMAIN first -> Int]
      /\ Consumed \subseteq DOMAIN first
      /\ \A t \in DOMAIN first : t.exp <= first[t] + ExpBound + Skew + MaxBack
  BY DEF FirstInv
<1>3. clock \in Int /\ peak \in Int /\ peak - clock <= MaxBack
  BY DEF IInv, TypeOK, ClockTypeOK, ClockInv
<1>4. Consumed' \subseteq Jws
  <2>1. (accepted \in Seq(Accepted))'
    BY DEF IInv, TypeOK
  <2>2. \A i \in DOMAIN accepted' : accepted'[i] \in Accepted
    BY <2>1
  <2> QED
    BY <2>2 DEF Consumed, Accepted
<1>5. first' \in [DOMAIN first' -> Int] /\ DOMAIN first' = DOMAIN first \cup Consumed'
  BY <1>1, <1>2, <1>3
<1>6. ASSUME NEW t \in DOMAIN first'
      PROVE  t.exp <= first'[t] + ExpBound + Skew + MaxBack
  <2>1. CASE t \in DOMAIN first
    BY <1>1, <1>2, <2>1
  <2>2. CASE t \notin DOMAIN first
    <3>1. t = request.jws /\ stage = "validated"
      BY <1>1, <1>2, <1>5, <1>6, <2>2, NewlyConsumed
    <3>2. t.exp <= peak + ExpBound + Skew /\ t.exp \in Int
      BY <1>4, <1>5, <1>6, <2>2, <3>1, JwsFields DEF IInv, ValidatedInv
    <3>3. first'[t] = clock
      BY <1>1, <1>5, <1>6, <2>2
    <3> QED
      BY <1>3, <3>2, <3>3, ClockAssumption, PipelineAssumption
  <2> QED
    BY <2>1, <2>2
<1> QED
  BY <1>2, <1>4, <1>5, <1>6 DEF FirstInv

LEMMA StepFirstInv ==
    ASSUME IInv, IInv', FirstInv, [ServerNext]_serverVars
    PROVE  FirstInv'
<1>1. ASSUME NEW r \in Call, Continue(r) PROVE FirstInv'
  BY <1>1, ContinueFirstInv
<1>2. CASE UNCHANGED <<accepted, first>>
  BY <1>2 DEF FirstInv, Consumed
<1>3. CASE Restart
  BY <1>3 DEF Restart, Boot, FirstInv, Consumed
<1>4. ASSUME NEW r \in Call, Arrive(r) \/ Read(r) \/ Enter(r) PROVE FirstInv'
  BY <1>2, <1>4 DEF Arrive, Read, Enter, FullValidate, vars
<1>5. CASE \/ \E n \in Node, k \in Key \cup {NoKey} : Provision(n, k)
           \/ TimePasses
           \/ UNCHANGED serverVars
  BY <1>2, <1>5 DEF Provision, SetTrust, TimePasses, ClockMoves, serverVars, vars
<1> QED
  BY <1>1, <1>3, <1>4, <1>5 DEF ServerNext

-----------------------------------------------------------------------------
\* What a process starts with satisfies the invariants of its parts at any time.
LEMMA RestartIInv ==
    ASSUME IInv, LimiterIInv, Restart
    PROVE  IInv' /\ LimiterIInv'
<1>1. /\ trusted' = [n \in Node |-> NoKey] /\ vouched' = {}
      /\ seen' = [n \in {} |-> 0] /\ accepted' = <<>>
      /\ admitted' = [c \in Client |-> <<>>] /\ counts' = [c \in Client |-> {}]
      /\ stage' = "idle" /\ request' = NoRequest /\ answer' = "none"
      /\ clock' = clock /\ peak' = peak
  BY DEF Restart, Boot
<1>2. ClockTypeOK' /\ ClockInv'
  BY <1>1 DEF IInv, TypeOK, ClockTypeOK, ClockInv
<1>3. TypeOK'
  BY <1>1, <1>2 DEF TypeOK, Stage, Answer
<1>4. MemoryInv' /\ ValidatedInv' /\ RecordedInv' /\ AcceptedOnce'
  BY <1>1 DEF MemoryInv, Consumed, ValidatedInv, RecordedInv, AcceptedOnce
<1>5. LimiterTypeOK'
  BY <1>1, <1>2 DEF LimiterTypeOK
<1>6. ForgottenAreOld' /\ RateBound'
  BY <1>1 DEF ForgottenAreOld, RateBound
<1>7. HeldBound'
  BY <1>1, FS_EmptySet, LimiterAssumption DEF HeldBound
<1> QED
  BY <1>2, <1>3, <1>4, <1>5, <1>6, <1>7 DEF IInv, LimiterIInv

LEMMA StepServerIInv == ServerIInv /\ [ServerNext]_serverVars => ServerIInv'
<1> SUFFICES ASSUME ServerIInv, [ServerNext]_serverVars PROVE ServerIInv'
  OBVIOUS
<1>1. IInv /\ LimiterIInv /\ HandlerInv /\ DecidedInv /\ FirstInv
  BY DEF ServerIInv
<1>2. IInv' /\ LimiterIInv'
  <2>1. CASE Restart
    BY <1>1, <2>1, RestartIInv
  <2>2. CASE ~Restart
    BY <1>1, <2>2, StepsOfTheParts, StepIInv, StepLimiterIInv
  <2> QED
    BY <2>1, <2>2
<1>3. HandlerInv' /\ DecidedInv' /\ FirstInv'
  BY <1>1, <1>2, StepHandlerInv, StepDecidedInv, StepFirstInv
<1> QED
  BY <1>2, <1>3 DEF ServerIInv

\* The invariants of the parts hold throughout the life of the process, and across
\* its restarts.
THEOREM ServerInvariance == ServerSpec => []ServerIInv
  BY InitServerIInv, StepServerIInv, PTL DEF ServerSpec

\* Every variable of the process keeps its type, and the handler one call.
THEOREM ServerTypeCorrect == ServerSpec => []ServerTypeOK
<1>1. ServerIInv => ServerTypeOK
  BY DEF ServerIInv, IInv, LimiterIInv, HandlerInv, FirstInv, ServerTypeOK
<1> QED
  BY <1>1, ServerInvariance, PTL

\* In one life of the process the limiter's rate holds and no token passes twice,
\* with any number of calls waiting for their bodies and entered in any order.
THEOREM ServerKeepsItsParts == ServerSpec => [](RateBound /\ AcceptedOnce)
<1>1. ServerIInv => RateBound /\ AcceptedOnce
  BY DEF ServerIInv, IInv, LimiterIInv
<1> QED
  BY <1>1, ServerInvariance, PTL

\* A client is told that its nonce is used only when a call that carried the nonce has been
\* answered with a decision: whatever is retried, entered out of order or cut off by a
\* restart, no undecided request has used the nonce up.
THEOREM ReplaysAreDecided == ServerSpec => []ReplayMeansDecided
<1>1. ServerIInv => ReplayMeansDecided
  BY DEF ServerIInv, DecidedInv, Decided, ReplayMeansDecided
<1> QED
  BY <1>1, ServerInvariance, PTL

\* A restart lets a token pass again only in the short time it had left to live.
THEOREM RestartsReplayBriefly == ServerSpec => ReplaysAreBrief
<1> DEFINE Brief ==
      stage = "parsed" /\ stage' = "validated" /\ request.jws \in DOMAIN first
        => clock - first[request.jws] <= ExpBound + 2 * Skew + MaxBack
<1>1. ServerIInv /\ [ServerNext]_serverVars => [Brief]_serverVars
  <2> SUFFICES ASSUME ServerIInv, [ServerNext]_serverVars,
                      stage = "parsed", stage' = "validated", request.jws \in DOMAIN first
               PROVE  clock - first[request.jws] <= ExpBound + 2 * Skew + MaxBack
    OBVIOUS
  <2>1. ValidateClaims
    <3>1. ~Restart
      BY DEF Restart, Boot
    <3>2. [Next]_vars
      BY <3>1, StepsOfTheParts
    <3> QED
      BY <3>2 DEF Next, Handle, vars, FullValidate, ValidateNonce, EvaluateGates, SetTrust,
                  ClockMoves
  <2>2. Passed(JwtChecks(request, clock))
    BY <2>1 DEF ValidateClaims, Reply
  <2>3. request.jws.exp >= clock - Skew
    BY <2>2, PassedChecks DEF NotExpired
  <2>4. request.jws.exp <= first[request.jws] + ExpBound + Skew + MaxBack
    BY DEF ServerIInv, FirstInv
  <2>5. /\ request.jws \in Jws /\ first[request.jws] \in Int /\ clock \in Int
        /\ request.jws.exp \in Int
    BY JwsFields DEF ServerIInv, FirstInv, IInv, TypeOK, ClockTypeOK
  <2> QED
    BY <2>3, <2>4, <2>5, ClockAssumption, PipelineAssumption
<1> QED
  BY <1>1, ServerInvariance, PTL DEF ServerSpec, ReplaysAreBrief

-----------------------------------------------------------------------------
\* What a life of the process decides about a token follows the ledger, whatever the
\* limiter, the waiting calls and the owner of the keys do meanwhile.
THEOREM ServerRefinesLedger == ServerSpec => LedgerBetweenRestarts
<1>1. ServerIInv /\ ServerIInv' /\ [ServerNext]_serverVars
        => [Restart \/ Ledger!LedgerNext
              \/ UNCHANGED [t \in Jws |-> FateIn(accepted, t)]]_serverVars
  <2> SUFFICES ASSUME ServerIInv, ServerIInv', [ServerNext]_serverVars, ~Restart
               PROVE  Ledger!LedgerNext \/ UNCHANGED Fates
    BY DEF Fates
  <2>1. [Next]_vars
    BY StepsOfTheParts
  <2> QED
    BY <2>1, StepRefines DEF ServerIInv
<1> QED
  BY <1>1, ServerInvariance, PTL DEF ServerSpec, LedgerBetweenRestarts

\* The parts' invariants about keys and cached nonces hold of the server too: a new
\* process handles nothing and has cached nothing.
ServerTrustInv == ServerIInv /\ TrustInv /\ ExactInv

LEMMA StepServerTrust == ServerTrustInv /\ [ServerNext]_serverVars => ServerTrustInv'
<1> SUFFICES ASSUME ServerTrustInv, [ServerNext]_serverVars PROVE ServerTrustInv'
  OBVIOUS
<1>1. ServerIInv'
  BY StepServerIInv DEF ServerTrustInv
<1>2. CASE Restart
  <2>1. stage' = "idle" /\ DOMAIN seen' = {} /\ accepted' = <<>>
    BY <1>2 DEF Restart, Boot
  <2> QED
    BY <1>1, <2>1 DEF ServerTrustInv, TrustInv, ExactInv
<1>3. CASE ~Restart
  <2>1. [Next]_vars
    BY <1>3, StepsOfTheParts
  <2>2. IInv /\ TypeOK /\ TrustInv /\ ExactInv
    BY DEF ServerTrustInv, ServerIInv, IInv
  <2>3. TrustInv' /\ ExactInv'
    BY <2>1, <2>2, StepTrustInv, StepExactInv
  <2> QED
    BY <1>1, <2>3 DEF ServerTrustInv
<1> QED
  BY <1>2, <1>3

LEMMA ServerTrust == ServerSpec => []ServerTrustInv
<1>1. ServerInit => ServerTrustInv
  <2> SUFFICES ASSUME ServerInit PROVE ServerTrustInv
    OBVIOUS
  <2>1. stage = "idle" /\ DOMAIN seen = {} /\ accepted = <<>>
    BY DEF ServerInit, Init
  <2> QED
    BY <2>1, InitServerIInv DEF ServerTrustInv, TrustInv, ExactInv
<1> QED
  BY <1>1, StepServerTrust, PTL DEF ServerSpec

\* Keys may be changed, and the process restarted, between the check of a key and the grant:
\* every session the server grants is still for a token of a key that its store held for the
\* node while the request was handled.
THEOREM ServerGrantsAreSound == ServerSpec => GrantIsSound
<1>1. ServerTrustInv
        => [answer' = "APPROVE" /\ stage = "recorded" /\ stage' = "idle"
              => request.jws.signer \in vouched]_vars
  BY GrantStep DEF ServerTrustInv
<1> QED
  BY <1>1, ServerTrust, PTL DEF ServerSpec, GrantIsSound

\* The nonce cache of each life of the process holds the lasting acceptances of that life
\* and nothing else, and so every one that could still pass.
THEOREM ServerCacheIsExact == ServerSpec => [](CacheIsExact /\ LiveTokenRemembered)
<1>1. ServerTrustInv => CacheIsExact /\ LiveTokenRemembered
  BY ExactCache, LiveIsSeen DEF ServerTrustInv, ServerIInv, IInv, LiveTokenRemembered
<1> QED
  BY <1>1, ServerTrust, PTL

\* After any number of restarts too, a first use is never taken for a replay.
THEOREM ServerNonceRefusalsEarned == ServerSpec => NonceRefusedOnlyAfterUse
<1> DEFINE Used ==
      stage = "validated" /\ stage' = "idle" /\ answer' = "invalid_nonce"
        => \E t \in Consumed : t.nonce = request.nonce
<1>1. ServerTrustInv /\ [ServerNext]_serverVars => [Used]_vars
  <2> SUFFICES ASSUME ServerTrustInv, [ServerNext]_serverVars,
                      stage = "validated", stage' = "idle", answer' = "invalid_nonce"
               PROVE  Used
    OBVIOUS
  <2>1. ~Restart
    BY DEF Restart, Boot
  <2> QED
    BY <2>1, StepsOfTheParts, VerifiedCache, RefusedNonceStep DEF ServerTrustInv
<1> QED
  BY <1>1, ServerTrust, PTL DEF ServerSpec, NonceRefusedOnlyAfterUse

\* However many requests a client sends and however the clock is corrected, the list kept
\* for its address holds no more than MaxRequests entries.
THEOREM ListsAreBounded == ServerSpec => []HeldBound
<1>1. ServerIInv => HeldBound
  BY DEF ServerIInv, LimiterIInv
<1> QED
  BY <1>1, ServerInvariance, PTL

-----------------------------------------------------------------------------
\* What the answer to a ready call rests on besides fairness: the stages that are left
\* before the handler replies, ...
StagesLeft(s) == [idle |-> 0, recorded |-> 1, validated |-> 2, parsed |-> 3][s]

\* ... that the handler is at work on one call and the next stage has an outcome, ...
HandlerIsNeverStuck ==
    stage # "idle" =>
        /\ \E r \in Call : InHand = {r} /\ request = Body[r]
        /\ stage = "recorded" =>
              /\ accepted # <<>>
              /\ GateVerdicts(request.current_edns, request.cei) # {}

\* ... and that nothing but the next stage, or the end of the process, moves that call, and
\* nothing but its entry a call that waits for the handler.
CallsOnlyAdvance ==
    [][\A r \in Call :
          /\ progress[r] = "handling" =>
                \/ Restart
                \/ UNCHANGED <<stage, request, progress[r]>>
                \/ /\ Continue(r)
                   /\ StagesLeft(stage') < StagesLeft(stage)
                   /\ progress'[r] \in IF stage' = "idle" THEN HandlerAnswer ELSE {"handling"}
          /\ progress[r] = "ready" =>
                \/ Restart
                \/ UNCHANGED progress[r]
                \/ Enter(r) /\ progress'[r] \in {"handling", "400"}]_serverVars

LEMMA HandlingAdvances ==
    ASSUME HandlerInv, [ServerNext]_serverVars, ~Restart, NEW r \in Call, progress[r] = "handling"
    PROVE  \/ UNCHANGED <<stage, request, progress[r]>>
           \/ /\ Continue(r)
              /\ StagesLeft(stage') < StagesLeft(stage)
              /\ progress'[r] \in IF stage' = "idle" THEN HandlerAnswer ELSE {"handling"}
<1>1. /\ r \in InHand /\ stage # "idle" /\ InHand = {r}
      /\ progress \in [Call -> Progress]
  BY DEF HandlerInv, InHand
<1>2. ASSUME NEW q \in Call, Arrive(q) \/ Read(q) \/ Enter(q) PROVE FALSE
  BY <1>1, <1>2 DEF Arrive, Read, Enter, FullValidate
<1>3. ASSUME NEW q \in Call, Continue(q)
      PROVE  /\ Continue(r)
             /\ StagesLeft(stage') < StagesLeft(stage)
             /\ progress'[r] \in IF stage' = "idle" THEN HandlerAnswer ELSE {"handling"}
  <2>1. q = r
    BY <1>1, <1>3 DEF Continue, InHand
  <2>2. Continue(r)
    BY <1>3, <2>1
  <2>3. progress'[r] \in IF stage' = "idle" THEN HandlerAnswer ELSE {"handling"}
    BY <1>1, <2>2, HandlerReplies DEF Continue, Follow
  <2>4. \/ stage = "parsed" /\ stage' \in {"validated", "idle"}
        \/ stage = "validated" /\ stage' \in {"recorded", "idle"}
        \/ stage = "recorded" /\ stage' = "idle"
    BY <2>2 DEF Continue, Handle, ValidateClaims, ValidateNonce, EvaluateGates, Decide,
                Reply, Proceed
  <2>5. StagesLeft(stage') < StagesLeft(stage)
    BY <2>4 DEF StagesLeft
  <2> QED
    BY <2>2, <2>3, <2>5
<1>4. CASE \/ \E n \in Node, k \in Key \cup {NoKey} : Provision(n, k)
           \/ TimePasses
           \/ UNCHANGED serverVars
  BY <1>4 DEF Provision, SetTrust, TimePasses, ClockMoves, serverVars, vars
<1> QED
  BY <1>2, <1>3, <1>4 DEF ServerNext

LEMMA ReadyAdvances ==
    ASSUME HandlerInv, [ServerNext]_serverVars, ~Restart, NEW r \in Call, progress[r] = "ready"
    PROVE  \/ UNCHANGED progress[r]
           \/ Enter(r) /\ progress'[r] \in {"handling", "400"}
<1>1. progress \in [Call -> Progress]
  BY DEF HandlerInv
<1>2. ASSUME NEW q \in Call, Arrive(q) \/ Read(q) PROVE UNCHANGED progress[r]
  BY <1>1, <1>2 DEF Arrive, Read, Move
<1>3. ASSUME NEW q \in Call, Enter(q)
      PROVE  \/ UNCHANGED progress[r]
             \/ Enter(r) /\ progress'[r] \in {"handling", "400"}
  <2>1. CASE q = r
    <3>1. stage' = "idle" => answer' = "400"
      BY <1>3 DEF Enter, FullValidate, Parse, Reply
    <3> QED
      BY <1>1, <1>3, <2>1, <3>1 DEF Enter, Follow
  <2>2. CASE q # r
    BY <1>1, <1>3, <2>2 DEF Enter, Follow
  <2> QED
    BY <2>1, <2>2
<1>4. ASSUME NEW q \in Call, Continue(q) PROVE UNCHANGED progress[r]
  <2>1. q # r
    BY <1>4 DEF Continue
  <2> QED
    BY <1>1, <1>4, <2>1 DEF Continue, Follow
<1>5. CASE \/ \E n \in Node, k \in Key \cup {NoKey} : Provision(n, k)
           \/ TimePasses
           \/ UNCHANGED serverVars
  BY <1>5 DEF Provision, TimePasses, serverVars
<1> QED
  BY <1>2, <1>3, <1>4, <1>5 DEF ServerNext

\* The handler always has a next stage to run and comes nearer to its reply with each; no
\* other step of the server takes a call back.  That the event loop does take the steps is
\* the fairness ServerSpec assumes.
THEOREM AnswersApproach == ServerSpec => []HandlerIsNeverStuck /\ CallsOnlyAdvance
<1>1. ServerIInv => HandlerIsNeverStuck
  <2> SUFFICES ASSUME ServerIInv, stage # "idle"
               PROVE  /\ \E r \in Call : InHand = {r} /\ request = Body[r]
                      /\ stage = "recorded" =>
                            /\ accepted # <<>>
                            /\ GateVerdicts(request.current_edns, request.cei) # {}
    BY DEF HandlerIsNeverStuck
  <2>1. \E r \in Call : InHand = {r} /\ request = Body[r]
    BY DEF ServerIInv, HandlerInv, InHand
  <2>2. request \in Submission
    BY DEF ServerIInv, IInv, TypeOK
  <2>3. request.current_edns \in Ratio /\ request.cei \in CEIMetrics
    BY <2>2, PipelineAssumption DEF SubmissionType
  <2>4. GateVerdicts(request.current_edns, request.cei) # {}
    BY <2>3, VerdictExists
  <2> QED
    BY <2>1, <2>4 DEF ServerIInv, IInv, RecordedInv
<1>2. ServerIInv /\ [ServerNext]_serverVars
        => [\A r \in Call :
              /\ progress[r] = "handling" =>
                    \/ Restart
                    \/ UNCHANGED <<stage, request, progress[r]>>
                    \/ /\ Continue(r)
                       /\ StagesLeft(stage') < StagesLeft(stage)
                       /\ progress'[r] \in IF stage' = "idle" THEN HandlerAnswer ELSE {"handling"}
              /\ progress[r] = "ready" =>
                    \/ Restart
                    \/ UNCHANGED progress[r]
                    \/ Enter(r) /\ progress'[r] \in {"handling", "400"}]_serverVars
  BY HandlingAdvances, ReadyAdvances DEF ServerIInv
<1> QED
  BY <1>1, <1>2, ServerInvariance, PTL DEF ServerSpec, CallsOnlyAdvance
=============================================================================
