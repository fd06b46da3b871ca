------------------------------ MODULE PdpServer ------------------------------
(***************************************************************************)
(* The policy decision point as one process (app/main.py): every request   *)
(* meets the rate limiter, waits for its body, and is then run through the *)
(* admission pipeline.                                                     *)
(*                                                                         *)
(* The event loop has one thread.  A request is suspended where the        *)
(* limiter awaits call_next and its body is read off the socket, so        *)
(* admitted requests wait side by side and are entered in any order; from  *)
(* the parsing of the body to the reply nothing suspends.  The process may *)
(* be killed and started again between any two steps: create_app and       *)
(* lifespan build the limiter, the trust store and the nonce cache anew.   *)
(* (As main.py stands its import of the mediation middleware fails, since  *)
(* middleware.py has that class by another name: this is the server with   *)
(* that name put right.)                                                   *)
(***************************************************************************)
EXTENDS KnkPipeline, RateLimiter

CONSTANTS
    Call,       \* the requests that clients make; a client's retry is a call of its own
    Caller,     \* Caller[r]: the client address call r comes from
    Body        \* Body[r]: the submission it carries

ASSUME CallAssumption == Caller \in [Call -> Client] /\ Body \in [Call -> Submission]

VARIABLES
    progress,   \* progress[r]: how far call r has come, in the end its answer
    first       \* history: when each token was first accepted, by any life of the process

serverVars == <<vars, limiterVars, progress, first>>

\* Admitted and not answered: its body is awaited, or there, or in the handler.
InServer == {"reading", "ready", "handling"}

\* What a handler may have replied.
HandlerAnswer == Answer \ {"none"}

\* The answers that hold a decision of the gates about the call's token.
GateAnswer == {"APPROVE"} \cup GateReason

\* A call that was answered holds its answer; it is lost when its client hangs up or the
\* process dies.
Progress == {"unsent", "429", "lost"} \cup InServer \cup HandlerAnswer

InHand == {r \in Call : progress[r] = "handling"}

ServerTypeOK ==
    /\ TypeOK
    /\ LimiterTypeOK
    /\ progress \in [Call -> Progress]
    /\ DOMAIN first \subseteq Jws /\ first \in [DOMAIN first -> Int]
    /\ stage = "idle" <=> InHand = {}
    /\ \A r \in InHand : InHand = {r} /\ request = Body[r]

ServerInit ==
    /\ Init
    /\ trusted = [n \in Node |-> NoKey]
    /\ LimiterInit
    /\ progress = [r \in Call |-> "unsent"]
    /\ first = [t \in {} |-> 0]

-----------------------------------------------------------------------------
Move(r, from, to) ==
    /\ progress[r] = from
    /\ progress' = [progress EXCEPT ![r] = to]

\* The limiter decides, and lets an admitted call wait at call_next.
Arrive(r) ==
    /\ stage = "idle"
    /\ \/ Admit(Caller[r]) /\ Move(r, "unsent", "reading")
       \/ Refuse(Caller[r]) /\ Move(r, "unsent", "429")
    /\ UNCHANGED <<vars, first>>

\* The loop is told that the body is complete, or that the client has hung up.
Read(r) ==
    /\ stage = "idle"
    /\ Move(r, "reading", "ready") \/ Move(r, "reading", "lost")
    /\ NoDecision
    /\ UNCHANGED <<vars, first>>

\* A stage of the pipeline has run: the handler goes on, unless it has replied.
Follow(r) ==
    progress' = [progress EXCEPT ![r] = IF stage' = "idle" THEN answer' ELSE "handling"]

\* Mutant: a handler that is entered before the body is there blocks the loop for it.
EnterUnread(r) ==
    /\ stage = "idle"
    /\ \/ progress[r] = "ready" /\ FullValidate(Body[r]) /\ Follow(r)
       \/ /\ progress[r] = "reading"
          /\ Parse(Body[r])
          /\ UNCHANGED <<clock, peak, trusted, seen, accepted, progress>>
    /\ NoDecision
    /\ UNCHANGED first

\* submit_knk is entered with a complete body.
Enter(r) ==
    /\ progress[r] = "ready"
    /\ FullValidate(Body[r])
    /\ Follow(r)
    /\ NoDecision
    /\ UNCHANGED first

\* submit_knk goes on to its next stage.
Continue(r) ==
    /\ progress[r] = "handling"
    /\ Handle
    /\ Follow(r)
    /\ NoDecision
    /\ first' = [t \in DOMAIN first \cup Consumed' |->
                    IF t \in DOMAIN first THEN first[t] ELSE clock]

\* The owner of the trust store loads or removes a key, on a thread of its own.
Provision(n, k) == SetTrust(n, k) /\ NoDecision /\ UNCHANGED <<progress, first>>

TimePasses == ClockMoves /\ NoDecision /\ UNCHANGED <<progress, first>>

\* What lifespan and create_app build: an empty store, an empty cache, empty lists.
Boot ==
    /\ trusted' = [n \in Node |-> NoKey] /\ vouched' = {}
    /\ seen' = [n \in {} |-> 0]
    /\ accepted' = <<>>
    /\ admitted' = [c \in Client |-> <<>>] /\ counts' = [c \in Client |-> {}]
    /\ stage' = "idle" /\ request' = NoRequest /\ answer' = "none"

\* Mutant: calls survive their process.
RestartKeepsCalls == Boot /\ UNCHANGED <<clock, peak, progress, first>>

\* The process dies, and with it all it held, and is started again.  The histories
\* of acceptances and admissions are those of one life of the process.
Restart ==
    /\ Boot
    /\ progress' = [r \in Call |-> IF progress[r] \in InServer THEN "lost" ELSE progress[r]]
    /\ UNCHANGED <<clock, peak, first>>

ServerNext ==
    \/ \E r \in Call : Arrive(r) \/ Read(r) \/ Enter(r) \/ Continue(r)
    \/ \E n \in Node, k \in Key \cup {NoKey} : Provision(n, k)
    \/ TimePasses
    \/ Restart

\* The loop resumes each call that is ready and runs the handler it has entered.
\* Nothing obliges a client to send the rest of its request.
ServerSpec ==
    /\ ServerInit /\ [][ServerNext]_serverVars
    /\ \A r \in Call : WF_serverVars(Enter(r)) /\ WF_serverVars(Continue(r))
-----------------------------------------------------------------------------
\* The ledger is kept by each life of the process, with any number of calls waiting and
\* entered in any order: a token is consumed once and keeps its verdict, and only a restart,
\* which empties the nonce cache, gives a token back.
LedgerBetweenRestarts ==
    [][Restart \/ Ledger!LedgerNext \/ UNCHANGED [t \in Jws |-> FateIn(accepted, t)]]_serverVars

\* A client that is told its nonce is used can rely on a decision: the gates have judged
\* another call that carried the nonce, and that call has had its verdict.  No nonce is
\* used up by a request that fails or is cut off by a restart, although _validate_nonce
\* uses it up before the gates are asked.
ReplayMeansDecided ==
    \A r \in Call : progress[r] = "invalid_nonce" =>
        \E q \in Call : Body[q].nonce = Body[r].nonce /\ progress[q] \in GateAnswer

\* A restart empties _seen_nonces, and a token accepted before it may pass again, but
\* only within ExpBound and twice the skew, plus a correction of the clock, of its first
\* acceptance: a process that has been down for longer replays nothing.
ReplaysAreBrief ==
    [][stage = "parsed" /\ stage' = "validated" /\ request.jws \in DOMAIN first
         => clock - first[request.jws] <= ExpBound + 2 * Skew + MaxBack]_serverVars

\* A call whose body is complete gets its answer, unless the process dies, however many
\* other clients stall in the middle of theirs: none holds the event loop.
EveryReadyCallIsAnswered ==
    \A r \in Call : progress[r] = "ready" ~> progress[r] \in HandlerAnswer \cup {"lost"}
=============================================================================
