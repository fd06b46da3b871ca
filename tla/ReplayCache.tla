----------------------------- MODULE ReplayCache -----------------------------
(***************************************************************************)
(* ReplayProtectionCache of the access controller                          *)
(* (nhp_ac/src/protocol/replay.rs): a set of nonces that check_and_add     *)
(* clears as a whole, when more than Expiry has passed since it was last   *)
(* cleared for its age, and when a new nonce finds it full.  Instant is    *)
(* monotone.  The methods take &mut self: a call is one action.            *)
(***************************************************************************)
EXTENDS Integers, Sequences, FiniteSets

CONSTANTS
    Nonce,          \* nonce strings
    MaxEntries,     \* max_entries
    Expiry,         \* expiry
    Horizon,        \* bound: time is followed up to this tick
    MaxLog          \* bound: so many nonces are accepted

ASSUME ReplayAssumption ==
    MaxEntries \in Nat /\ Expiry \in Nat /\ Horizon \in Nat /\ MaxLog \in Nat

VARIABLES
    now,            \* Instant::now()
    seen,
    last_cleanup,
    reply,          \* the last answer of check_and_add, and the nonce it is about
    sweeps,         \* history: how often the set was cleared for its age
    overflows,      \* history: how often it was cleared because it was full
    log             \* history: the nonces found fresh, each with the time and the two counts

vars == <<now, seen, last_cleanup, reply, sweeps, overflows, log>>

Reply == [nonce : Nonce, fresh : BOOLEAN]

Entry == [nonce : Nonce, at : Nat, sweeps : Nat, overflows : Nat]

TypeOK ==
    /\ now \in Nat /\ last_cleanup \in 0..now
    /\ seen \in SUBSET Nonce
    /\ reply \in Reply
    /\ sweeps \in Nat /\ overflows \in Nat
    /\ log \in Seq(Entry)

Init ==
    /\ now = 0 /\ last_cleanup = 0
    /\ seen = {}
    /\ reply \in [nonce : Nonce, fresh : {TRUE}]
    /\ sweeps = 0 /\ overflows = 0
    /\ log = <<>>

\* At the bound, time stands still.
Advance ==
    /\ now' = IF now < Horizon THEN now + 1 ELSE now
    /\ UNCHANGED <<seen, last_cleanup, reply, sweeps, overflows, log>>

Stale == now - last_cleanup > Expiry

\* Mutants: the set is never cleared for its age; it is, but the time is not noted,
\* or the time of the next clearing is.
MaybeCleanupNever == [seen |-> seen, last_cleanup |-> last_cleanup, sweeps |-> sweeps]
MaybeCleanupForgetsTime ==
    IF Stale THEN [seen |-> {}, last_cleanup |-> last_cleanup, sweeps |-> sweeps + 1]
             ELSE [seen |-> seen, last_cleanup |-> last_cleanup, sweeps |-> sweeps]
MaybeCleanupNotesNext ==
    IF Stale THEN [seen |-> {}, last_cleanup |-> now + Expiry, sweeps |-> sweeps + 1]
             ELSE [seen |-> seen, last_cleanup |-> last_cleanup, sweeps |-> sweeps]

\* What maybe_cleanup leaves.
MaybeCleanup ==
    IF Stale THEN [seen |-> {}, last_cleanup |-> now, sweeps |-> sweeps + 1]
             ELSE [seen |-> seen, last_cleanup |-> last_cleanup, sweeps |-> sweeps]

\* Mutant: the set is found full one nonce too early.
FullEarly(kept) == Cardinality(kept) + 1 >= MaxEntries

Full(kept) == Cardinality(kept) >= MaxEntries

\* check_and_add of a nonce the set holds, ...
Replayed(n) ==
    LET clean == MaybeCleanup
    IN  /\ n \in clean.seen
        /\ seen' = clean.seen
        /\ last_cleanup' = clean.last_cleanup
        /\ sweeps' = clean.sweeps
        /\ reply' = [nonce |-> n, fresh |-> FALSE]
        /\ UNCHANGED <<now, overflows, log>>

\* ... and of one it does not: a full set is emptied before the nonce is added.
Fresh(n) ==
    LET clean == MaybeCleanup
    IN  /\ n \notin clean.seen
        /\ Len(log) < MaxLog
        /\ seen' = (IF Full(clean.seen) THEN {} ELSE clean.seen) \cup {n}
        /\ overflows' = IF Full(clean.seen) THEN overflows + 1 ELSE overflows
        /\ last_cleanup' = clean.last_cleanup
        /\ sweeps' = clean.sweeps
        /\ log' = Append(log, [nonce |-> n, at |-> now, sweeps |-> sweeps',
                               overflows |-> overflows'])
        /\ reply' = [nonce |-> n, fresh |-> TRUE]
        /\ UNCHANGED now

CheckAndAdd(n) == Replayed(n) \/ Fresh(n)

Next == Advance \/ \E n \in Nonce : CheckAndAdd(n)

Spec == Init /\ [][Next]_vars
-----------------------------------------------------------------------------
\* check_and_add never calls a nonce a replay that was not found fresh within the
\* expiry: the coarse clearing costs memory of replays, never a genuine nonce.
RefusedOnlyWithinExpiry ==
    [][\A n \in Nonce : now' = now /\ reply' = [nonce |-> n, fresh |-> FALSE]
          => \E i \in DOMAIN log : log[i].nonce = n /\ now - log[i].at <= Expiry]_vars

\* Clearing for age happens at most once in any span of Expiry: a nonce is found
\* fresh three times in such a span only if the set overflowed in between.
ThriceOnlyOnOverflow ==
    \A i, j, k \in DOMAIN log :
        /\ i < j /\ j < k
        /\ log[i].nonce = log[j].nonce /\ log[j].nonce = log[k].nonce
        /\ log[k].at - log[i].at <= Expiry
        => log[k].overflows > log[i].overflows

\* How often check_and_add has found a nonce fresh.
Acceptances(n) == Cardinality({i \in DOMAIN log : log[i].nonce = n})

\* Nothing but a clearing makes check_and_add take a replay for a fresh nonce, once for
\* each nonce; a clearing for age costs more than Expiry of time, and a clearing for want
\* of room MaxEntries acceptances of its own, and the one that brings it about.
RepeatsArePaidFor ==
    /\ \A n \in Nonce : Acceptances(n) <= 1 + sweeps + overflows
    /\ sweeps * (Expiry + 1) <= now
    /\ overflows > 0 => overflows * MaxEntries < Len(log)

\* replay.rs:4 "using a time-based sliding window" and :7 "Nonces are automatically
\* evicted after the expiry duration": a nonce is found fresh again only after it.
RememberedForExpiry ==
    \A i, j \in DOMAIN log :
        i < j /\ log[i].nonce = log[j].nonce => log[j].at - log[i].at > Expiry
=============================================================================
