--------------------------- MODULE ReplayCacheProofs ---------------------------
(***************************************************************************)
(* Proofs about ReplayCache, for every set of nonces, limit and expiry.    *)
(* An acceptance is placed by two counts, the sweeps (clearings for age)   *)
(* and the overflows before it.  The set holds exactly what was accepted   *)
(* since the last clearing (Held, HeldIsLogged), so two acceptances of a   *)
(* nonce differ in a count (Separated); sweeps are more than Expiry apart  *)
(* (SweepsApart), so within Expiry the sweeps can differ by one only.      *)
(* PaidInv keeps the accounts: how many acceptances the clearings so far   *)
(* allow each nonce, and what the clearings themselves have cost.          *)
(***************************************************************************)
EXTENDS ReplayCache, FiniteSetTheorems, TLAPS

\* The history lags behind the present, and was written in order.
LogLags ==
    \A i \in DOMAIN log :
        /\ log[i].at <= now
        /\ log[i].sweeps <= sweeps
        /\ log[i].overflows <= overflows

LogSorted ==
    \A i, j \in DOMAIN log :
        i < j => /\ log[i].at <= log[j].at
                 /\ log[i].overflows <= log[j].overflows

\* Where an acceptance lies with respect to the last sweep, and the one before.
SweptBefore ==
    \A i \in DOMAIN log :
        /\ log[i].sweeps = sweeps => log[i].at >= last_cleanup
        /\ log[i].sweeps < sweeps => log[i].at <= last_cleanup
        /\ log[i].sweeps + 1 < sweeps => last_cleanup - log[i].at > Expiry

SweepsApart ==
    \A i, j \in DOMAIN log :
        i < j /\ log[i].sweeps + 1 < log[j].sweeps => log[j].at - log[i].at > Expiry

\* The set holds what was accepted since it was last cleared, and nothing else.
Held ==
    \A i \in DOMAIN log :
        log[i].sweeps = sweeps /\ log[i].overflows = overflows => log[i].nonce \in seen

HeldIsLogged ==
    \A n \in seen : \E i \in DOMAIN log : log[i].nonce = n /\ log[i].at >= last_cleanup

Separated ==
    \A i, j \in DOMAIN log :
        i < j /\ log[i].nonce = log[j].nonce
            => log[i].sweeps < log[j].sweeps \/ log[i].overflows < log[j].overflows

SeenFinite == IsFiniteSet(seen)

\* The set never outgrows max_entries, nor one entry where max_entries is zero.
Bounded == Cardinality(seen) <= IF MaxEntries = 0 THEN 1 ELSE MaxEntries

IInv ==
    /\ TypeOK /\ LogLags /\ LogSorted /\ SweptBefore /\ SweepsApart
    /\ Held /\ HeldIsLogged /\ Separated /\ SeenFinite /\ Bounded

\* The accounts of the clearings: a nonce the set does not hold has an acceptance to
\* spare, the time of the last sweep pays for all sweeps, and what the set holds has not
\* paid for an overflow yet.
Accepted(n) == {i \in DOMAIN log : log[i].nonce = n}

AcceptancesPaid ==
    \A n \in Nonce :
        /\ IsFiniteSet(Accepted(n))
        /\ Cardinality(Accepted(n)) <= (IF n \in seen THEN 1 ELSE 0) + sweeps + overflows

SweepsPaid == sweeps * (Expiry + 1) <= last_cleanup

OverflowsPaid ==
    /\ Cardinality(seen) + overflows * MaxEntries <= Len(log)
    /\ overflows > 0 => overflows * MaxEntries < Len(log)

PaidInv == AcceptancesPaid /\ SweepsPaid /\ OverflowsPaid

-----------------------------------------------------------------------------
\* What an acceptance appends: every earlier entry stays as it is.
LEMMA LogGrows ==
    ASSUME TypeOK, NEW e \in Entry, log' = Append(log, e)
    PROVE  /\ log' \in Seq(Entry)
           /\ DOMAIN log' = DOMAIN log \cup {Len(log) + 1}
           /\ Len(log) + 1 \notin DOMAIN log
           /\ \A i \in DOMAIN log : log'[i] = log[i] /\ i < Len(log) + 1
           /\ log'[Len(log) + 1] = e
  BY DEF TypeOK

LEMMA EntryFields ==
    ASSUME TypeOK, NEW i \in DOMAIN log
    PROVE  /\ i \in Nat /\ log[i].nonce \in Nonce /\ log[i].at \in Nat
           /\ log[i].sweeps \in Nat /\ log[i].overflows \in Nat
  <1>1. i \in Nat /\ log[i] \in Entry
    BY DEF TypeOK
  <1>2. QED
    BY <1>1 DEF Entry

\* A sweep leaves an empty set and a later time, or nothing has changed.
LEMMA CleanFacts ==
    ASSUME TypeOK
    PROVE  LET clean == MaybeCleanup
           IN  \/ /\ Stale /\ clean.seen = {} /\ clean.last_cleanup = now
                  /\ clean.sweeps = sweeps + 1
               \/ /\ ~Stale /\ clean.seen = seen /\ clean.last_cleanup = last_cleanup
                  /\ clean.sweeps = sweeps
  BY DEF MaybeCleanup

LEMMA InitEstablishes == Init => IInv
  <1> SUFFICES ASSUME Init PROVE IInv
    OBVIOUS
  <1>1. DOMAIN log = {}
    BY DEF Init
  <1>2. TypeOK
    <2>1. reply \in Reply
      BY DEF Init, Reply
    <2>2. log \in Seq(Entry)
      BY DEF Init
    <2>3. last_cleanup \in 0..now /\ now \in Nat /\ sweeps \in Nat /\ overflows \in Nat
      BY DEF Init
    <2>4. QED
      BY <2>1, <2>2, <2>3 DEF Init, TypeOK
  <1>3. LogLags /\ LogSorted /\ SweptBefore /\ SweepsApart /\ Held /\ Separated
    BY <1>1 DEF LogLags, LogSorted, SweptBefore, SweepsApart, Held, Separated
  <1>4. HeldIsLogged
    BY DEF Init, HeldIsLogged
  <1>5. SeenFinite /\ Bounded
    BY FS_EmptySet, ReplayAssumption DEF Init, SeenFinite, Bounded
  <1>6. QED
    BY <1>2, <1>3, <1>4, <1>5 DEF IInv

LEMMA AdvancePreserves == IInv /\ Advance => IInv'
  <1> SUFFICES ASSUME IInv, Advance PROVE IInv'
    OBVIOUS
  <1> USE DEF IInv
  <1>1. now' \in Nat /\ now <= now' /\ last_cleanup \in Nat
    BY ReplayAssumption DEF Advance, TypeOK
  <1>2. TypeOK'
    BY <1>1 DEF Advance, TypeOK
  <1>3. LogLags'
    <2> SUFFICES ASSUME NEW i \in DOMAIN log PROVE log[i].at <= now'
      BY DEF Advance, LogLags
    <2>1. log[i] \in Entry
      BY DEF TypeOK
    <2>2. QED
      BY <1>1, <2>1 DEF LogLags, TypeOK, Entry
  <1>4. (/\ LogSorted /\ SweptBefore /\ SweepsApart /\ Held /\ HeldIsLogged
         /\ Separated /\ SeenFinite /\ Bounded)'
    BY DEF Advance, LogSorted, SweptBefore, SweepsApart, Held, HeldIsLogged, Separated,
           SeenFinite, Bounded
  <1>5. QED
    BY <1>2, <1>3, <1>4

\* The parts of the invariant that a sweep can disturb, whatever the call then does
\* to the set: they speak of the entries the log already has.
LEMMA SweepPreserves ==
    ASSUME IInv, last_cleanup' = MaybeCleanup.last_cleanup, sweeps' = MaybeCleanup.sweeps,
           now' = now, NEW i \in DOMAIN log
    PROVE  /\ last_cleanup' \in 0..now /\ sweeps' \in Nat
           /\ log[i].sweeps <= sweeps'
           /\ log[i].sweeps = sweeps' => log[i].at >= last_cleanup'
           /\ log[i].sweeps < sweeps' => log[i].at <= last_cleanup'
           /\ log[i].sweeps + 1 < sweeps' => last_cleanup' - log[i].at > Expiry
  <1> USE DEF IInv
  <1>1. /\ log[i].at \in Nat /\ log[i].sweeps \in Nat
        /\ now \in Nat /\ last_cleanup \in 0..now /\ sweeps \in Nat /\ Expiry \in Nat
    BY EntryFields, ReplayAssumption DEF TypeOK
  <1>2. log[i].at <= now /\ log[i].sweeps <= sweeps
    BY DEF LogLags
  <1>3. CASE Stale
    <2>1. last_cleanup' = now /\ sweeps' = sweeps + 1
      BY <1>3, CleanFacts
    <2>2. log[i].sweeps < sweeps => log[i].at <= last_cleanup
      BY DEF SweptBefore
    <2>3. QED
      BY <1>1, <1>2, <1>3, <2>1, <2>2 DEF Stale
  <1>4. CASE ~Stale
    <2>1. last_cleanup' = last_cleanup /\ sweeps' = sweeps
      BY <1>4, CleanFacts
    <2>2. QED
      BY <1>1, <1>2, <2>1 DEF SweptBefore
  <1>5. QED
    BY <1>3, <1>4
-----------------------------------------------------------------------------
LEMMA ReplayedPreserves == ASSUME IInv, NEW n \in Nonce, Replayed(n) PROVE IInv'
  <1> USE DEF IInv
  <1>1. ~Stale /\ seen' = seen /\ last_cleanup' = last_cleanup /\ sweeps' = sweeps
    BY CleanFacts DEF Replayed
  <1>2. now' = now /\ overflows' = overflows /\ log' = log
    BY DEF Replayed
  <1>3. TypeOK'
    <2>1. reply' \in Reply
      BY DEF Replayed, Reply
    <2>2. QED
      BY <1>1, <1>2, <2>1 DEF TypeOK
  <1>4. (/\ LogLags /\ LogSorted /\ SweptBefore /\ SweepsApart /\ Held /\ HeldIsLogged
         /\ Separated /\ SeenFinite /\ Bounded)'
    BY <1>1, <1>2 DEF LogLags, LogSorted, SweptBefore, SweepsApart, Held, HeldIsLogged,
                      Separated, SeenFinite, Bounded
  <1>5. QED
    BY <1>3, <1>4

LEMMA FreshPreserves == ASSUME IInv, NEW n \in Nonce, Fresh(n) PROVE IInv'
  <1> USE DEF IInv
  <1> DEFINE clean == MaybeCleanup
             e == [nonce |-> n, at |-> now, sweeps |-> sweeps', overflows |-> overflows']
             last == Len(log) + 1
  <1>1. /\ n \notin clean.seen
        /\ seen' = (IF Full(clean.seen) THEN {} ELSE clean.seen) \cup {n}
        /\ overflows' = IF Full(clean.seen) THEN overflows + 1 ELSE overflows
        /\ last_cleanup' = clean.last_cleanup /\ sweeps' = clean.sweeps
        /\ log' = Append(log, e) /\ now' = now /\ reply' = [nonce |-> n, fresh |-> TRUE]
    BY DEF Fresh
  <1>2. \/ Stale /\ clean.seen = {} /\ clean.last_cleanup = now /\ clean.sweeps = sweeps + 1
        \/ ~Stale /\ clean.seen = seen /\ clean.last_cleanup = last_cleanup
           /\ clean.sweeps = sweeps
    BY CleanFacts
  <1>3. overflows' \in Nat /\ overflows <= overflows' /\ now \in Nat /\ overflows \in Nat
    BY <1>1 DEF TypeOK
  <1>4. sweeps' \in Nat /\ sweeps <= sweeps' /\ last_cleanup' \in 0..now
    BY <1>1, <1>2 DEF TypeOK
  <1>5. e \in Entry
    BY <1>3, <1>4 DEF Entry
  <1> HIDE DEF e, clean
  <1>6. /\ log' \in Seq(Entry)
        /\ DOMAIN log' = DOMAIN log \cup {last} /\ last \notin DOMAIN log
        /\ \A i \in DOMAIN log : log'[i] = log[i] /\ i < last
        /\ log'[last] = e
    BY <1>1, <1>5, LogGrows
  <1>7. e.nonce = n /\ e.at = now /\ e.sweeps = sweeps' /\ e.overflows = overflows'
    BY DEF e
  <1>8. \A i \in DOMAIN log : i \in Nat
    BY DEF TypeOK
  <1>9. last \in Nat
    BY DEF TypeOK
  <1> HIDE DEF last
  <1>10. \A i \in DOMAIN log :
           /\ log[i].nonce \in Nonce /\ log[i].at \in Nat
           /\ log[i].sweeps \in Nat /\ log[i].overflows \in Nat
    BY EntryFields
  <1>11. \A i \in DOMAIN log :
           /\ log[i].at <= now /\ log[i].sweeps <= sweeps' /\ log[i].overflows <= overflows'
           /\ log[i].sweeps = sweeps' => log[i].at >= last_cleanup'
           /\ log[i].sweeps < sweeps' => log[i].at <= last_cleanup'
           /\ log[i].sweeps + 1 < sweeps' => last_cleanup' - log[i].at > Expiry
    <2> SUFFICES ASSUME NEW i \in DOMAIN log
                 PROVE  /\ log[i].at <= now /\ log[i].sweeps <= sweeps'
                        /\ log[i].overflows <= overflows'
                        /\ log[i].sweeps = sweeps' => log[i].at >= last_cleanup'
                        /\ log[i].sweeps < sweeps' => log[i].at <= last_cleanup'
                        /\ log[i].sweeps + 1 < sweeps' => last_cleanup' - log[i].at > Expiry
      OBVIOUS
    <2>1. log[i].at <= now /\ log[i].overflows <= overflows'
      BY <1>3, <1>10 DEF LogLags
    <2>2. last_cleanup' = MaybeCleanup.last_cleanup /\ sweeps' = MaybeCleanup.sweeps
      BY <1>1 DEF clean
    <2>3. QED
      BY <1>1, <2>1, <2>2, SweepPreserves
  <1>12. TypeOK'
    <2>1. reply' \in Reply
      BY <1>1 DEF Reply
    <2>2. seen' \in SUBSET Nonce
      BY <1>1, <1>2 DEF TypeOK
    <2>3. QED
      BY <1>1, <1>3, <1>4, <1>6, <2>1, <2>2 DEF TypeOK
  <1>13. LogLags'
    BY <1>1, <1>3, <1>4, <1>6, <1>7, <1>11 DEF LogLags
  <1>14. LogSorted'
    <2> SUFFICES ASSUME NEW i \in DOMAIN log', NEW j \in DOMAIN log', i < j
                 PROVE  log'[i].at <= log'[j].at /\ log'[i].overflows <= log'[j].overflows
      BY DEF LogSorted
    <2>1. i \in DOMAIN log
      BY <1>6, <1>8, <1>9
    <2>2. CASE j \in DOMAIN log
      BY <1>6, <2>1, <2>2 DEF LogSorted
    <2>3. CASE j = last
      BY <1>6, <1>7, <1>11, <2>1, <2>3
    <2>4. QED
      BY <1>6, <2>2, <2>3
  <1>15. SweptBefore'
    <2>1. now >= last_cleanup'
      BY <1>3, <1>4
    <2>2. sweeps' \in Nat
      BY <1>4
    <2>3. \A x \in Nat : ~(x < x) /\ ~(x + 1 < x)
      OBVIOUS
    <2>4. QED
      BY <1>6, <1>7, <1>11, <2>1, <2>2, <2>3 DEF SweptBefore
  <1>16. SweepsApart'
    <2> SUFFICES ASSUME NEW i \in DOMAIN log', NEW j \in DOMAIN log', i < j,
                        log'[i].sweeps + 1 < log'[j].sweeps
                 PROVE  log'[j].at - log'[i].at > Expiry
      BY DEF SweepsApart
    <2>1. i \in DOMAIN log
      BY <1>6, <1>8, <1>9
    <2>2. CASE j \in DOMAIN log
      BY <1>6, <2>1, <2>2 DEF SweepsApart
    <2>3. CASE j = last
      <3>1. last_cleanup' - log[i].at > Expiry
        BY <1>6, <1>7, <1>11, <2>1, <2>3
      <3>2. log'[j].at = now /\ log'[i].at = log[i].at
        BY <1>6, <1>7, <2>1, <2>3
      <3>3. QED
        BY <1>3, <1>4, <1>10, <2>1, <3>1, <3>2, ReplayAssumption
    <2>4. QED
      BY <1>6, <2>2, <2>3
  <1>17. Held'
    <2> SUFFICES ASSUME NEW i \in DOMAIN log',
                        log'[i].sweeps = sweeps', log'[i].overflows = overflows'
                 PROVE  log'[i].nonce \in seen'
      BY DEF Held
    <2>1. CASE i = last
      BY <1>1, <1>6, <1>7, <2>1
    <2>2. CASE i \in DOMAIN log
      <3>1. log[i].sweeps = sweeps' /\ log[i].overflows = overflows'
        BY <1>6, <2>2
      <3>2. log[i].sweeps <= sweeps /\ log[i].overflows <= overflows
        BY <2>2 DEF LogLags
      <3>3. ~Stale
        BY <1>1, <1>2, <1>10, <2>2, <3>1, <3>2 DEF TypeOK
      <3>4. ~Full(clean.seen)
        BY <1>1, <1>3, <1>10, <2>2, <3>1, <3>2
      <3>5. log[i].nonce \in seen
        BY <1>1, <1>2, <2>2, <3>1, <3>3, <3>4 DEF Held
      <3>6. QED
        BY <1>1, <1>2, <1>6, <2>2, <3>3, <3>4, <3>5
    <2>3. QED
      BY <1>6, <2>1, <2>2
  <1>18. HeldIsLogged'
    <2> SUFFICES ASSUME NEW m \in seen'
                 PROVE  \E i \in DOMAIN log' : log'[i].nonce = m /\ log'[i].at >= last_cleanup'
      BY DEF HeldIsLogged
    <2>1. CASE m = n
      <3>1. log'[last].nonce = m /\ log'[last].at >= last_cleanup' /\ last \in DOMAIN log'
        BY <1>3, <1>4, <1>6, <1>7, <2>1
      <3>2. QED
        BY <3>1
    <2>2. CASE m # n
      <3>1. ~Stale /\ m \in seen /\ last_cleanup' = last_cleanup
        BY <1>1, <1>2, <2>2
      <3>2. PICK i \in DOMAIN log : log[i].nonce = m /\ log[i].at >= last_cleanup
        BY <3>1 DEF HeldIsLogged
      <3>3. QED
        BY <1>6, <3>1, <3>2
    <2>3. QED
      BY <2>1, <2>2
  <1>19. Separated'
    <2> SUFFICES ASSUME NEW i \in DOMAIN log', NEW j \in DOMAIN log', i < j,
                        log'[i].nonce = log'[j].nonce
                 PROVE  \/ log'[i].sweeps < log'[j].sweeps
                        \/ log'[i].overflows < log'[j].overflows
      BY DEF Separated
    <2>1. i \in DOMAIN log
      BY <1>6, <1>8, <1>9
    <2>2. CASE j \in DOMAIN log
      BY <1>6, <2>1, <2>2 DEF Separated
    <2>3. CASE j = last
      <3>1. log[i].nonce = n
        BY <1>6, <1>7, <2>1, <2>3
      <3>2. CASE Stale
        <4>1. sweeps' = sweeps + 1 /\ log[i].sweeps <= sweeps
          BY <1>1, <1>2, <2>1, <3>2 DEF LogLags
        <4>2. log[i].sweeps < sweeps'
          BY <1>10, <2>1, <4>1 DEF TypeOK
        <4>3. QED
          BY <1>6, <1>7, <2>1, <2>3, <4>2
      <3>3. CASE ~Stale
        <4>1. sweeps' = sweeps /\ n \notin seen
          BY <1>1, <1>2, <3>3
        <4>2. log[i].sweeps # sweeps \/ log[i].overflows # overflows
          BY <2>1, <3>1, <4>1 DEF Held
        <4>3. log[i].sweeps <= sweeps /\ log[i].overflows <= overflows
          BY <2>1 DEF LogLags
        <4>4. log[i].sweeps < sweeps' \/ log[i].overflows < overflows'
          BY <1>3, <1>10, <2>1, <4>1, <4>2, <4>3 DEF TypeOK
        <4>5. QED
          BY <1>6, <1>7, <2>1, <2>3, <4>4
      <3>4. QED
        BY <3>2, <3>3
    <2>4. QED
      BY <1>6, <2>2, <2>3
  <1>20. SeenFinite' /\ Bounded'
    <2>1. IsFiniteSet(clean.seen)
      BY <1>2, FS_EmptySet DEF SeenFinite
    <2>2. Cardinality(clean.seen) \in Nat
      BY <2>1, FS_CardinalityType
    <2>3. CASE Full(clean.seen)
      <3>1. seen' = {n}
        BY <1>1, <2>3
      <3>2. IsFiniteSet(seen') /\ Cardinality(seen') = 1
        BY <3>1, FS_Singleton
      <3>3. QED
        BY <3>2, ReplayAssumption DEF SeenFinite, Bounded
    <2>4. CASE ~Full(clean.seen)
      <3>1. seen' = clean.seen \cup {n}
        BY <1>1, <2>4
      <3>2. IsFiniteSet(seen') /\ Cardinality(seen') = Cardinality(clean.seen) + 1
        BY <1>1, <2>1, <3>1, FS_AddElement
      <3>3. Cardinality(clean.seen) < MaxEntries
        BY <2>2, <2>4, ReplayAssumption DEF Full
      <3>4. QED
        BY <2>2, <3>2, <3>3, ReplayAssumption DEF SeenFinite, Bounded
    <2>5. QED
      BY <2>3, <2>4
  <1>21. QED
    BY <1>12, <1>13, <1>14, <1>15, <1>16, <1>17, <1>18, <1>19, <1>20

\* IInv is inductive.
LEMMA NextPreserves == IInv /\ [Next]_vars => IInv'
  <1> SUFFICES ASSUME IInv, [Next]_vars PROVE IInv'
    OBVIOUS
  <1>1. CASE Advance
    BY <1>1, AdvancePreserves
  <1>2. CASE \E n \in Nonce : CheckAndAdd(n)
    BY <1>2, ReplayedPreserves, FreshPreserves DEF CheckAndAdd
  <1>3. CASE UNCHANGED vars
    BY <1>3 DEF vars, IInv, TypeOK, LogLags, LogSorted, SweptBefore, SweepsApart, Held,
                HeldIsLogged, Separated, SeenFinite, Bounded
  <1>4. QED
    BY <1>1, <1>2, <1>3 DEF Next

\* The inductive invariant holds of every reachable state of the cache.
THEOREM Invariance == Spec => []IInv
  BY InitEstablishes, NextPreserves, PTL DEF Spec

-----------------------------------------------------------------------------
\* Every variable keeps its type.
THEOREM TypeCorrect == Spec => []TypeOK
  <1>1. IInv => TypeOK
    BY DEF IInv
  <1>2. QED
    BY <1>1, Invariance, PTL

\* check_and_add keeps the set within max_entries, whatever is asked and when.
THEOREM CacheIsBounded == Spec => []Bounded
  <1>1. IInv => Bounded
    BY DEF IInv
  <1>2. QED
    BY <1>1, Invariance, PTL

\* A third acceptance of a nonce within the expiry takes an overflow.
THEOREM ThriceTakesOverflow == Spec => []ThriceOnlyOnOverflow
  <1>1. IInv => ThriceOnlyOnOverflow
    <2> SUFFICES ASSUME IInv, NEW i \in DOMAIN log, NEW j \in DOMAIN log, NEW k \in DOMAIN log,
                        i < j, j < k, log[i].nonce = log[j].nonce, log[j].nonce = log[k].nonce,
                        log[k].at - log[i].at <= Expiry
                 PROVE  log[k].overflows > log[i].overflows
      BY DEF ThriceOnlyOnOverflow
    <2>1. /\ i < k
          /\ \A x \in {i, j, k} : /\ log[x].sweeps \in Nat /\ log[x].overflows \in Nat
                                  /\ log[x].at \in Nat
      BY EntryFields DEF IInv
    <2>2. log[i].overflows <= log[j].overflows /\ log[j].overflows <= log[k].overflows
      BY DEF IInv, LogSorted
    <2>3. /\ log[i].sweeps < log[j].sweeps \/ log[i].overflows < log[j].overflows
          /\ log[j].sweeps < log[k].sweeps \/ log[j].overflows < log[k].overflows
      BY DEF IInv, Separated
    <2>4. ~(log[i].sweeps + 1 < log[k].sweeps)
      BY <2>1, ReplayAssumption DEF IInv, SweepsApart
    <2>5. QED
      BY <2>1, <2>2, <2>3, <2>4
  <1>2. QED
    BY <1>1, Invariance, PTL

\* A refusal names a nonce that was accepted within the expiry.
THEOREM RefusalsAreRecent == Spec => RefusedOnlyWithinExpiry
  <1> DEFINE Justified ==
        \A n \in Nonce : now' = now /\ reply' = [nonce |-> n, fresh |-> FALSE]
            => \E i \in DOMAIN log : log[i].nonce = n /\ now - log[i].at <= Expiry
  <1>1. IInv /\ [Next]_vars => [Justified]_vars
    <2> SUFFICES ASSUME IInv, Next, NEW n \in Nonce,
                        reply' = [nonce |-> n, fresh |-> FALSE], vars' # vars, now' = now
                 PROVE  \E i \in DOMAIN log : log[i].nonce = n /\ now - log[i].at <= Expiry
      BY Zenon DEF vars
    <2>1. ~Advance
      BY DEF Advance, vars
    <2>2. PICK m \in Nonce : CheckAndAdd(m)
      BY <2>1 DEF Next
    <2>3. Replayed(n)
      BY <2>2 DEF CheckAndAdd, Replayed, Fresh
    <2>4. ~Stale /\ n \in seen
      BY <2>3, CleanFacts DEF Replayed, IInv
    <2>5. PICK i \in DOMAIN log : log[i].nonce = n /\ log[i].at >= last_cleanup
      BY <2>4 DEF IInv, HeldIsLogged
    <2>6. log[i].at \in Nat /\ last_cleanup \in Nat /\ now \in Nat
      BY EntryFields DEF IInv, TypeOK
    <2>7. now - log[i].at <= Expiry
      BY <2>4, <2>5, <2>6, ReplayAssumption DEF Stale
    <2>8. QED
      BY <2>5, <2>7
  <1>2. QED
    BY <1>1, Invariance, PTL DEF Spec, RefusedOnlyWithinExpiry

-----------------------------------------------------------------------------
\* A multiple grows with its factor by what it is a multiple of.
LEMMA OneMore ==
    ASSUME NEW k \in Nat, NEW size \in Nat
    PROVE  k * size \in Nat /\ (k + 1) * size = k * size + size
  OBVIOUS

\* A sweep frees an acceptance of every nonce, and is paid for by the time since the last.
LEMMA CleanPaid ==
    ASSUME IInv, PaidInv
    PROVE  LET clean == MaybeCleanup
           IN  /\ IsFiniteSet(clean.seen) /\ Cardinality(clean.seen) \in Nat
               /\ Cardinality(clean.seen) <= Cardinality(seen)
               /\ clean.sweeps \in Nat
               /\ clean.sweeps * (Expiry + 1) <= clean.last_cleanup
               /\ \A n \in Nonce : Cardinality(Accepted(n))
                                    <= (IF n \in clean.seen THEN 1 ELSE 0) + clean.sweeps + overflows
  <1> DEFINE clean == MaybeCleanup
  <1>1. /\ now \in Nat /\ last_cleanup \in Nat /\ sweeps \in Nat /\ overflows \in Nat
        /\ Expiry + 1 \in Nat
    BY ReplayAssumption DEF IInv, TypeOK
  <1>2. IsFiniteSet(seen) /\ Cardinality(seen) \in Nat /\ Cardinality({}) = 0 /\ IsFiniteSet({})
    BY FS_EmptySet, FS_CardinalityType DEF IInv, SeenFinite
  <1>3. \A n \in Nonce :
          /\ Cardinality(Accepted(n)) \in Nat
          /\ Cardinality(Accepted(n)) <= (IF n \in seen THEN 1 ELSE 0) + sweeps + overflows
    BY FS_CardinalityType DEF PaidInv, AcceptancesPaid
  <1>4. sweeps * (Expiry + 1) <= last_cleanup
    BY DEF PaidInv, SweepsPaid
  <1>5. CASE /\ Stale /\ clean.seen = {} /\ clean.last_cleanup = now
             /\ clean.sweeps = sweeps + 1
    <2>1. (sweeps + 1) * (Expiry + 1) = sweeps * (Expiry + 1) + (Expiry + 1)
          /\ sweeps * (Expiry + 1) \in Nat
      BY <1>1, OneMore
    <2>2. (sweeps + 1) * (Expiry + 1) <= now
      BY <1>1, <1>4, <1>5, <2>1, ReplayAssumption DEF Stale
    <2>3. \A n \in Nonce : Cardinality(Accepted(n)) <= 0 + (sweeps + 1) + overflows
      BY <1>1, <1>3
    <2>4. QED
      BY <1>1, <1>2, <1>5, <2>2, <2>3
  <1>6. CASE clean.seen = seen /\ clean.last_cleanup = last_cleanup /\ clean.sweeps = sweeps
    BY <1>1, <1>2, <1>3, <1>4, <1>6
  <1>7. QED
    BY <1>5, <1>6, CleanFacts DEF IInv

LEMMA FreshPaid == ASSUME IInv, IInv', PaidInv, NEW n \in Nonce, Fresh(n) PROVE PaidInv'
  <1> DEFINE clean == MaybeCleanup
             e == [nonce |-> n, at |-> now, sweeps |-> sweeps', overflows |-> overflows']
             last == Len(log) + 1
  <1>1. /\ n \notin clean.seen
        /\ seen' = (IF Full(clean.seen) THEN {} ELSE clean.seen) \cup {n}
        /\ overflows' = IF Full(clean.seen) THEN overflows + 1 ELSE overflows
        /\ last_cleanup' = clean.last_cleanup /\ sweeps' = clean.sweeps
        /\ log' = Append(log, e) /\ now' = now
    BY DEF Fresh
  <1>2. /\ IsFiniteSet(clean.seen) /\ Cardinality(clean.seen) \in Nat
        /\ Cardinality(clean.seen) <= Cardinality(seen)
        /\ clean.sweeps \in Nat
        /\ clean.sweeps * (Expiry + 1) <= clean.last_cleanup
        /\ \A m \in Nonce : Cardinality(Accepted(m))
                             <= (IF m \in clean.seen THEN 1 ELSE 0) + clean.sweeps + overflows
    BY CleanPaid
  <1> HIDE DEF clean
  <1>3. overflows \in Nat /\ Len(log) \in Nat /\ MaxEntries \in Nat /\ Cardinality(seen) \in Nat
    BY ReplayAssumption, FS_CardinalityType DEF IInv, TypeOK, SeenFinite
  <1>4. e \in Entry
    BY <1>1, <1>2, <1>3 DEF IInv, TypeOK, Entry
  <1>5. /\ DOMAIN log' = DOMAIN log \cup {last} /\ last \notin DOMAIN log
        /\ \A i \in DOMAIN log : log'[i] = log[i]
        /\ log'[last].nonce = n
        /\ Len(log') = Len(log) + 1
    <2>1. log'[last] = e
      BY <1>1, <1>4, LogGrows DEF IInv
    <2>2. Len(log') = Len(log) + 1
      BY <1>1 DEF IInv, TypeOK
    <2>3. QED
      BY <1>1, <1>4, <2>1, <2>2, LogGrows DEF IInv
  <1>6. SweepsPaid'
    BY <1>1, <1>2 DEF SweepsPaid
  <1>7. /\ sweeps \in Nat /\ sweeps' \in Nat /\ overflows \in Nat /\ overflows' \in Nat
        /\ overflows <= overflows'
    BY <1>1, <1>2, <1>3 DEF IInv, TypeOK
  <1>8. Full(clean.seen) => overflows' = overflows + 1
    BY <1>1
  <1>9. AcceptancesPaid'
    <2> SUFFICES ASSUME NEW m \in Nonce
                 PROVE  /\ IsFiniteSet(Accepted(m)')
                        /\ Cardinality(Accepted(m)')
                             <= (IF m \in seen' THEN 1 ELSE 0) + sweeps' + overflows'
      BY DEF AcceptancesPaid
    <2>1. /\ IsFiniteSet(Accepted(m)) /\ Cardinality(Accepted(m)) \in Nat
          /\ Cardinality(Accepted(m))
               <= (IF m \in clean.seen THEN 1 ELSE 0) + sweeps' + overflows
      BY <1>1, <1>2, FS_CardinalityType DEF PaidInv, AcceptancesPaid
    <2>2. CASE m = n
      <3>1. Accepted(m)' = Accepted(m) \cup {last} /\ last \notin Accepted(m)
        BY <1>5, <2>2 DEF Accepted
      <3>2. /\ IsFiniteSet(Accepted(m)')
            /\ Cardinality(Accepted(m)') = Cardinality(Accepted(m)) + 1
        BY <2>1, <3>1, FS_AddElement
      <3>3. m \in seen' /\ m \notin clean.seen
        BY <1>1, <2>2
      <3>4. Cardinality(Accepted(m)) <= sweeps' + overflows
        BY <1>7, <2>1, <3>3
      <3>5. Cardinality(Accepted(m)') <= 1 + sweeps' + overflows'
        BY <1>7, <2>1, <3>2, <3>4
      <3>6. QED
        BY <3>2, <3>3, <3>5
    <2>3. CASE m # n
      <3>1. Accepted(m)' = Accepted(m)
        BY <1>5, <2>3 DEF Accepted
      <3>2. CASE Full(clean.seen)
        <4>1. Cardinality(Accepted(m)) <= sweeps' + overflows'
          BY <1>7, <1>8, <2>1, <3>2
        <4>2. QED
          BY <1>7, <2>1, <3>1, <4>1
      <3>3. CASE ~Full(clean.seen)
        <4>1. (m \in seen' <=> m \in clean.seen) /\ overflows' = overflows
          BY <1>1, <2>3, <3>3
        <4>2. QED
          BY <2>1, <3>1, <4>1
      <3>4. QED
        BY <3>2, <3>3
    <2>4. QED
      BY <2>2, <2>3
  <1>10. OverflowsPaid'
    <2>1. /\ Cardinality(clean.seen) + overflows * MaxEntries <= Len(log)
          /\ overflows > 0 => overflows * MaxEntries < Len(log)
          /\ overflows * MaxEntries \in Nat
          /\ (overflows + 1) * MaxEntries = overflows * MaxEntries + MaxEntries
      BY <1>2, <1>3, OneMore DEF PaidInv, OverflowsPaid
    <2>2. CASE Full(clean.seen)
      <3>1. Cardinality(seen') = 1 /\ overflows' = overflows + 1
        BY <1>1, <2>2, FS_Singleton
      <3>2. overflows' * MaxEntries \in Nat /\ overflows' * MaxEntries <= Len(log)
        BY <1>2, <1>3, <2>1, <2>2, <3>1 DEF Full
      <3>3. PICK paid \in Nat : paid = overflows' * MaxEntries
        BY <3>2
      <3>4. 1 + paid <= Len(log') /\ paid < Len(log')
        BY <1>3, <1>5, <3>2, <3>3
      <3>5. QED
        BY <3>1, <3>3, <3>4 DEF OverflowsPaid
    <2>3. CASE ~Full(clean.seen)
      <3>1. Cardinality(seen') = Cardinality(clean.seen) + 1 /\ overflows' = overflows
        BY <1>1, <1>2, <2>3, FS_AddElement
      <3>2. PICK paid \in Nat : paid = overflows * MaxEntries
        BY <2>1
      <3>3. /\ Cardinality(clean.seen) + 1 + paid <= Len(log')
            /\ overflows > 0 => paid < Len(log')
        BY <1>2, <1>3, <1>5, <2>1, <3>2
      <3>4. QED
        BY <3>1, <3>2, <3>3 DEF OverflowsPaid
    <2>4. QED
      BY <2>2, <2>3
  <1>11. QED
    BY <1>6, <1>9, <1>10 DEF PaidInv

LEMMA StepPaid == IInv /\ IInv' /\ PaidInv /\ [Next]_vars => PaidInv'
  <1> SUFFICES ASSUME IInv, IInv', PaidInv, [Next]_vars PROVE PaidInv'
    OBVIOUS
  <1>1. CASE UNCHANGED <<seen, last_cleanup, sweeps, overflows, log>>
    BY <1>1 DEF PaidInv, AcceptancesPaid, Accepted, SweepsPaid, OverflowsPaid
  <1>2. ASSUME NEW n \in Nonce, Replayed(n) PROVE PaidInv'
    BY <1>1, <1>2, CleanFacts DEF Replayed, IInv
  <1>3. ASSUME NEW n \in Nonce, Fresh(n) PROVE PaidInv'
    BY <1>3, FreshPaid
  <1>4. QED
    BY <1>1, <1>2, <1>3 DEF Next, Advance, CheckAndAdd, vars

LEMMA InitPaid == Init => PaidInv
  <1> SUFFICES ASSUME Init PROVE PaidInv
    OBVIOUS
  <1>1. /\ Cardinality({}) = 0 /\ IsFiniteSet({}) /\ seen = {} /\ DOMAIN log = {} /\ Len(log) = 0
        /\ sweeps = 0 /\ overflows = 0 /\ last_cleanup = 0
        /\ MaxEntries \in Nat /\ Expiry \in Nat
    BY FS_EmptySet, ReplayAssumption DEF Init
  <1>2. \A n \in Nonce : Accepted(n) = {}
    BY <1>1 DEF Accepted
  <1>3. AcceptancesPaid
    BY <1>1, <1>2 DEF AcceptancesPaid
  <1>4. SweepsPaid /\ OverflowsPaid
    <2>1. 0 * (Expiry + 1) = 0 /\ 0 * MaxEntries = 0
      BY <1>1
    <2>2. QED
      BY <1>1, <2>1 DEF SweepsPaid, OverflowsPaid
  <1>5. QED
    BY <1>3, <1>4 DEF PaidInv

\* A nonce passes a second time, a third, and so on only for as many clearings, and these
\* cost time or acceptances: for every limit, expiry and number of calls.
THEOREM RepeatsCost == Spec => []RepeatsArePaidFor
  <1>1. IInv /\ PaidInv => RepeatsArePaidFor
    <2> SUFFICES ASSUME IInv, PaidInv PROVE RepeatsArePaidFor
      OBVIOUS
    <2>1. sweeps \in Nat /\ overflows \in Nat /\ last_cleanup \in Nat /\ now \in Nat
          /\ last_cleanup <= now /\ Expiry \in Nat
      BY ReplayAssumption DEF IInv, TypeOK
    <2>2. sweeps * (Expiry + 1) <= now
      <3>1. sweeps * (Expiry + 1) \in Nat
        BY <2>1, OneMore
      <3>2. QED
        BY <2>1, <3>1 DEF PaidInv, SweepsPaid
    <2>3. \A n \in Nonce : Acceptances(n) <= 1 + sweeps + overflows
      <3> SUFFICES ASSUME NEW n \in Nonce PROVE Acceptances(n) <= 1 + sweeps + overflows
        OBVIOUS
      <3>1. Acceptances(n) = Cardinality(Accepted(n))
        BY DEF Acceptances, Accepted
      <3>2. Cardinality(Accepted(n)) \in Nat
        BY FS_CardinalityType DEF PaidInv, AcceptancesPaid
      <3>3. QED
        BY <2>1, <3>1, <3>2 DEF PaidInv, AcceptancesPaid
    <2>4. QED
      BY <2>2, <2>3 DEF RepeatsArePaidFor, PaidInv, OverflowsPaid
  <1>2. QED
    BY <1>1, InitPaid, StepPaid, Invariance, PTL DEF Spec
=============================================================================
