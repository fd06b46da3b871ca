------------------------------ MODULE WallClock ------------------------------
(***************************************************************************)
(* The wall clock every component of the policy decision point reads with  *)
(* time.time().  It is not monotone: an NTP correction may set it back, by *)
(* at most MaxBack below the highest value it has shown.  One tick is one  *)
(* unit of the code's second-valued constants, scaled down by the models.  *)
(***************************************************************************)
EXTENDS Integers

CONSTANTS
    Horizon,    \* bound: the clock is followed up to this tick
    MaxBack     \* how far below its peak a correction may set the clock

ASSUME ClockAssumption == Horizon \in Nat /\ MaxBack \in Nat

VARIABLES
    clock,      \* what time.time() returns now
    peak        \* the highest value clock has had

clockVars == <<clock, peak>>

ClockTypeOK == clock \in Int /\ peak \in Int

ClockInit == clock = 0 /\ peak = 0

Tick ==
    /\ clock < Horizon
    /\ clock' = clock + 1
    /\ peak' = IF clock' > peak THEN clock' ELSE peak

StepBack ==
    /\ \E back \in 1..MaxBack : clock' = clock - back
    /\ peak - clock' <= MaxBack
    /\ UNCHANGED peak

\* Every correction leaves the clock within MaxBack of its peak.
ClockInv == clock <= peak /\ peak - clock <= MaxBack
=============================================================================
