------------------------------ MODULE RateGate ------------------------------
(***************************************************************************)
(* What a rate-limited, single-flight call to the identity provider         *)
(* promises the provider: one call at a time, and two calls begin at least   *)
(* Interval apart, however many callers there are and whatever the calls     *)
(* answer.  JwksStore (auth.rs) implements it, and Discovery (provider.rs) does *)
(* with its key refreshes.                                                  *)
(***************************************************************************)
EXTENDS Integers

CONSTANT Interval      \* the least time between the starts of two calls, a Nat above 0

VARIABLES
    clock,     \* the current time
    started,   \* when the latest call began, Never if none did
    active,    \* a call is in flight
    calls      \* how many calls have begun

vars == <<clock, started, active, calls>>

Never == -1

TypeOK ==
    /\ clock \in Nat
    /\ started \in Nat \cup {Never}
    /\ active \in BOOLEAN
    /\ calls \in Nat

Init ==
    /\ clock = 0
    /\ started = Never
    /\ active = FALSE
    /\ calls = 0

Begin ==
    /\ ~active
    /\ started # Never => clock >= started + Interval
    /\ started' = clock
    /\ active' = TRUE
    /\ calls' = calls + 1
    /\ UNCHANGED clock

End ==
    /\ active
    /\ active' = FALSE
    /\ UNCHANGED <<clock, started, calls>>

Tick ==
    /\ clock' = clock + 1
    /\ UNCHANGED <<started, active, calls>>

Next == Begin \/ End \/ Tick

Spec == Init /\ [][Next]_vars
-----------------------------------------------------------------------------
\* The provider's view of the limit: by time t it has seen at most one call for
\* every Interval that has begun, whatever the load (auth.rs:24-25).
Budget == calls > 0 => (calls - 1) * Interval <= clock
=============================================================================
