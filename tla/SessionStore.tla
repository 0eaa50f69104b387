---------------------------- MODULE SessionStore ----------------------------
(***************************************************************************)
(* The server-side sessions of src/login/session.rs.  Every operation runs   *)
(* under one mutex, so each is one step; what makes the store delicate is    *)
(* that it holds expired sessions until a lookup or a sweep finds them, and   *)
(* that two ceilings, per subject and overall, share its places.             *)
(*                                                                         *)
(* A session is its id, its subject and the monotonic time of its creation.  *)
(***************************************************************************)
EXTENDS Integers, FiniteSets

CONSTANTS
    Ids,             \* session ids
    Subjects,        \* the users
    MaxSessions,     \* MAX_SESSIONS
    MaxPerSubject,   \* MAX_PER_SUBJECT
    Ttl,             \* the session lifetime
    SweepEvery,      \* SWEEP_EVERY
    Horizon          \* bound on the clock

ASSUME CeilingsAssumption == MaxSessions \in Nat \ {0} /\ MaxPerSubject \in Nat \ {0}
ASSUME TimesAssumption == Ttl \in Nat /\ SweepEvery \in Nat /\ Horizon \in Nat
ASSUME IdsAssumption == IsFiniteSet(Ids)

VARIABLES
    clock,       \* the monotonic clock
    sessions,    \* Inner.map
    lastSweep,   \* Inner.last_sweep
    displaced    \* history: how many sessions of others each subject's inserts
                 \* pushed out since somebody else last signed in

vars == <<clock, sessions, lastSweep, displaced>>

Session == [id : Ids, sub : Subjects, created : Nat]

TypeOK ==
    /\ clock \in Nat
    /\ sessions \subseteq Session
    /\ \A s, t \in sessions : s.id = t.id => s = t
    /\ lastSweep \in Nat
    /\ displaced \in [Subjects -> Nat]

Init ==
    /\ clock = 0
    /\ sessions = {}
    /\ lastSweep = 0
    /\ displaced = [u \in Subjects |-> 0]
-----------------------------------------------------------------------------
Of(u, set) == {s \in set : s.sub = u}
Newest(set) == {s \in set : \A t \in set : t.created <= s.created}
Oldest(set) == {s \in set : \A t \in set : s.created <= t.created}

\* An expired session is one whose age reached the lifetime.
Live(s) == clock - s.created < Ttl

\* session.rs:94-96
SweptAtInsert == IF clock - lastSweep >= SweepEvery THEN {s \in sessions : Live(s)} ELSE sessions

TheirsFull(u, held) == Cardinality(Of(u, held)) >= MaxPerSubject
StoreFull(held) == Cardinality(held) >= MaxSessions

\* session.rs:97-107: what an insert for u may evict from what the sweep left.  The
\* subject's own ceiling comes first, then the store's; sessions equally old are
\* the same to min_by_key.  The variants ask in the other order, forget the
\* subject's ceiling, or mistake the newest for the oldest.
StoreCeilingFirst(u, held) ==
    IF StoreFull(held) THEN {{s} : s \in Oldest(held)}
    ELSE IF TheirsFull(u, held) THEN {{s} : s \in Oldest(Of(u, held))}
    ELSE {{}}
StoreCeilingOnly(u, held) == IF StoreFull(held) THEN {{s} : s \in Oldest(held)} ELSE {{}}
NewestGoFirst(u, held) ==
    IF TheirsFull(u, held) THEN {{s} : s \in Newest(Of(u, held))}
    ELSE IF StoreFull(held) THEN {{s} : s \in Newest(held)}
    ELSE {{}}
Evictions(u, held) ==
    IF TheirsFull(u, held) THEN {{s} : s \in Oldest(Of(u, held))}
    ELSE IF StoreFull(held) THEN {{s} : s \in Oldest(held)}
    ELSE {{}}

\* The history: others' sessions lost to u, and the count of everyone else anew.
Displaces(u, evicted) ==
    [v \in Subjects |-> IF v # u THEN 0
                        ELSE displaced[u] + Cardinality({s \in evicted : s.sub # u})]

Insert(id, u) ==
    /\ \A s \in sessions : s.id # id
    /\ \E evicted \in Evictions(u, SweptAtInsert) :
        /\ sessions' = (SweptAtInsert \ evicted)
                           \cup {[id |-> id, sub |-> u, created |-> clock]}
        /\ displaced' = Displaces(u, evicted)
    /\ lastSweep' = IF clock - lastSweep >= SweepEvery THEN clock ELSE lastSweep
    /\ UNCHANGED clock

\* A lookup drops the session it finds expired; it answers with a live one only.
Get(id) ==
    /\ sessions' = {s \in sessions : s.id # id \/ Live(s)}
    /\ UNCHANGED <<clock, lastSweep, displaced>>

Remove(id) ==
    /\ sessions' = {s \in sessions : s.id # id}
    /\ UNCHANGED <<clock, lastSweep, displaced>>

Tick ==
    /\ clock < Horizon
    /\ clock' = clock + 1
    /\ UNCHANGED <<sessions, lastSweep, displaced>>

Next ==
    \/ \E id \in Ids, u \in Subjects : Insert(id, u)
    \/ \E id \in Ids : Get(id) \/ Remove(id)
    \/ Tick

Spec == Init /\ [][Next]_vars
-----------------------------------------------------------------------------
\* session.rs:21-26: both ceilings hold in every state, whichever of them an
\* insert found reached.
Capped ==
    /\ Cardinality(sessions) <= MaxSessions
    /\ \A u \in Subjects : Cardinality(Of(u, sessions)) <= MaxPerSubject

\* README.md:182-183, "one person cannot sign everyone else out": whatever one
\* user does alone - signing in and out, letting sessions expire - costs all the
\* others together no more sessions than one user may hold.
CannotSignOutOthers == \A u \in Subjects : displaced[u] <= MaxPerSubject

\* What an insert by u pushed out although it was still live.
Lost(u) == {s \in sessions : Live(s)} \ sessions'

\* Expired sessions that the lazy sweep left in the store cost nobody a live one:
\* an insert pushes a live session out only if live sessions alone fill a ceiling.
SweepIsLazyButFair ==
    [][\A id \in Ids, u \in Subjects : Insert(id, u) /\ Lost(u) # {} =>
          LET live == {s \in sessions : Live(s)}
          IN  Cardinality(live) = MaxSessions \/ Cardinality(Of(u, live)) = MaxPerSubject]_vars
=============================================================================
