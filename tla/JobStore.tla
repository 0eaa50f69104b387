------------------------------ MODULE JobStore ------------------------------
(***************************************************************************)
(* The in-memory store of asynchronous jobs of src/jobs.rs, with the callers *)
(* its documentation names: handlers that create jobs, one worker per job    *)
(* that records its progress, late if it likes, and a periodic sweeper.  The *)
(* store's lock makes each operation one step, except the sweep, which reads *)
(* the clock before it waits for the lock.                                   *)
(***************************************************************************)
EXTENDS Integers, FiniteSets

CONSTANTS
    Ids,        \* job ids, each issued at most once
    Limit,      \* the cap the handlers pass to try_create_under
    Ttl,        \* the age the sweeper passes to evict_terminal_older_than
    Horizon,    \* bound on the clock
    None        \* the sweeper is not waiting for the lock

ASSUME LimitAssumption == Limit \in Nat
ASSUME TimesAssumption == Ttl \in Nat /\ Horizon \in Nat /\ None \notin Nat

VARIABLES
    clock,     \* the monotonic clock
    jobs,      \* the map, as the set of its entries
    issued,    \* history: the ids handed out
    worker,    \* what each job's worker does next
    now        \* the sweeper's clock reading, None between two sweeps

vars == <<clock, jobs, issued, worker, now>>

Terminal == {"Done", "Failed"}
Statuses == {"Pending", "Running"} \cup Terminal
Job == [id : Ids, status : Statuses, updated : Nat]
Tracked == {j.id : j \in jobs}

TypeOK ==
    /\ clock \in Nat
    /\ jobs \subseteq Job
    /\ \A i, j \in jobs : i.id = j.id => i = j
    /\ Tracked \subseteq issued /\ issued \subseteq Ids
    /\ worker \in [Ids -> {"start", "finish", "ended"}]
    /\ now \in Nat \cup {None}
    /\ now # None => now <= clock
    /\ \A j \in jobs : j.updated <= clock

Init ==
    /\ clock = 0
    /\ jobs = {}
    /\ issued = {}
    /\ worker = [i \in Ids |-> "start"]
    /\ now = None
-----------------------------------------------------------------------------
\* jobs.rs:50; the variant counts only what is still in flight.
CountsInFlightOnly == Cardinality({j \in jobs : j.status \notin Terminal}) >= Limit
AtCapacity == Cardinality(jobs) >= Limit

TryCreateUnder(i) ==
    /\ i \notin issued
    /\ ~AtCapacity
    /\ jobs' = jobs \cup {[id |-> i, status |-> "Pending", updated |-> clock]}
    /\ issued' = issued \cup {i}
    /\ UNCHANGED <<clock, worker, now>>

\* jobs.rs:59-64: an update of a job that is gone does nothing; as an upsert it
\* would bring the job back, and without its time the result would be born old.
Entry(i, status) == [id |-> i, status |-> status, updated |-> clock]
Upserted(i, status) == {j \in jobs : j.id # i} \cup {Entry(i, status)}
TimeKept(i, status) == {IF j.id = i THEN [j EXCEPT !.status = status] ELSE j : j \in jobs}
Updated(i, status) == {IF j.id = i THEN Entry(i, status) ELSE j : j \in jobs}

\* The worker, which may be slow enough to find its job evicted, and which may die.
Starts(i) ==
    /\ i \in issued /\ worker[i] = "start"
    /\ jobs' = Updated(i, "Running")
    /\ worker' = [worker EXCEPT ![i] = "finish"]
    /\ UNCHANGED <<clock, issued, now>>

Finishes(i) ==
    /\ i \in issued /\ worker[i] = "finish"
    /\ \E outcome \in Terminal : jobs' = Updated(i, outcome)
    /\ worker' \in {[worker EXCEPT ![i] = "ended"], worker}
    /\ UNCHANGED <<clock, issued, now>>

Dies(i) ==
    /\ i \in issued /\ worker[i] # "ended"
    /\ worker' = [worker EXCEPT ![i] = "ended"]
    /\ UNCHANGED <<clock, jobs, issued, now>>

\* Instant::now() comes before the wait for the write lock (jobs.rs:79-80), and
\* duration_since is zero for a time after it.
SweepBegins ==
    /\ now = None
    /\ now' = clock
    /\ UNCHANGED <<clock, jobs, issued, worker>>

Since(t) == IF t > now THEN 0 ELSE now - t

\* jobs.rs:82
StaleOfAnyStatus(j) == Since(j.updated) > Ttl
Evicted(j) == j.status \in Terminal /\ Since(j.updated) > Ttl

SweepEnds ==
    /\ now # None
    /\ jobs' = {j \in jobs : ~Evicted(j)}
    /\ now' = None
    /\ UNCHANGED <<clock, issued, worker>>

Tick ==
    /\ clock < Horizon
    /\ clock' = clock + 1
    /\ UNCHANGED <<jobs, issued, worker, now>>

Next ==
    \/ \E i \in Ids : TryCreateUnder(i) \/ Starts(i) \/ Finishes(i) \/ Dies(i)
    \/ SweepBegins \/ SweepEnds \/ Tick

Spec == Init /\ [][Next]_vars
-----------------------------------------------------------------------------
\* jobs.rs:46-47: a concurrent burst cannot exceed the bound.
Capped == Cardinality(jobs) <= Limit

\* A job once gone stays gone: a late worker cannot resurrect it (jobs.rs:7-8).
NoResurrection == [][\A i \in issued : i \notin Tracked => i \notin Tracked']_vars

\* Only a job that ended leaves the store, and only when its result has been
\* readable for the whole of Ttl, however late the sweep gets the lock
\* (jobs.rs:76-83).
ResultKept ==
    [][\A j \in jobs : j.id \notin Tracked' =>
          j.status \in Terminal /\ clock - j.updated > Ttl]_vars
=============================================================================
