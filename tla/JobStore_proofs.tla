-------------------------- MODULE JobStore_proofs ---------------------------
(***************************************************************************)
(* What the job store promises, proved for every cap, every lifetime and any *)
(* number of jobs: the bound on its size, that a job once gone stays gone,    *)
(* and that a result is readable for its whole time.                         *)
(***************************************************************************)
EXTENDS JobStore, FiniteSetTheorems, TLAPS

\* The inductive invariant.
JobInv == TypeOK /\ IsFiniteSet(jobs) /\ Capped

\* An update keeps the jobs that are there, and no others.
LEMMA UpdateKeepsIds ==
    ASSUME NEW i, NEW status
    PROVE  {j.id : j \in Updated(i, status)} = Tracked
  <1> DEFINE after(j) == IF j.id = i THEN Entry(i, status) ELSE j
  <1>1. \A j \in jobs : after(j).id = j.id
    BY DEF Entry
  <1> QED
    BY <1>1, Zenon DEF Updated, Tracked

\* An update keeps every entry well typed and every id unique.
LEMMA UpdateKeepsTypes ==
    ASSUME TypeOK, NEW i \in Ids, NEW status \in Statuses
    PROVE  /\ Updated(i, status) \subseteq Job
           /\ \A j, k \in Updated(i, status) : j.id = k.id => j = k
           /\ \A j \in Updated(i, status) : j.updated <= clock
  <1>1. Entry(i, status) \in Job /\ Entry(i, status).id = i /\ Entry(i, status).updated = clock
    BY DEF TypeOK, Entry, Job
  <1>2. \A j \in Updated(i, status) :
            \/ j = Entry(i, status)
            \/ j \in jobs /\ j.id # i
    BY DEF Updated
  <1>3. clock <= clock
    BY DEF TypeOK
  <1> QED
    BY <1>1, <1>2, <1>3 DEF TypeOK

\* An update makes the store no larger: it is the image of the jobs.
LEMMA UpdateKeepsSize ==
    ASSUME IsFiniteSet(jobs), NEW i, NEW status
    PROVE  /\ IsFiniteSet(Updated(i, status))
           /\ Cardinality(Updated(i, status)) <= Cardinality(jobs)
  <1> DEFINE f == [j \in jobs |-> IF j.id = i THEN Entry(i, status) ELSE j]
  <1>1. f \in Surjection(jobs, Updated(i, status))
    BY DEF Surjection, Updated
  <1> QED
    BY <1>1, FS_Surjection

\* A worker's report, whatever it says of its job, keeps the invariant.
LEMMA UpdateStep ==
    ASSUME JobInv, NEW i \in Ids, NEW status \in Statuses,
           jobs' = Updated(i, status), worker' \in [Ids -> {"start", "finish", "ended"}],
           UNCHANGED <<clock, issued, now>>
    PROVE  JobInv'
  <1>1. Tracked' = Tracked
    BY UpdateKeepsIds DEF Tracked
  <1>2. TypeOK'
    BY <1>1, UpdateKeepsTypes DEF JobInv, TypeOK, Job
  <1>3. IsFiniteSet(jobs') /\ Cardinality(jobs') <= Cardinality(jobs)
    BY UpdateKeepsSize DEF JobInv
  <1>4. Cardinality(jobs) \in Nat /\ Cardinality(jobs') \in Nat
    BY <1>3, FS_CardinalityType DEF JobInv
  <1>5. Capped'
    BY <1>3, <1>4, LimitAssumption DEF JobInv, Capped
  <1> QED
    BY <1>2, <1>3, <1>5 DEF JobInv

\* A new job finds room under the cap.
LEMMA CreateStep ==
    ASSUME JobInv, NEW i \in Ids, TryCreateUnder(i)
    PROVE  JobInv'
  <1> DEFINE new == [id |-> i, status |-> "Pending", updated |-> clock]
  <1>1. new \in Job /\ new.id = i /\ new.updated = clock
    BY DEF JobInv, TypeOK, Job, Statuses
  <1>2. jobs' = jobs \cup {new} /\ UNCHANGED <<clock, worker, now>>
        /\ issued' = issued \cup {i} /\ i \notin issued
    BY DEF TryCreateUnder
  <1>3. \A j \in jobs : j.id # i
    BY <1>2 DEF JobInv, TypeOK, Tracked
  <1> HIDE DEF new
  <1>4. TypeOK'
    <2>1. jobs' \subseteq Job /\ \A j, k \in jobs' : j.id = k.id => j = k
      BY <1>1, <1>2, <1>3 DEF JobInv, TypeOK
    <2>2. Tracked' \subseteq issued' /\ issued' \subseteq Ids
      BY <1>1, <1>2 DEF JobInv, TypeOK, Tracked
    <2>3. \A j \in jobs' : j.updated <= clock'
      BY <1>1, <1>2 DEF JobInv, TypeOK
    <2> QED
      BY <1>2, <2>1, <2>2, <2>3 DEF JobInv, TypeOK, Job
  <1>5. new \notin jobs
    BY <1>1, <1>3
  <1>6. IsFiniteSet(jobs') /\ Cardinality(jobs') = Cardinality(jobs) + 1
    BY <1>2, <1>5, FS_AddElement DEF JobInv
  <1>7. Cardinality(jobs) \in Nat /\ Cardinality(jobs) < Limit
    BY FS_CardinalityType, LimitAssumption DEF JobInv, TryCreateUnder, AtCapacity
  <1>8. Capped'
    BY <1>6, <1>7, LimitAssumption DEF Capped
  <1> QED
    BY <1>4, <1>6, <1>8 DEF JobInv

\* A sweep only takes entries away.
LEMMA SweepStep ==
    ASSUME JobInv, SweepEnds
    PROVE  JobInv'
  <1>1. jobs' \in SUBSET jobs /\ UNCHANGED <<clock, issued, worker>> /\ now' = None
    BY DEF SweepEnds
  <1>2. TypeOK'
    <2>1. Tracked' \subseteq Tracked
      BY <1>1 DEF Tracked
    <2> QED
      BY <1>1, <2>1 DEF JobInv, TypeOK, Job
  <1>3. IsFiniteSet(jobs') /\ Cardinality(jobs') <= Cardinality(jobs)
    BY <1>1, FS_Subset DEF JobInv
  <1>4. Cardinality(jobs) \in Nat /\ Cardinality(jobs') \in Nat
    BY <1>3, FS_CardinalityType DEF JobInv
  <1> QED
    BY <1>2, <1>3, <1>4, LimitAssumption DEF JobInv, Capped

\* Every step keeps the invariant.
LEMMA JobInvStep ==
    ASSUME JobInv, [Next]_vars
    PROVE  JobInv'
  <1> USE DEF JobInv
  <1>1. ASSUME NEW i \in Ids, Starts(i) PROVE JobInv'
    <2>1. worker' \in [Ids -> {"start", "finish", "ended"}] /\ "Running" \in Statuses
      BY <1>1 DEF Starts, TypeOK, Statuses
    <2> QED
      BY <1>1, <2>1, UpdateStep DEF Starts
  <1>2. ASSUME NEW i \in Ids, Finishes(i) PROVE JobInv'
    <2>1. PICK outcome \in Terminal : jobs' = Updated(i, outcome)
      BY <1>2 DEF Finishes
    <2>2. outcome \in Statuses
      BY DEF Statuses
    <2>3. worker' \in [Ids -> {"start", "finish", "ended"}]
      BY <1>2 DEF Finishes, TypeOK
    <2> QED
      BY <1>2, <2>1, <2>2, <2>3, UpdateStep DEF Finishes
  <1>3. ASSUME NEW i \in Ids, Dies(i) PROVE JobInv'
    BY <1>3 DEF Dies, TypeOK, Tracked, Job, Capped
  <1>4. CASE SweepBegins
    BY <1>4 DEF SweepBegins, TypeOK, Tracked, Job, Capped
  <1>5. CASE Tick
    <2>1. clock' = clock + 1 /\ UNCHANGED <<jobs, issued, worker, now>>
      BY <1>5 DEF Tick
    <2>2. clock' \in Nat /\ (now' # None => now' <= clock') /\ \A j \in jobs' : j.updated <= clock'
      BY <2>1, TimesAssumption DEF TypeOK, Job
    <2> QED
      BY <2>1, <2>2 DEF TypeOK, Tracked, Job, Capped
  <1>6. CASE UNCHANGED vars
    BY <1>6 DEF vars, TypeOK, Tracked, Job, Capped
  <1> QED
    BY <1>1, <1>2, <1>3, <1>4, <1>5, <1>6, CreateStep, SweepStep DEF Next

LEMMA JobInvariant == Spec => []JobInv
  <1>1. Init => JobInv
    BY FS_EmptySet, LimitAssumption, TimesAssumption DEF Init, JobInv, TypeOK, Tracked, Capped
  <1>2. JobInv /\ [Next]_vars => JobInv'
    BY JobInvStep
  <1> QED
    BY <1>1, <1>2, PTL DEF Spec
-----------------------------------------------------------------------------
\* Every reachable store is well typed, with one entry per job (jobs.rs:30-39).
THEOREM TypeCorrect == Spec => []TypeOK
  BY JobInvariant, PTL DEF JobInv

\* However many handlers create jobs at once, the cap holds (jobs.rs:46-56).
THEOREM NeverOverCap == Spec => []Capped
  BY JobInvariant, PTL DEF JobInv

\* A late worker's report cannot bring an evicted job back (jobs.rs:58-64).
THEOREM GoneForGood == Spec => NoResurrection
  <1>1. JobInv /\ [Next]_vars => [\A i \in issued : i \notin Tracked => i \notin Tracked']_vars
    <2> SUFFICES ASSUME JobInv, Next, NEW g \in issued, g \notin Tracked PROVE g \notin Tracked'
      OBVIOUS
    <2>1. ASSUME NEW i \in Ids, TryCreateUnder(i) PROVE g \notin Tracked'
      BY <2>1 DEF TryCreateUnder, Tracked
    <2>2. ASSUME NEW i \in Ids, NEW status, jobs' = Updated(i, status) PROVE g \notin Tracked'
      BY <2>2, UpdateKeepsIds DEF Tracked
    <2>3. ASSUME jobs' \subseteq jobs PROVE g \notin Tracked'
      BY <2>3 DEF Tracked
    <2> QED
      BY <2>1, <2>2, <2>3 DEF Next, Starts, Finishes, Dies, SweepBegins, SweepEnds, Tick
  <1> QED
    BY <1>1, JobInvariant, PTL DEF Spec, NoResurrection

\* No sweep, however long it waits for the lock, takes a job in flight or a result
\* younger than Ttl (jobs.rs:76-84).
THEOREM Readable == Spec => ResultKept
  <1>1. JobInv /\ [Next]_vars =>
            [\A j \in jobs : j.id \notin Tracked' =>
                 j.status \in Terminal /\ clock - j.updated > Ttl]_vars
    <2> SUFFICES ASSUME JobInv, Next, NEW j \in jobs, j.id \notin Tracked'
                 PROVE  j.status \in Terminal /\ clock - j.updated > Ttl
      OBVIOUS
    <2>1. j.id \in Tracked
      BY DEF Tracked
    <2>2. ASSUME NEW i, NEW status, jobs' = Updated(i, status) PROVE FALSE
      BY <2>1, <2>2, UpdateKeepsIds DEF Tracked
    <2>3. ASSUME jobs \subseteq jobs' PROVE FALSE
      BY <2>3 DEF Tracked
    <2>4. SweepEnds
      BY <2>2, <2>3 DEF Next, TryCreateUnder, Starts, Finishes, Dies, SweepBegins, Tick
    <2>5. Evicted(j)
      BY <2>4 DEF SweepEnds, Tracked
    <2>6. now \in Nat /\ now <= clock /\ clock \in Nat /\ j.updated \in Nat /\ Ttl \in Nat
      BY <2>4, TimesAssumption DEF SweepEnds, JobInv, TypeOK, Job
    <2> QED
      BY <2>5, <2>6 DEF Evicted, Since
  <1> QED
    BY <1>1, JobInvariant, PTL DEF Spec, ResultKept
=============================================================================
