-------------------------- MODULE JwksStore_proofs --------------------------
(***************************************************************************)
(* Theorems about the key cache, for every number of tasks, keys and         *)
(* editions and every cooldown.                                              *)
(***************************************************************************)
EXTENDS JwksStore, TLAPS

LEMMA EditionsType == Len(Editions) \in Nat \ {0} /\ \A e \in 1..Len(Editions) : Editions[e] \subseteq Kids
  <1>1. Editions \in Seq(SUBSET Kids) /\ Editions # << >>
    BY EditionsAssumption
  <1>2. Len(Editions) # 0
    BY <1>1
  <1> QED
    BY <1>1, <1>2

\* Type correctness: what every step leaves behind is again a state of the
\* store as auth.rs:57-77 and the locals of validate_for declare it.
THEOREM TypeCorrect == Spec => []TypeOK
  <1>1. Init => TypeOK
    <2> SUFFICES ASSUME Init PROVE TypeOK
      OBVIOUS
    <2>1. 1 \in 1..Len(Editions) /\ keys \in 0..Len(Editions) /\ 0 \in 0..Len(Editions)
      BY EditionsType DEF Init
    <2>2. since \in [Kids -> Nat \cup {Never}]
      BY DEF Init
    <2> QED
      BY <2>1, <2>2 DEF Init, TypeOK, Steps, Never
  <1>2. TypeOK /\ [Next]_vars => TypeOK'
    <2> SUFFICES ASSUME TypeOK, [Next]_vars PROVE TypeOK'
      OBVIOUS
    <2> USE DEF TypeOK, Steps, Never, provider, lock, request, history, Goto
    <2>1. ASSUME NEW r \in Requests, Arrive(r) PROVE TypeOK'
      BY <2>1 DEF Arrive
    <2>2. ASSUME NEW r \in Requests, Acquire(r) PROVE TypeOK'
      BY <2>2 DEF Acquire
    <2>3. ASSUME NEW r \in Requests, Lookup(r) PROVE TypeOK'
      BY <2>3 DEF Lookup
    <2>4. ASSUME NEW r \in Requests, FoundAfterWait(r) PROVE TypeOK'
      BY <2>4 DEF FoundAfterWait, Unlocked
    <2>5. ASSUME NEW r \in Requests, RejectOnCooldown(r) PROVE TypeOK'
      BY <2>5 DEF RejectOnCooldown, Unlocked, Answer
    <2>6. ASSUME NEW r \in Requests, BeginFetch(r) PROVE TypeOK'
      BY <2>6 DEF BeginFetch
    <2>7. ASSUME NEW r \in Requests, Serve(r) PROVE TypeOK'
      BY <2>7 DEF Serve
    <2>8. ASSUME NEW r \in Requests, FetchSucceeds(r) PROVE TypeOK'
      BY <2>8 DEF FetchSucceeds, Armed, GateWhileInstalling
    <2>9. ASSUME NEW r \in Requests, FetchFails(r) PROVE TypeOK'
      <3>1. since' \in [Kids -> Nat \cup {Never}]
        BY <2>9 DEF FetchFails, SinceAfterFailure
      <3> QED
        BY <2>9, <3>1, EditionsType DEF FetchFails, Armed, Unlocked, Answer
    <2>10. ASSUME NEW r \in Requests, Install(r) PROVE TypeOK'
      BY <2>10, EditionsType DEF Install, Unlocked
    <2>11. ASSUME NEW r \in Requests, Verify(r) PROVE TypeOK'
      BY <2>11 DEF Verify, Answer
    <2>12. ASSUME NEW r \in Requests, Cancel(r) PROVE TypeOK'
      BY <2>12, EditionsType DEF Cancel, Unlocked, Answer
    <2>13. CASE Rotate
      <3>1. since' \in [Kids -> Nat \cup {Never}]
        BY <2>13 DEF Rotate
      <3>2. edition' \in 1..Len(Editions)
        BY <2>13, EditionsType DEF Rotate
      <3> QED
        BY <2>13, <3>1, <3>2 DEF Rotate
    <2>14. CASE Tick
      BY <2>14 DEF Tick
    <2>15. CASE UNCHANGED vars
      BY <2>15 DEF vars
    <2> QED
      BY <2>1, <2>2, <2>3, <2>4, <2>5, <2>6, <2>7, <2>8, <2>9, <2>10, <2>11,
         <2>12, <2>13, <2>14, <2>15 DEF Next, Step
  <1> QED
    BY <1>1, <1>2, PTL DEF Spec
-----------------------------------------------------------------------------
\* The gate has exactly the owner that is past taking it and not yet past
\* dropping it, with clients disconnecting or not: two tasks never refresh the
\* store at once (auth.rs:281-300).
THEOREM Exclusive == Spec => []SingleFlight
  <1>1. Init => SingleFlight
    <2> SUFFICES ASSUME Init, NEW r \in Requests PROVE pc[r] \in Holding <=> gate = r
      BY DEF SingleFlight
    <2>1. pc[r] = "idle" /\ gate = None /\ None # r
      BY RequestsAssumption DEF Init
    <2> QED
      BY <2>1 DEF Holding
  <1>2. TypeOK /\ SingleFlight /\ [Next]_vars => SingleFlight'
    <2> SUFFICES ASSUME TypeOK, SingleFlight, [Next]_vars PROVE SingleFlight'
      OBVIOUS
    <2> USE RequestsAssumption DEF TypeOK, SingleFlight, Holding, lock, request, Goto
    <2>1. ASSUME NEW r \in Requests, Arrive(r) PROVE SingleFlight'
      BY <2>1 DEF Arrive
    <2>2. ASSUME NEW r \in Requests, Acquire(r) PROVE SingleFlight'
      BY <2>2 DEF Acquire, GateFree
    <2>3. ASSUME NEW r \in Requests, Lookup(r) PROVE SingleFlight'
      BY <2>3 DEF Lookup
    <2>4. ASSUME NEW r \in Requests, FoundAfterWait(r) PROVE SingleFlight'
      BY <2>4 DEF FoundAfterWait, Unlocked
    <2>5. ASSUME NEW r \in Requests, RejectOnCooldown(r) PROVE SingleFlight'
      BY <2>5 DEF RejectOnCooldown, Unlocked, Answer
    <2>6. ASSUME NEW r \in Requests, BeginFetch(r) PROVE SingleFlight'
      BY <2>6 DEF BeginFetch
    <2>7. ASSUME NEW r \in Requests, Serve(r) PROVE SingleFlight'
      BY <2>7 DEF Serve
    <2>8. ASSUME NEW r \in Requests, FetchSucceeds(r) PROVE SingleFlight'
      BY <2>8 DEF FetchSucceeds, GateWhileInstalling
    <2>9. ASSUME NEW r \in Requests, FetchFails(r) PROVE SingleFlight'
      BY <2>9 DEF FetchFails, Fetching, Unlocked, Answer
    <2>10. ASSUME NEW r \in Requests, Install(r) PROVE SingleFlight'
      BY <2>10 DEF Install, Unlocked
    <2>11. ASSUME NEW r \in Requests, Verify(r) PROVE SingleFlight'
      BY <2>11 DEF Verify, Answer
    <2>12. ASSUME NEW r \in Requests, Cancel(r) PROVE SingleFlight'
      BY <2>12 DEF Cancel, Unlocked, Answer
    <2>13. CASE Rotate \/ Tick \/ UNCHANGED vars
      BY <2>13 DEF Rotate, Tick, vars
    <2> QED
      BY <2>1, <2>2, <2>3, <2>4, <2>5, <2>6, <2>7, <2>8, <2>9, <2>10, <2>11,
         <2>12, <2>13 DEF Next, Step
  <1> QED
    BY <1>1, <1>2, TypeCorrect, PTL DEF Spec
-----------------------------------------------------------------------------
\* What the limit on the fetches rests on: while no fetch runs, the cooldown is
\* armed no earlier than the latest fetch began.
ArmedSinceStart ==
    /\ lastStart <= clock
    /\ lastRefresh <= clock
    /\ lastStart # Never /\ (\A r \in Requests : pc[r] \notin Fetching)
           => lastRefresh # Never /\ lastStart <= lastRefresh

\* The count of the fetches, by the time the latest of them began.
CountedByStart ==
    /\ lastStart = Never => fetches = 0
    /\ lastStart # Never => (fetches - 1) * Cooldown <= lastStart

LEMMA ArmedStep ==
    ASSUME Droppable \cap Fetching = {}, TypeOK, SingleFlight, ArmedSinceStart, [Next]_vars
    PROVE  ArmedSinceStart'
  <1> USE DEF TypeOK, ArmedSinceStart, Fetching, Never, lock, request, history, Goto
  <1>1. ASSUME NEW r \in Requests, BeginFetch(r) PROVE ArmedSinceStart'
    BY <1>1 DEF BeginFetch
  <1>2. ASSUME NEW r \in Requests, FetchSucceeds(r) PROVE ArmedSinceStart'
    BY <1>2 DEF FetchSucceeds, Armed
  <1>3. ASSUME NEW r \in Requests, FetchFails(r) PROVE ArmedSinceStart'
    BY <1>3 DEF FetchFails, Armed, Answer
  <1>4. ASSUME NEW r \in Requests,
               Arrive(r) \/ Acquire(r) \/ Lookup(r) \/ FoundAfterWait(r) \/ Serve(r)
        PROVE  ArmedSinceStart'
    BY <1>4 DEF Arrive, Acquire, Lookup, FoundAfterWait, Serve
  <1>5. ASSUME NEW r \in Requests, RejectOnCooldown(r) \/ Install(r) \/ Verify(r)
        PROVE  ArmedSinceStart'
    BY <1>5 DEF RejectOnCooldown, Install, Verify, Answer
  <1>6. CASE Rotate \/ Tick \/ UNCHANGED vars
    BY <1>6 DEF Rotate, Tick, vars
  <1>7. ASSUME NEW r \in Requests, Cancel(r) PROVE ArmedSinceStart'
    BY <1>7 DEF Cancel, Answer
  <1> QED
    BY <1>1, <1>2, <1>3, <1>4, <1>5, <1>6, <1>7 DEF Next, Step

\* The one step that begins a fetch begins it a cooldown after the latest one did.
LEMMA BeginIsSpaced ==
    ASSUME TypeOK, SingleFlight, ArmedSinceStart, NEW r \in Requests, BeginFetch(r)
    PROVE  /\ \A q \in Requests : pc[q] \notin Fetching
           /\ lastStart # Never => clock >= lastStart + Cooldown
  <1>1. \A q \in Requests : pc[q] \notin Fetching
    <2>1. gate = r
      BY DEF SingleFlight, BeginFetch, Holding
    <2>2. \A q \in Requests : pc[q] \in Fetching => q = r
      BY <2>1 DEF SingleFlight, Holding, Fetching
    <2> QED
      BY <2>2 DEF BeginFetch, Fetching
  <1>2. lastStart # Never => clock >= lastStart + Cooldown
    BY <1>1, CooldownAssumption DEF ArmedSinceStart, BeginFetch, OnCooldown, TypeOK, Never
  <1> QED
    BY <1>1, <1>2

LEMMA CountStep ==
    ASSUME TypeOK, SingleFlight, ArmedSinceStart, CountedByStart, [Next]_vars
    PROVE  CountedByStart'
  <1>1. ASSUME NEW r \in Requests, BeginFetch(r) PROVE CountedByStart'
    <2>1. lastStart' = clock /\ fetches' = fetches + 1
      BY <1>1 DEF BeginFetch
    <2>2. lastStart # Never => clock >= lastStart + Cooldown
      BY <1>1, BeginIsSpaced
    <2>3. fetches * Cooldown <= clock
      <3>1. CASE lastStart = Never
        BY <3>1, CooldownAssumption DEF CountedByStart, TypeOK
      <3>2. CASE lastStart # Never
        <4>1. fetches * Cooldown = (fetches - 1) * Cooldown + Cooldown
          BY CooldownAssumption DEF TypeOK
        <4>2. (fetches - 1) * Cooldown \in Int
          BY CooldownAssumption DEF TypeOK
        <4> QED
          BY <3>2, <4>1, <4>2, <2>2, CooldownAssumption DEF CountedByStart, TypeOK, Never
      <3> QED
        BY <3>1, <3>2
    <2>4. fetches' - 1 = fetches
      BY <2>1 DEF TypeOK
    <2> QED
      BY <2>1, <2>3, <2>4 DEF CountedByStart, TypeOK, Never
  <1>2. (\A r \in Requests : ~BeginFetch(r)) => UNCHANGED <<lastStart, fetches>>
    BY DEF Next, Step, Arrive, Acquire, Lookup, FoundAfterWait, RejectOnCooldown, Serve,
           FetchSucceeds, FetchFails, Install, Verify, Cancel, Rotate, Tick, vars, history
  <1> QED
    BY <1>1, <1>2 DEF CountedByStart

LimitInv == TypeOK /\ SingleFlight /\ ArmedSinceStart /\ CountedByStart

LEMMA LimitInvariant == ASSUME Droppable \cap Fetching = {} PROVE Spec => []LimitInv
  <1>1. Init => ArmedSinceStart /\ CountedByStart
    BY DEF Init, ArmedSinceStart, CountedByStart, Never
  <1>2. TypeOK /\ SingleFlight /\ ArmedSinceStart /\ CountedByStart /\ [Next]_vars
           => ArmedSinceStart' /\ CountedByStart'
    BY ArmedStep, CountStep
  <1> QED
    BY <1>1, <1>2, TypeCorrect, Exclusive, PTL DEF Spec, LimitInv

\* As long as no client disconnects during a fetch, the store is a rate gate: the provider sees
\* one fetch at a time and starts a cooldown apart, for every load and every
\* answer (auth.rs:24-25).
THEOREM Limited == ASSUME Droppable \cap Fetching = {} PROVE Spec => RateLimited
  <1>1. Init => RG!Init
    BY DEF Init, RG!Init, Fetching, Never, RG!Never
  <1>2. LimitInv /\ LimitInv' /\ [Next]_vars => [RG!Next]_RG!vars
    <2> SUFFICES ASSUME LimitInv, LimitInv', [Next]_vars PROVE [RG!Next]_RG!vars
      OBVIOUS
    <2> DEFINE Active == \E r \in Requests : pc[r] \in Fetching
    <2> USE DEF LimitInv
    <2>1. ASSUME NEW r \in Requests, BeginFetch(r) PROVE RG!Begin
      <3>1. ~Active /\ (lastStart # Never => clock >= lastStart + Cooldown)
        BY <2>1, BeginIsSpaced
      <3>2. Active'
        BY <2>1 DEF BeginFetch, Goto, TypeOK, Fetching
      <3>3. lastStart' = clock /\ fetches' = fetches + 1 /\ UNCHANGED clock
        BY <2>1 DEF BeginFetch
      <3> QED
        BY <3>1, <3>2, <3>3 DEF RG!Begin, RG!Never, Never
    <2>2. ASSUME NEW r \in Requests, FetchSucceeds(r) \/ FetchFails(r) PROVE RG!End
      <3>1. Active
        BY <2>2 DEF FetchSucceeds, FetchFails, Fetching
      <3>2. \A q \in Requests : pc[q] \in Fetching => q = r
        BY <2>2 DEF FetchSucceeds, FetchFails, Fetching, SingleFlight, Holding
      <3>3. pc'[r] \notin Fetching /\ \A q \in Requests \ {r} : pc'[q] = pc[q]
        BY <2>2 DEF FetchSucceeds, FetchFails, Answer, Goto, Fetching, TypeOK
      <3>4. UNCHANGED <<clock, lastStart, fetches>>
        BY <2>2 DEF FetchSucceeds, FetchFails, history
      <3> QED
        BY <3>1, <3>2, <3>3, <3>4 DEF RG!End
    <2>3. ASSUME NEW r \in Requests,
                 Arrive(r) \/ Acquire(r) \/ Lookup(r) \/ FoundAfterWait(r) \/ Serve(r)
          PROVE  UNCHANGED RG!vars
      <3>1. \A q \in Requests : pc'[q] \in Fetching <=> pc[q] \in Fetching
        BY <2>3 DEF Arrive, Acquire, Lookup, FoundAfterWait, Serve, Goto, Fetching, TypeOK
      <3>2. UNCHANGED <<clock, lastStart, fetches>>
        BY <2>3 DEF Arrive, Acquire, Lookup, FoundAfterWait, Serve, history
      <3> QED
        BY <3>1, <3>2 DEF RG!vars
    <2>4. ASSUME NEW r \in Requests, RejectOnCooldown(r) \/ Install(r) \/ Verify(r)
          PROVE  UNCHANGED RG!vars
      <3>1. \A q \in Requests : pc'[q] \in Fetching <=> pc[q] \in Fetching
        BY <2>4 DEF RejectOnCooldown, Install, Verify, Answer, Goto, Fetching, TypeOK
      <3>2. UNCHANGED <<clock, lastStart, fetches>>
        BY <2>4 DEF RejectOnCooldown, Install, Verify, history
      <3> QED
        BY <3>1, <3>2 DEF RG!vars
    <2>5. CASE Tick
      <3>1. pc' = pc /\ clock' = clock + 1 /\ UNCHANGED <<lastStart, fetches>>
        BY <2>5 DEF Tick, history
      <3>2. Active' = Active
        BY <3>1
      <3> QED
        BY <3>1, <3>2 DEF RG!Tick, RG!Next
    <2>6. CASE Rotate \/ UNCHANGED vars
      BY <2>6 DEF Rotate, vars, RG!vars
    <2>7. ASSUME Droppable \cap Fetching = {}, NEW r \in Requests, Cancel(r)
          PROVE  UNCHANGED RG!vars
      <3>1. \A q \in Requests : pc'[q] \in Fetching <=> pc[q] \in Fetching
        BY <2>7 DEF Cancel, Answer, Goto, Fetching, TypeOK
      <3>2. UNCHANGED <<clock, lastStart, fetches>>
        BY <2>7 DEF Cancel, history
      <3> QED
        BY <3>1, <3>2 DEF RG!vars
    <2> QED
      BY <2>1, <2>2, <2>3, <2>4, <2>5, <2>6, <2>7 DEF Next, Step, RG!Next
  <1> QED
    BY <1>1, <1>2, LimitInvariant, PTL DEF Spec, RateLimited, RG!Spec

\* By time t the provider has seen at most one fetch for every cooldown begun
\* (auth.rs:24-25), unless a client disconnects during a fetch.
THEOREM Budgeted == ASSUME Droppable \cap Fetching = {} PROVE Spec => []FetchBudget
  <1>1. LimitInv => FetchBudget
    <2> SUFFICES ASSUME LimitInv, fetches > 0 PROVE (fetches - 1) * Cooldown <= clock
      BY DEF FetchBudget, RG!Budget
    <2>1. lastStart # Never /\ lastStart <= clock /\ lastStart \in Nat /\ clock \in Nat
      BY DEF LimitInv, CountedByStart, ArmedSinceStart, TypeOK
    <2>2. (fetches - 1) * Cooldown <= lastStart
      BY <2>1 DEF LimitInv, CountedByStart
    <2>3. (fetches - 1) * Cooldown \in Int
      BY CooldownAssumption DEF LimitInv, TypeOK
    <2> QED
      BY <2>1, <2>2, <2>3
  <1> QED
    BY <1>1, LimitInvariant, PTL
-----------------------------------------------------------------------------
\* No answer in a task's hands is older than the cache, none is from the future.
SnapshotsAreFresh ==
    /\ keys <= edition
    /\ \A r \in Requests : pc[r] \in {"served", "install"} =>
           keys <= snapshot[r] /\ snapshot[r] <= edition

LEMMA FreshStep ==
    ASSUME TypeOK, SingleFlight, SnapshotsAreFresh, [Next]_vars
    PROVE  SnapshotsAreFresh' /\ keys' >= keys
  <1> USE DEF TypeOK, SnapshotsAreFresh, lock, request, history, provider, Goto
  <1>1. ASSUME NEW r \in Requests, Serve(r) PROVE SnapshotsAreFresh' /\ keys' >= keys
    BY <1>1 DEF Serve
  <1>2. ASSUME NEW r \in Requests, Install(r) PROVE SnapshotsAreFresh' /\ keys' >= keys
    <2>1. \A q \in Requests \ {r} : pc[q] \notin {"served", "install"}
      BY <1>2 DEF Install, SingleFlight, Holding
    <2>2. keys' = snapshot[r] /\ edition' = edition /\ snapshot[r] \in Nat /\ edition \in Nat
      BY <1>2, EditionsType DEF Install
    <2>3. \A q \in Requests : pc'[q] \notin {"served", "install"}
      BY <1>2, <2>1 DEF Install
    <2> QED
      BY <1>2, <2>2, <2>3 DEF Install
  <1>3. ASSUME NEW r \in Requests, FetchSucceeds(r) PROVE SnapshotsAreFresh' /\ keys' >= keys
    BY <1>3 DEF FetchSucceeds
  <1>7. ASSUME NEW r \in Requests, FetchFails(r) \/ Cancel(r)
        PROVE  SnapshotsAreFresh' /\ keys' >= keys
    <2>1. /\ pc' = [pc EXCEPT ![r] = "idle"]
          /\ \A q \in Requests \ {r} : snapshot'[q] = snapshot[q]
          /\ UNCHANGED <<keys, edition>>
      BY <1>7 DEF FetchFails, Cancel, Answer
    <2> QED
      BY <2>1
  <1>4. ASSUME NEW r \in Requests,
               Arrive(r) \/ Acquire(r) \/ Lookup(r) \/ FoundAfterWait(r) \/ BeginFetch(r)
        PROVE  SnapshotsAreFresh' /\ keys' >= keys
    BY <1>4 DEF Arrive, Acquire, Lookup, FoundAfterWait, BeginFetch
  <1>5. ASSUME NEW r \in Requests, RejectOnCooldown(r) \/ Verify(r)
        PROVE  SnapshotsAreFresh' /\ keys' >= keys
    BY <1>5 DEF RejectOnCooldown, Verify, Answer
  <1>6. CASE Rotate \/ Tick \/ UNCHANGED vars
    BY <1>6 DEF Rotate, Tick, vars
  <1> QED
    BY <1>1, <1>2, <1>3, <1>4, <1>5, <1>6, <1>7 DEF Next, Step

\* A later key set is never replaced by an earlier one, clients disconnecting or
\* not (auth.rs:281-300).
THEOREM NeverRegresses == Spec => CacheNeverRegresses
  <1>1. Init => SnapshotsAreFresh
    BY DEF Init, SnapshotsAreFresh
  <1>2. TypeOK /\ SingleFlight /\ SnapshotsAreFresh /\ [Next]_vars
           => SnapshotsAreFresh' /\ [keys' >= keys]_vars
    BY FreshStep
  <1> QED
    BY <1>1, <1>2, TypeCorrect, Exclusive, PTL DEF Spec, CacheNeverRegresses
-----------------------------------------------------------------------------
\* What brings a rotated key into the cache in time: a fetch ends within FetchMax
\* of its start, an answer holds every key published since before that start, and
\* once it is installed so does the cache.
TokensAtHand == \A r \in Requests : pc[r] # "idle" => token[r] \in Tokens
FetchInTime ==
    /\ \A r \in Requests : pc[r] \in Fetching => lastStart # Never /\ clock <= lastStart + FetchMax
    /\ lastRefresh # Never => lastStart # Never /\ lastRefresh <= lastStart + FetchMax
PublishedSince ==
    \A k \in Kids : since[k] # Never => since[k] <= clock /\ k \in KeysOf(edition)
SnapshotHolds ==
    \A r \in Requests, k \in Kids :
        pc[r] \in {"served", "install"} /\ since[k] # Never /\ lastStart > since[k]
            => k \in KeysOf(snapshot[r])
CacheHolds ==
    (\A r \in Requests : pc[r] # "install") =>
        \A k \in Kids :
            since[k] # Never /\ lastRefresh # Never /\ lastRefresh > since[k] + FetchMax
                => k \in KeysOf(keys)

PickUpInv == LimitInv /\ TokensAtHand /\ FetchInTime /\ PublishedSince
                 /\ SnapshotHolds /\ CacheHolds

LEMMA PickUpInit == Init => TokensAtHand /\ FetchInTime /\ PublishedSince
                                /\ SnapshotHolds /\ CacheHolds
  BY DEF Init, TokensAtHand, FetchInTime, PublishedSince, SnapshotHolds, CacheHolds,
         Fetching, Never, KeysOf

LEMMA PickUpStep ==
    ASSUME Droppable \cap (Fetching \cup {"install"}) = {}, PickUpInv, [Next]_vars
    PROVE  TokensAtHand' /\ FetchInTime' /\ PublishedSince' /\ SnapshotHolds' /\ CacheHolds'
  <1> DEFINE Goal == TokensAtHand' /\ FetchInTime' /\ PublishedSince'
                         /\ SnapshotHolds' /\ CacheHolds'
  <1> USE FetchMaxAssumption
      DEF PickUpInv, LimitInv, TypeOK, TokensAtHand, FetchInTime, PublishedSince,
          SnapshotHolds, CacheHolds, Fetching, KeysOf, Never, lock, request, history,
          provider, Goto
  <1>1. ASSUME NEW r \in Requests, Arrive(r) PROVE Goal
    BY <1>1 DEF Arrive
  <1>2. ASSUME NEW r \in Requests, Acquire(r) \/ Lookup(r) \/ FoundAfterWait(r) PROVE Goal
    <2>1. CASE Acquire(r)
      BY <2>1 DEF Acquire
    <2>2. CASE Lookup(r)
      BY <2>2 DEF Lookup
    <2>3. CASE FoundAfterWait(r)
      BY <2>3 DEF FoundAfterWait
    <2> QED
      BY <1>2, <2>1, <2>2, <2>3
  <1>3. ASSUME NEW r \in Requests, RejectOnCooldown(r) \/ Verify(r) PROVE Goal
    <2>1. /\ pc' = [pc EXCEPT ![r] = "idle"]
          /\ token' = [token EXCEPT ![r] = NoToken]
          /\ pc[r] # "install"
          /\ UNCHANGED <<clock, edition, keys, lastRefresh, snapshot, lastStart, since>>
      BY <1>3 DEF RejectOnCooldown, Verify, Answer
    <2>2. TokensAtHand'
      BY <2>1
    <2> QED
      BY <2>1, <2>2
  <1>4. ASSUME NEW r \in Requests, BeginFetch(r) PROVE Goal
    <2>1. \A q \in Requests : pc[q] \notin {"served", "install"}
      BY <1>4 DEF BeginFetch, SingleFlight, Holding
    <2>2. lastStart' = clock /\ lastRefresh <= clock
      BY <1>4 DEF BeginFetch, ArmedSinceStart
    <2> QED
      BY <1>4, <2>1, <2>2 DEF BeginFetch
  <1>5. ASSUME NEW r \in Requests, Serve(r) PROVE Goal
    BY <1>5 DEF Serve
  <1>6. ASSUME NEW r \in Requests, FetchSucceeds(r) PROVE Goal
    BY <1>6 DEF FetchSucceeds, Armed
  <1>7. ASSUME NEW r \in Requests, FetchFails(r) PROVE Goal
    <2>1. \A q \in Requests : pc'[q] \notin Fetching \cup {"install"}
      BY <1>7 DEF FetchFails, Answer, SingleFlight, Holding
    <2>2. \A k \in Kids : since'[k] = IF since[k] = Never THEN Never ELSE clock
      BY <1>7 DEF FetchFails, SinceAfterFailure
    <2>3. lastRefresh' = clock /\ lastStart # Never /\ clock <= lastStart + FetchMax
      BY <1>7 DEF FetchFails, Armed
    <2>4. TokensAtHand'
      BY <1>7 DEF FetchFails, Answer
    <2>5. UNCHANGED <<clock, edition, keys, lastStart>>
      BY <1>7 DEF FetchFails
    <2> QED
      BY <2>1, <2>2, <2>3, <2>4, <2>5
  <1>8. ASSUME NEW r \in Requests, Install(r) PROVE Goal
    <2>1. keys' = snapshot[r] /\ pc[r] = "install"
      BY <1>8 DEF Install
    <2>2. \A k \in Kids : since[k] # Never /\ lastRefresh # Never
                               /\ lastRefresh > since[k] + FetchMax => lastStart > since[k]
      OBVIOUS
    <2>3. CacheHolds'
      BY <1>8, <2>1, <2>2 DEF Install
    <2>4. SnapshotHolds'
      BY <1>8 DEF Install, SingleFlight, Holding
    <2> QED
      BY <1>8, <2>3, <2>4 DEF Install
  <1>9. CASE Rotate
    <2>1. edition' \in 1..Len(Editions)
      BY <1>9, EditionsType DEF Rotate
    <2>2. \A k \in Kids : since'[k] # Never =>
              /\ k \in KeysOf(edition')
              /\ since'[k] = clock \/ (since'[k] = since[k] /\ since[k] # Never)
      BY <1>9 DEF Rotate
    <2>3. lastRefresh <= clock /\ lastStart <= clock
      BY DEF ArmedSinceStart
    <2> QED
      BY <1>9, <2>1, <2>2, <2>3 DEF Rotate
  <1>10. CASE Tick
    BY <1>10 DEF Tick
  <1>11. CASE UNCHANGED vars
    BY <1>11 DEF vars
  <1>12. ASSUME NEW r \in Requests, Cancel(r) PROVE Goal
    <2>1. /\ pc' = [pc EXCEPT ![r] = "idle"]
          /\ token' = [token EXCEPT ![r] = NoToken]
          /\ snapshot' = [snapshot EXCEPT ![r] = 0]
          /\ pc[r] \notin {"fetch", "served", "install"}
          /\ UNCHANGED <<clock, edition, keys, lastRefresh, lastStart, since>>
      BY <1>12 DEF Cancel, Answer
    <2>2. TokensAtHand'
      BY <2>1
    <2> QED
      BY <2>1, <2>2
  <1> QED
    BY <1>1, <1>2, <1>3, <1>4, <1>5, <1>6, <1>7, <1>8, <1>9, <1>10, <1>11, <1>12
       DEF Next, Step

\* As long as no client disconnects during a fetch or before the fetched keys are in
\* the cache, a key published for a cooldown and a fetch
\* time, without a failed fetch since, is never refused by the cooldown: "a
\* rotated key is picked up within it" (auth.rs:25).
THEOREM PickedUp ==
    ASSUME Droppable \cap (Fetching \cup {"install"}) = {}
    PROVE  Spec => RotatedKeyPickedUp
  <1>1. PickUpInv => \A r \in Requests : RejectOnCooldown(r) => ~Due(token[r].kid)
    <2> SUFFICES ASSUME PickUpInv, NEW r \in Requests, RejectOnCooldown(r)
                 PROVE  ~Due(token[r].kid)
      OBVIOUS
    <2> DEFINE k == token[r].kid
    <2>1. k \in Kids
      BY TokensAssumption DEF PickUpInv, TokensAtHand, RejectOnCooldown
    <2>2. \A q \in Requests : pc[q] # "install"
      BY DEF PickUpInv, LimitInv, SingleFlight, Holding, RejectOnCooldown
    <2>3. k \notin KeysOf(keys)
      BY DEF RejectOnCooldown, StillMissing, Cached
    <2>4. since[k] # Never => lastRefresh <= since[k] + FetchMax
      BY <2>1, <2>2, <2>3, FetchMaxAssumption
         DEF PickUpInv, LimitInv, TypeOK, CacheHolds, RejectOnCooldown, OnCooldown, Never
    <2> QED
      BY <2>1, <2>4, FetchMaxAssumption, CooldownAssumption
         DEF PickUpInv, LimitInv, TypeOK, RejectOnCooldown, OnCooldown, Due, Never
  <1>2. Spec => []PickUpInv
    <2>1. LimitInv /\ TokensAtHand /\ FetchInTime /\ PublishedSince
              /\ SnapshotHolds /\ CacheHolds /\ [Next]_vars
            => TokensAtHand' /\ FetchInTime' /\ PublishedSince' /\ SnapshotHolds' /\ CacheHolds'
      BY PickUpStep DEF PickUpInv
    <2>2. Spec => []LimitInv
      BY LimitInvariant
    <2> QED
      BY <2>1, <2>2, PickUpInit, PTL DEF Spec, PickUpInv
  <1>3. PickUpInv /\ [Next]_vars =>
            [\A r \in Requests : RejectOnCooldown(r) => ~Due(token[r].kid)]_vars
    BY <1>1
  <1> QED
    BY <1>2, <1>3, PTL DEF Spec, RotatedKeyPickedUp
=============================================================================
