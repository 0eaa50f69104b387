-------------------------- MODULE Discovery_proofs --------------------------
(***************************************************************************)
(* Theorems about discovery, for every number of handlers, keys and editions, *)
(* every cooldown, and clients that disconnect at any await.                  *)
(***************************************************************************)
EXTENDS Discovery, TLAPS

LEMMA EditionsType ==
    /\ Len(Editions) \in Nat \ {0}
    /\ \A e \in 1..Len(Editions) : Editions[e] \subseteq Kids
    /\ \A e \in 0..Len(Editions) : KeysOf(e) \subseteq Kids
  <1>1. Editions \in Seq(SUBSET Kids) /\ Editions # << >>
    BY EditionsAssumption
  <1>2. Len(Editions) # 0
    BY <1>1
  <1> QED
    BY <1>1, <1>2 DEF KeysOf

\* What Obtain and Answer do to one handler's request, in one fact each.
LEMMA AnswerType ==
    ASSUME TypeOK, NEW h \in Handlers, Answer(h)
    PROVE  /\ pc' \in [Handlers -> Steps]
           /\ kind' \in [Handlers -> {"login", "callback"}]
           /\ held' \in [Handlers -> 0..Len(Editions)]
           /\ kid' \in [Handlers -> Kids \cup {None}]
  BY EditionsType DEF TypeOK, Answer, Goto, Steps

LEMMA ObtainType ==
    ASSUME TypeOK, NEW h \in Handlers, Obtain(h)
    PROVE  /\ pc' \in [Handlers -> Steps]
           /\ kind' \in [Handlers -> {"login", "callback"}]
           /\ held' \in [Handlers -> 0..Len(Editions)]
           /\ kid' \in [Handlers -> Kids \cup {None}]
  <1>1. CASE kind[h] = "login"
    BY <1>1, AnswerType DEF Obtain
  <1>2. CASE kind[h] # "login"
    BY <1>2 DEF Obtain, TypeOK, Goto, Steps
  <1> QED
    BY <1>1, <1>2

\* Type correctness: every step leaves a state the structs of provider.rs:70-103
\* and the locals of the two handlers declare.
THEOREM TypeCorrect == Spec => []TypeOK
  <1>1. Init => TypeOK
    <2> SUFFICES ASSUME Init PROVE TypeOK
      OBVIOUS
    <2>1. edition \in 1..Len(Editions) /\ client \in 0..Len(Editions) /\ 0 \in 0..Len(Editions)
      BY EditionsType DEF Init
    <2>2. since \in [Kids -> Nat \cup {Never}]
      BY DEF Init
    <2> QED
      BY <2>1, <2>2 DEF Init, TypeOK, Steps, Never
  <1>2. TypeOK /\ [Next]_vars => TypeOK'
    <2> SUFFICES ASSUME TypeOK, [Next]_vars PROVE TypeOK'
      OBVIOUS
    <2>0. 0 \in 0..Len(Editions)
      BY EditionsType
    <2> USE DEF TypeOK, Steps, Never, provider, attempts, request, history, Goto
    <2>1. ASSUME NEW h \in Handlers, Arrive(h) PROVE TypeOK'
      BY <2>1 DEF Arrive
    <2>2. ASSUME NEW h \in Handlers, Client(h) PROVE TypeOK'
      <3>1. CASE client # 0
        BY <2>2, <3>1, ObtainType DEF Client
      <3>2. CASE client = 0
        BY <2>2, <3>2 DEF Client
      <3> QED
        BY <3>1, <3>2
    <2>3. ASSUME NEW h \in Handlers, Acquire(h) PROVE TypeOK'
      BY <2>3 DEF Acquire
    <2>4. ASSUME NEW h \in Handlers, NoAttempt(h) PROVE TypeOK'
      BY <2>4 DEF NoAttempt, Unlocked
    <2>5. ASSUME NEW h \in Handlers, Begin(h) PROVE TypeOK'
      <3>1. refresh' \in Nat \cup {Never} /\ lastRefresh' \in Nat \cup {Never} /\ refreshes' \in Nat
        BY <2>5 DEF Begin, RefreshStamp
      <3> QED
        BY <2>5, <3>1 DEF Begin
    <2>6. ASSUME NEW h \in Handlers, Serve(h) PROVE TypeOK'
      BY <2>6 DEF Serve
    <2>7. ASSUME NEW h \in Handlers, Discovered(h) PROVE TypeOK'
      BY <2>7, <2>0 DEF Discovered, Unlocked
    <2>8. ASSUME NEW h \in Handlers, Fails(h) PROVE TypeOK'
      BY <2>8, <2>0 DEF Fails, Unlocked, FailureStamp, SinceNow
    <2>9. ASSUME NEW h \in Handlers, Proceed(h) PROVE TypeOK'
      BY <2>9, AnswerType, ObtainType DEF Proceed
    <2>10. ASSUME NEW h \in Handlers, Exchange(h) PROVE TypeOK'
      <3>1. CASE Answer(h)
        BY <2>10, <3>1, AnswerType DEF Exchange
      <3>2. CASE ~Answer(h)
        <4>1. \A k \in KeysOf(edition) \cup (Kids \ Published) : k \in Kids
          BY EditionsType
        <4>2. kid' \in [Handlers -> Kids \cup {None}]
          BY <2>10, <3>2, <4>1 DEF Exchange
        <4>3. pc' \in [Handlers -> Steps] /\ UNCHANGED <<kind, held>>
          BY <2>10, <3>2 DEF Exchange
        <4> QED
          BY <2>10, <4>2, <4>3 DEF Exchange
      <3> QED
        BY <3>1, <3>2
    <2>11. ASSUME NEW h \in Handlers, Verify(h) PROVE TypeOK'
      <3>1. CASE kid[h] \in KeysOf(held[h])
        BY <2>11, <3>1, AnswerType DEF Verify
      <3>2. CASE kid[h] \notin KeysOf(held[h])
        BY <2>11, <3>2 DEF Verify
      <3> QED
        BY <3>1, <3>2
    <2>12. ASSUME NEW h \in Handlers, Cancel(h) PROVE TypeOK'
      BY <2>12, <2>0, AnswerType DEF Cancel, Unlocked, SinceNow
    <2>13. CASE Rotate
      BY <2>13 DEF Rotate
    <2>14. CASE Tick
      BY <2>14 DEF Tick
    <2>15. CASE UNCHANGED vars
      BY <2>15 DEF vars
    <2> QED
      BY <2>1, <2>2, <2>3, <2>4, <2>5, <2>6, <2>7, <2>8, <2>9, <2>10, <2>11, <2>12,
         <2>13, <2>14, <2>15 DEF Next, Step
  <1> QED
    BY <1>1, <1>2, PTL DEF Spec
-----------------------------------------------------------------------------
\* Away from the lock a step moves one handler outside it, and leaves the
\* attempts, the client and the history alone.
Apart(h) ==
    /\ pc[h] \notin Holding /\ pc'[h] \notin Holding
    /\ \A q \in Handlers \ {h} : pc'[q] = pc[q] /\ kid'[q] = kid[q]
    /\ UNCHANGED <<clock, edition, client, attempts, snapshot, history>>

LEMMA ApartSteps ==
    ASSUME TypeOK, NEW h \in Handlers,
           Arrive(h) \/ Client(h) \/ Proceed(h) \/ Exchange(h) \/ Verify(h)
    PROVE  Apart(h)
  <1> USE DEF TypeOK, Apart, Holding, Goto, request, provider
  <1>1. CASE Arrive(h)
    BY <1>1 DEF Arrive
  <1>2. CASE Client(h)
    BY <1>2 DEF Client, Obtain, Answer
  <1>3. CASE Proceed(h)
    BY <1>3 DEF Proceed, Obtain, Answer
  <1>4. CASE Exchange(h)
    BY <1>4 DEF Exchange, Answer
  <1>5. CASE Verify(h)
    BY <1>5 DEF Verify, Answer
  <1> QED
    BY <1>1, <1>2, <1>3, <1>4, <1>5

\* A dropped handler's lock goes with it, and so does its attempt.
LEMMA CancelStep ==
    ASSUME TypeOK, NEW h \in Handlers, Cancel(h)
    PROVE  /\ pc' = [pc EXCEPT ![h] = "idle"]
           /\ \A q \in Handlers \ {h} : kid'[q] = kid[q] /\ snapshot'[q] = snapshot[q]
           /\ gate' = IF gate = h THEN None ELSE gate
           /\ since' = IF pc[h] \in Attempting THEN SinceNow ELSE since
           /\ UNCHANGED <<clock, edition, client, failure, refresh, lastStart, lastRefresh,
                          refreshes, lastFailure>>
  BY DEF Cancel, Answer, Goto, Unlocked, TypeOK, provider

\* The lock has exactly the owner that is past taking it and not yet past
\* dropping it, a dropped handler's included: two discoveries never run at once
\* (provider.rs:112-138).
THEOREM Exclusive == Spec => []SingleFlight
  <1>1. Init => SingleFlight
    <2> SUFFICES ASSUME Init PROVE SingleFlight
      OBVIOUS
    <2>1. gate = None /\ \A h \in Handlers : pc[h] \notin Holding /\ h # None
      BY HandlersAssumption DEF Init, Holding
    <2> QED
      BY <2>1 DEF SingleFlight
  <1>2. TypeOK /\ SingleFlight /\ [Next]_vars => SingleFlight'
    <2> SUFFICES ASSUME TypeOK, SingleFlight, [Next]_vars PROVE SingleFlight'
      OBVIOUS
    <2> USE HandlersAssumption DEF TypeOK, SingleFlight, Holding
    <2>1. ASSUME NEW h \in Handlers,
                 Arrive(h) \/ Client(h) \/ Proceed(h) \/ Exchange(h) \/ Verify(h)
          PROVE  SingleFlight'
      BY <2>1, ApartSteps DEF Apart, attempts
    <2>2. ASSUME NEW h \in Handlers, Acquire(h) PROVE SingleFlight'
      BY <2>2 DEF Acquire, GateFree, Goto
    <2>3. ASSUME NEW h \in Handlers, NoAttempt(h) PROVE SingleFlight'
      BY <2>3 DEF NoAttempt, Unlocked, Goto
    <2>4. ASSUME NEW h \in Handlers, Begin(h) PROVE SingleFlight'
      BY <2>4 DEF Begin, Goto
    <2>5. ASSUME NEW h \in Handlers, Serve(h) PROVE SingleFlight'
      BY <2>5 DEF Serve, Goto, attempts
    <2>6. ASSUME NEW h \in Handlers, Discovered(h) PROVE SingleFlight'
      BY <2>6 DEF Discovered, Unlocked, Goto
    <2>7. ASSUME NEW h \in Handlers, Fails(h) PROVE SingleFlight'
      BY <2>7 DEF Fails, Unlocked, Goto, Attempting
    <2>8. ASSUME NEW h \in Handlers, Cancel(h) PROVE SingleFlight'
      <3>1. pc' = [pc EXCEPT ![h] = "idle"] /\ gate' = IF gate = h THEN None ELSE gate
        BY <2>8, CancelStep
      <3> QED
        BY <3>1
    <2>9. CASE Rotate \/ Tick \/ UNCHANGED vars
      BY <2>9 DEF Rotate, Tick, vars, attempts
    <2> QED
      BY <2>1, <2>2, <2>3, <2>4, <2>5, <2>6, <2>7, <2>8, <2>9 DEF Next, Step
  <1> QED
    BY <1>1, <1>2, TypeCorrect, PTL DEF Spec

\* Who holds the lock is alone past it.
LEMMA AloneInside ==
    ASSUME SingleFlight, NEW h \in Handlers, pc[h] \in Holding
    PROVE  \A q \in Handlers \ {h} : pc[q] \notin Holding
  BY DEF SingleFlight
-----------------------------------------------------------------------------
\* What the cooldowns rest on: the refresh cooldown is armed since the latest
\* refresh began; the failure one since the latest failure, unless an attempt has
\* succeeded since, which no attempt may do within a cooldown of that failure.
StampsInPast ==
    /\ lastStart <= clock /\ lastFailure <= clock
    /\ lastRefresh <= lastStart
    /\ \A h \in Handlers : pc[h] \in Attempting => lastStart # Never
RefreshArmed == refresh = lastRefresh
Spaced == lastFailure = Never \/ clock - lastFailure >= Cooldown
FailureArmed ==
    /\ failure \in {Never, lastFailure}
    /\ failure = Never => Spaced
    /\ \A h \in Handlers : pc[h] \in Attempting => Spaced

CooldownInv == StampsInPast /\ RefreshArmed /\ FailureArmed

LEMMA CooldownStep ==
    ASSUME TypeOK, SingleFlight, CooldownInv, [Next]_vars
    PROVE  CooldownInv'
  <1> USE DEF TypeOK, CooldownInv, StampsInPast, RefreshArmed, FailureArmed, Spaced, Attempting, Never
  <1>1. ASSUME NEW h \in Handlers,
               Arrive(h) \/ Client(h) \/ Proceed(h) \/ Exchange(h) \/ Verify(h)
        PROVE  CooldownInv'
    <2>1. \A q \in Handlers : pc'[q] \in Attempting => pc[q] \in Attempting
      BY <1>1, ApartSteps DEF Apart, Holding
    <2>2. UNCHANGED <<clock, failure, refresh, lastStart, lastRefresh, lastFailure>>
      BY <1>1, ApartSteps DEF Apart, attempts, history
    <2> QED
      BY <2>1, <2>2
  <1>2. ASSUME NEW h \in Handlers, Acquire(h) \/ NoAttempt(h) \/ Serve(h) PROVE CooldownInv'
    <2>1. \A q \in Handlers : pc'[q] \in Attempting => pc[q] \in Attempting
      BY <1>2 DEF Acquire, NoAttempt, Serve, Goto
    <2>2. UNCHANGED <<clock, failure, refresh, lastStart, lastRefresh, lastFailure>>
      BY <1>2 DEF Acquire, NoAttempt, Serve, attempts, history
    <2> QED
      BY <2>1, <2>2
  <1>3. ASSUME NEW h \in Handlers, Begin(h) PROVE CooldownInv'
    <2>1. Spaced
      BY <1>3, TimesAssumption DEF Begin, OnCooldown, Recent
    <2>2. /\ lastStart' = clock
          /\ lastRefresh' = IF IsRefresh(h) THEN clock ELSE lastRefresh
          /\ refresh' = IF IsRefresh(h) THEN clock ELSE refresh
          /\ UNCHANGED <<clock, failure, lastFailure>>
      BY <1>3 DEF Begin, RefreshStamp
    <2> QED
      BY <2>1, <2>2
  <1>4. ASSUME NEW h \in Handlers, Discovered(h) PROVE CooldownInv'
    <2>1. Spaced
      BY <1>4 DEF Discovered
    <2>2. failure' = Never /\ UNCHANGED <<clock, refresh, lastStart, lastRefresh, lastFailure>>
      BY <1>4 DEF Discovered, history
    <2>3. \A q \in Handlers : pc'[q] \in Attempting => pc[q] \in Attempting
      BY <1>4 DEF Discovered, Goto
    <2> QED
      BY <2>1, <2>2, <2>3
  <1>5. ASSUME NEW h \in Handlers, Fails(h) PROVE CooldownInv'
    <2>1. failure' = clock /\ lastFailure' = clock
              /\ UNCHANGED <<clock, refresh, lastStart, lastRefresh>>
      BY <1>5 DEF Fails, FailureStamp
    <2>2. \A q \in Handlers : pc'[q] \notin Attempting
      BY <1>5, AloneInside DEF Fails, Goto, Holding
    <2> QED
      BY <2>1, <2>2
  <1>6. ASSUME NEW h \in Handlers, Cancel(h) PROVE CooldownInv'
    <2>1. pc' = [pc EXCEPT ![h] = "idle"]
              /\ UNCHANGED <<clock, failure, refresh, lastStart, lastRefresh, lastFailure>>
      BY <1>6, CancelStep
    <2> QED
      BY <2>1
  <1>7. CASE Tick
    <2>1. pc' = pc /\ clock' = clock + 1
              /\ UNCHANGED <<failure, refresh, lastStart, lastRefresh, lastFailure>>
      BY <1>7 DEF Tick, attempts, history
    <2>2. Spaced => Spaced'
      BY <2>1, TimesAssumption
    <2> QED
      BY <2>1, <2>2
  <1>8. CASE Rotate \/ UNCHANGED vars
    BY <1>8 DEF Rotate, vars, attempts, history
  <1> QED
    BY <1>1, <1>2, <1>3, <1>4, <1>5, <1>6, <1>7, <1>8 DEF Next, Step

LEMMA CooldownInvariant == Spec => []CooldownInv
  <1>1. Init => CooldownInv
    BY DEF Init, CooldownInv, StampsInPast, RefreshArmed, FailureArmed, Spaced, Attempting, Never
  <1>2. TypeOK /\ SingleFlight /\ CooldownInv /\ [Next]_vars => CooldownInv'
    BY CooldownStep
  <1> QED
    BY <1>1, <1>2, TypeCorrect, Exclusive, PTL DEF Spec

\* While the provider is down it sees one attempt per cooldown window, whichever
\* kind it is, whatever succeeds in between (provider.rs:24-27).
THEOREM FailuresAreSpaced == Spec => FailuresSpaced
  <1>1. TypeOK /\ CooldownInv => \A h \in Handlers : Begin(h) =>
            lastFailure = Never \/ clock - lastFailure >= Cooldown
    BY TimesAssumption
       DEF TypeOK, CooldownInv, FailureArmed, Spaced, Begin, OnCooldown, Recent, Never
  <1> QED
    BY <1>1, TypeCorrect, CooldownInvariant, PTL DEF FailuresSpaced

\* No refresh is refused on account of a first discovery that succeeded
\* (provider.rs:27-28).
THEOREM FirstIsFree == Spec => FirstDiscoveryIsFree
  <1>1. CooldownInv => \A h \in Handlers : NoAttempt(h) /\ IsRefresh(h) =>
            Recent(lastRefresh) \/ Recent(lastFailure)
    BY DEF CooldownInv, RefreshArmed, FailureArmed, NoAttempt, DiscoveredMeanwhile,
           OnCooldown, Recent
  <1> QED
    BY <1>1, CooldownInvariant, PTL DEF FirstDiscoveryIsFree
-----------------------------------------------------------------------------
\* Key refreshes are a rate gate, for every load, every answer and every
\* disconnect: the provider sees one at a time and starts a cooldown apart
\* (provider.rs:24-25, 122-124).
THEOREM RefreshesAreGated == Spec => RefreshLimited
  <1>1. Init => RG!Init
    BY DEF Init, RG!Init, Never, RG!Never, Attempting
  <1>2. TypeOK /\ SingleFlight /\ CooldownInv /\ [Next]_vars => [RG!Next]_RG!vars
    <2> SUFFICES ASSUME TypeOK, SingleFlight, CooldownInv, [Next]_vars
                 PROVE  RG!Next \/ UNCHANGED RG!vars
      OBVIOUS
    <2> USE DEF RG!vars, IsRefresh
    <2>1. ASSUME NEW h \in Handlers,
                 Arrive(h) \/ Client(h) \/ Proceed(h) \/ Exchange(h) \/ Verify(h)
          PROVE  UNCHANGED RG!vars
      <3>1. UNCHANGED <<clock, lastRefresh, refreshes>>
        BY <2>1, ApartSteps DEF Apart, history
      <3>2. \A q \in Handlers : /\ pc'[q] \in Attempting <=> pc[q] \in Attempting
                                /\ pc[q] \in Attempting => kid'[q] = kid[q]
        BY <2>1, ApartSteps DEF Apart, Holding, Attempting
      <3> QED
        BY <3>1, <3>2
    <2>2. ASSUME NEW h \in Handlers, Acquire(h) \/ NoAttempt(h) \/ Serve(h)
          PROVE  UNCHANGED RG!vars
      <3>1. UNCHANGED <<clock, lastRefresh, refreshes, kid>>
        BY <2>2 DEF Acquire, NoAttempt, Serve, history, request
      <3>2. \A q \in Handlers : pc'[q] \in Attempting <=> pc[q] \in Attempting
        BY <2>2 DEF Acquire, NoAttempt, Serve, Goto, Attempting, TypeOK
      <3> QED
        BY <3>1, <3>2
    <2>3. ASSUME NEW h \in Handlers, Begin(h) PROVE RG!Begin \/ UNCHANGED RG!vars
      <3>1. \A q \in Handlers : pc[q] \notin Attempting
        BY <2>3, AloneInside DEF Begin, Holding, Attempting
      <3>2. pc' = [pc EXCEPT ![h] = "fetch"] /\ kid' = kid /\ clock' = clock
        BY <2>3 DEF Begin, Goto, request
      <3>3. CASE kid[h] # None
        <4>1. lastRefresh' = clock /\ refreshes' = refreshes + 1
          BY <2>3, <3>3 DEF Begin
        <4>2. lastRefresh # Never => clock >= lastRefresh + Cooldown
          BY <2>3, <3>3, TimesAssumption
             DEF Begin, OnCooldown, Recent, CooldownInv, RefreshArmed, TypeOK, Never
        <4>3. (\E q \in Handlers : pc'[q] \in Attempting /\ kid'[q] # None)
          BY <3>2, <3>3 DEF Attempting, TypeOK
        <4> QED
          BY <3>1, <3>2, <4>1, <4>2, <4>3 DEF RG!Begin, RG!Never, Never
      <3>4. CASE kid[h] = None
        <4>1. UNCHANGED <<lastRefresh, refreshes>>
          BY <2>3, <3>4 DEF Begin
        <4>2. ~\E q \in Handlers : pc'[q] \in Attempting /\ kid'[q] # None
          BY <3>1, <3>2, <3>4 DEF TypeOK
        <4> QED
          BY <3>1, <3>2, <4>1, <4>2
      <3> QED
        BY <3>3, <3>4
    <2>4. ASSUME NEW h \in Handlers, Discovered(h) \/ Fails(h) \/ Cancel(h)
          PROVE  RG!End \/ UNCHANGED RG!vars
      <3>1. UNCHANGED <<clock, lastRefresh, refreshes>>
        BY <2>4, CancelStep DEF Discovered, Fails, history
      <3>2. \A q \in Handlers \ {h} : pc'[q] = pc[q] /\ kid'[q] = kid[q]
        BY <2>4, CancelStep DEF Discovered, Fails, Goto, request, TypeOK
      <3>3. pc'[h] \notin Attempting
        BY <2>4, CancelStep DEF Discovered, Fails, Goto, Attempting, TypeOK
      <3>4. pc[h] \in Attempting => \A q \in Handlers \ {h} : pc[q] \notin Attempting
        BY AloneInside DEF Holding, Attempting
      <3>5. CASE pc[h] \in Attempting /\ kid[h] # None
        BY <3>1, <3>2, <3>3, <3>4, <3>5 DEF RG!End
      <3>6. CASE ~(pc[h] \in Attempting /\ kid[h] # None)
        BY <3>1, <3>2, <3>3, <3>6
      <3> QED
        BY <3>5, <3>6
    <2>5. CASE Tick
      <3>1. clock' = clock + 1 /\ UNCHANGED <<pc, kid, lastRefresh, refreshes>>
        BY <2>5 DEF Tick, history, request
      <3> QED
        BY <3>1 DEF RG!Next, RG!Tick
    <2>6. CASE Rotate \/ UNCHANGED vars
      BY <2>6 DEF Rotate, vars, request, history
    <2> QED
      BY <2>1, <2>2, <2>3, <2>4, <2>5, <2>6 DEF Next, Step, RG!Next
  <1> QED
    BY <1>1, <1>2, TypeCorrect, Exclusive, CooldownInvariant, PTL
       DEF Spec, RefreshLimited, RG!Spec
-----------------------------------------------------------------------------
\* What brings a rotated key into the client in time: the provider still publishes
\* a key it is waited for, an attempt begun since then is answered with it, and once
\* no attempt runs the client has it if a refresh has begun since.  A failed or a
\* dropped attempt starts the wait anew.
StillPublished == \A k \in Kids : since[k] # Never => since[k] <= clock /\ k \in KeysOf(edition)
FailedBefore == \A k \in Kids : since[k] # Never => lastFailure <= since[k]
AnswerHolds ==
    \A h \in Handlers, k \in Kids :
        pc[h] = "served" /\ since[k] # Never /\ lastStart > since[k] => k \in KeysOf(snapshot[h])
ClientHolds ==
    (\A h \in Handlers : pc[h] \notin Attempting) =>
        \A k \in Kids : since[k] # Never /\ lastRefresh > since[k] => k \in KeysOf(client)

PickUpInv == StillPublished /\ FailedBefore /\ AnswerHolds /\ ClientHolds

LEMMA PickUpStep ==
    ASSUME TypeOK, SingleFlight, CooldownInv, PickUpInv, [Next]_vars
    PROVE  PickUpInv'
  <1> USE DEF TypeOK, PickUpInv, StillPublished, FailedBefore, AnswerHolds, ClientHolds,
              Attempting, KeysOf, Never
  <1>0. lastStart <= clock /\ lastFailure <= clock /\ lastRefresh <= lastStart
    BY DEF CooldownInv, StampsInPast
  <1>1. ASSUME NEW h \in Handlers,
               Arrive(h) \/ Client(h) \/ Proceed(h) \/ Exchange(h) \/ Verify(h)
        PROVE  PickUpInv'
    <2>1. \A q \in Handlers : /\ pc'[q] \in Attempting <=> pc[q] \in Attempting
                              /\ pc'[q] = "served" => pc[q] = "served"
      BY <1>1, ApartSteps DEF Apart, Holding
    <2>2. UNCHANGED <<clock, edition, client, snapshot, lastStart, lastRefresh, lastFailure, since>>
      BY <1>1, ApartSteps DEF Apart, history
    <2> QED
      BY <2>1, <2>2
  <1>2. ASSUME NEW h \in Handlers, Acquire(h) \/ NoAttempt(h) PROVE PickUpInv'
    <2>1. \A q \in Handlers : /\ pc'[q] \in Attempting <=> pc[q] \in Attempting
                              /\ pc'[q] = "served" => pc[q] = "served"
      BY <1>2 DEF Acquire, NoAttempt, Goto
    <2>2. UNCHANGED <<clock, edition, client, snapshot, lastStart, lastRefresh, lastFailure, since>>
      BY <1>2 DEF Acquire, NoAttempt, history, provider
    <2> QED
      BY <2>1, <2>2
  <1>3. ASSUME NEW h \in Handlers, Begin(h) PROVE PickUpInv'
    <2>1. pc'[h] = "fetch" /\ \A q \in Handlers : pc'[q] # "served"
      BY <1>3, AloneInside DEF Begin, Goto, Holding
    <2>2. UNCHANGED <<clock, edition, lastFailure, since>>
      BY <1>3 DEF Begin, provider
    <2> QED
      BY <2>1, <2>2
  <1>4. ASSUME NEW h \in Handlers, Serve(h) PROVE PickUpInv'
    <2>1. pc' = [pc EXCEPT ![h] = "served"] /\ snapshot' = [snapshot EXCEPT ![h] = edition]
              /\ UNCHANGED <<clock, edition, client, lastStart, lastRefresh, lastFailure, since>>
      BY <1>4 DEF Serve, Goto, provider, history
    <2> QED
      BY <2>1
  <1>5. ASSUME NEW h \in Handlers, Discovered(h) PROVE PickUpInv'
    <2>1. client' = snapshot[h] /\ pc[h] = "served" /\ pc' = [pc EXCEPT ![h] = "discovered"]
              /\ UNCHANGED <<clock, edition, lastStart, lastRefresh, lastFailure, since>>
      BY <1>5 DEF Discovered, Goto, provider, history
    <2>2. \A q \in Handlers : pc'[q] # "served"
      BY <2>1, AloneInside DEF Holding
    <2>3. ClientHolds'
      BY <1>0, <2>1
    <2> QED
      BY <2>1, <2>2, <2>3
  <1>6. ASSUME NEW h \in Handlers, Fails(h) \/ (Cancel(h) /\ pc[h] \in Attempting)
        PROVE  PickUpInv'
    <2>1. \A q \in Handlers : pc'[q] # "served"
      <3>1. pc[h] \in Holding /\ \A q \in Handlers \ {h} : pc[q] # "served"
        BY <1>6, AloneInside DEF Fails, Holding
      <3>2. pc'[h] # "served" /\ \A q \in Handlers \ {h} : pc'[q] = pc[q]
        BY <1>6, CancelStep DEF Fails, Goto
      <3> QED
        BY <3>1, <3>2
    <2>2. since' = SinceNow /\ lastFailure' \in {clock, lastFailure}
              /\ UNCHANGED <<clock, edition, client, lastStart, lastRefresh>>
      BY <1>6, CancelStep DEF Fails, provider
    <2>3. \A k \in Kids : since'[k] # Never => since[k] # Never /\ since'[k] = clock
      BY <2>2 DEF SinceNow
    <2>4. StillPublished'
      BY <2>2, <2>3
    <2>5. FailedBefore'
      BY <1>0, <2>2, <2>3
    <2>6. AnswerHolds'
      BY <2>1
    <2>7. ClientHolds'
      BY <1>0, <2>2, <2>3
    <2> QED
      BY <2>4, <2>5, <2>6, <2>7
  <1>7. ASSUME NEW h \in Handlers, Cancel(h), pc[h] \notin Attempting PROVE PickUpInv'
    <2>1. /\ pc' = [pc EXCEPT ![h] = "idle"]
          /\ \A q \in Handlers \ {h} : snapshot'[q] = snapshot[q]
          /\ UNCHANGED <<clock, edition, client, lastStart, lastRefresh, lastFailure, since>>
      BY <1>7, CancelStep
    <2> QED
      BY <1>7, <2>1
  <1>8. CASE Rotate
    <2>1. \A k \in Kids : since'[k] # Never =>
              /\ k \in KeysOf(edition')
              /\ since'[k] = clock \/ (since'[k] = since[k] /\ since[k] # Never)
      BY <1>8, EditionsType DEF Rotate
    <2>2. UNCHANGED <<clock, client, pc, snapshot, lastStart, lastRefresh, lastFailure>>
      BY <1>8 DEF Rotate
    <2>0. clock \in Int /\ lastStart \in Int /\ lastRefresh \in Int
      OBVIOUS
    <2>3. StillPublished'
      BY <2>1, <2>2
    <2>4. FailedBefore'
      BY <1>0, <2>1, <2>2
    <2>5. AnswerHolds'
      <3>1. \A k \in Kids : since'[k] # Never /\ lastStart' > since'[k]
                => since[k] # Never /\ lastStart > since[k]
        <4> SUFFICES ASSUME NEW k \in Kids, since'[k] # Never, lastStart > since'[k]
                     PROVE  since[k] # Never /\ since'[k] = since[k]
          BY <2>2
        <4>1. since'[k] # clock
          BY <1>0, <2>0
        <4> QED
          BY <2>1, <4>1
      <3> QED
        BY <2>2, <3>1
    <2>6. ClientHolds'
      <3>1. \A k \in Kids : since'[k] # Never /\ lastRefresh' > since'[k]
                => since[k] # Never /\ lastRefresh > since[k]
        <4> SUFFICES ASSUME NEW k \in Kids, since'[k] # Never, lastRefresh > since'[k]
                     PROVE  since[k] # Never /\ since'[k] = since[k]
          BY <2>2
        <4>1. since'[k] # clock
          BY <1>0, <2>0
        <4> QED
          BY <2>1, <4>1
      <3> QED
        BY <2>2, <3>1
    <2> QED
      BY <2>3, <2>4, <2>5, <2>6
  <1>9. CASE Tick \/ UNCHANGED vars
    <2>1. /\ UNCHANGED <<edition, client, pc, snapshot, lastStart, lastRefresh, lastFailure, since>>
          /\ clock <= clock' /\ clock' \in Int
      BY <1>9 DEF Tick, vars, provider, history
    <2>2. StillPublished'
      BY <2>1
    <2> QED
      BY <2>1, <2>2
  <1> QED
    BY <1>1, <1>2, <1>3, <1>4, <1>5, <1>6, <1>7, <1>8, <1>9 DEF Next, Step

\* A key the provider has published for a cooldown, without an attempt that failed
\* or was dropped since, is never refused by the cooldown: "a rotation heals itself"
\* (provider.rs:7-9).
THEOREM PickedUp == Spec => RotatedKeyPickedUp
  <1>1. Init => PickUpInv
    <2> SUFFICES ASSUME Init PROVE PickUpInv
      OBVIOUS
    <2>1. \A k \in Kids : since[k] # Never => since[k] = 0 /\ k \in KeysOf(edition)
      BY DEF Init, KeysOf, Never
    <2> QED
      BY <2>1 DEF Init, PickUpInv, StillPublished, FailedBefore, AnswerHolds, ClientHolds, Never
  <1>2. TypeOK /\ SingleFlight /\ CooldownInv /\ PickUpInv /\ [Next]_vars => PickUpInv'
    BY PickUpStep
  <1>3. TypeOK /\ SingleFlight /\ CooldownInv /\ PickUpInv =>
            \A h \in Handlers : NoAttempt(h) /\ IsRefresh(h) =>
                kid[h] \in KeysOf(client) \/ ~Due(kid[h])
    <2> SUFFICES ASSUME TypeOK, SingleFlight, CooldownInv, PickUpInv, NEW h \in Handlers,
                        NoAttempt(h), IsRefresh(h), Due(kid[h])
                 PROVE  kid[h] \in KeysOf(client)
      OBVIOUS
    <2>1. kid[h] \in Kids /\ since[kid[h]] \in Nat /\ since[kid[h]] # Never
      BY DEF TypeOK, IsRefresh, Due, Never
    <2>2. ~Recent(failure)
      BY <2>1, TimesAssumption
         DEF Recent, Due, TypeOK, CooldownInv, FailureArmed, PickUpInv, FailedBefore, Never
    <2>3. Recent(lastRefresh)
      BY <2>2 DEF NoAttempt, DiscoveredMeanwhile, OnCooldown, CooldownInv, RefreshArmed
    <2>4. lastRefresh > since[kid[h]]
      BY <2>1, <2>3, TimesAssumption DEF Recent, Due, TypeOK, Never
    <2>5. \A q \in Handlers : pc[q] \notin Attempting
      BY AloneInside DEF NoAttempt, Holding, Attempting
    <2> QED
      BY <2>1, <2>4, <2>5 DEF PickUpInv, ClientHolds
  <1> QED
    BY <1>1, <1>2, <1>3, TypeCorrect, Exclusive, CooldownInvariant, PTL
       DEF Spec, RotatedKeyPickedUp
=============================================================================
