----------------------------- MODULE Discovery ------------------------------
(***************************************************************************)
(* Lazy discovery of the identity provider, src/login/provider.rs, with the  *)
(* sign-in handlers that call it: a login needs the discovered client, and   *)
(* discovers if there is none; a callback whose ID token does not verify has  *)
(* the keys fetched again and verifies once more.  One mutex serialises the   *)
(* attempts and holds two cooldowns, of failures and of refreshes.  Handlers  *)
(* are dropped at an await when their client goes away.                      *)
(*                                                                         *)
(* A client is the edition of the provider's key set it was built from, 0 for *)
(* none.                                                                    *)
(***************************************************************************)
EXTENDS Integers, Sequences

CONSTANTS
    Handlers,      \* handler tasks, each serving one request after another
    Kids,          \* the provider's signing keys
    Editions,      \* the key sets the provider publishes, one after another
    Cooldown,      \* COOLDOWN
    FetchMax,      \* the bound the client's timeouts put on one discovery
    Cancellable,   \* the handlers whose client may disconnect
    Horizon,       \* bound on the clock
    None           \* no task, no key

ASSUME TimesAssumption ==
    Cooldown \in Nat \ {0} /\ FetchMax \in Nat /\ Horizon \in Nat
ASSUME EditionsAssumption == Editions \in Seq((SUBSET Kids) \ {{}}) /\ Editions # << >>
ASSUME HandlersAssumption == Cancellable \subseteq Handlers /\ None \notin Handlers \cup Kids

VARIABLES
    clock,        \* the monotonic clock
    edition,      \* the edition the provider publishes
    client,       \* Provider.client
    gate,         \* the task holding the lock on attempts
    failure,      \* Attempts.failure
    refresh,      \* Attempts.refresh
    pc,           \* where each handler is
    kind,         \* the request it serves
    held,         \* the client it obtained
    kid,          \* the key that signed its ID token, None before it has one
    snapshot,     \* the edition its discovery was answered with
    lastStart,    \* when the latest attempt began
    lastRefresh,  \* history: when the latest refresh began
    refreshes,    \* history: how many refreshes have begun
    lastFailure,  \* history: when the latest attempt failed
    since         \* history: from when a key has been published without an attempt
                  \* that failed or was dropped

provider == <<edition>>
attempts == <<gate, failure, refresh>>
request == <<kind, held, kid>>
history == <<lastStart, lastRefresh, refreshes, lastFailure, since>>
vars == <<clock, edition, client, attempts, pc, request, snapshot, history>>

Never == -1
Steps == {"idle", "client", "gate", "locked", "fetch", "served", "discovered", "exchange", "verify"}

\* Where a task owns the lock, and where its attempt runs.  Only a handler whose
\* token failed to verify asks for a refresh.
Holding == {"locked", "fetch", "served"}
Attempting == {"fetch", "served"}
IsRefresh(h) == kid[h] # None

KeysOf(e) == IF e = 0 THEN {} ELSE Editions[e]
Published == UNION {Editions[e] : e \in 1..Len(Editions)}

TypeOK ==
    /\ clock \in Nat
    /\ edition \in 1..Len(Editions)
    /\ client \in 0..Len(Editions)
    /\ gate \in Handlers \cup {None}
    /\ {failure, refresh, lastStart, lastRefresh, lastFailure} \subseteq Nat \cup {Never}
    /\ pc \in [Handlers -> Steps]
    /\ kind \in [Handlers -> {"login", "callback"}]
    /\ held \in [Handlers -> 0..Len(Editions)]
    /\ kid \in [Handlers -> Kids \cup {None}]
    /\ snapshot \in [Handlers -> 0..Len(Editions)]
    /\ refreshes \in Nat
    /\ since \in [Kids -> Nat \cup {Never}]

\* Nothing runs at start-up: the service starts whether or not the provider is up.
Init ==
    /\ clock = 0
    /\ edition = 1
    /\ client = 0
    /\ gate = None /\ failure = Never /\ refresh = Never
    /\ pc = [h \in Handlers |-> "idle"]
    /\ kind = [h \in Handlers |-> "login"]
    /\ held = [h \in Handlers |-> 0]
    /\ kid = [h \in Handlers |-> None]
    /\ snapshot = [h \in Handlers |-> 0]
    /\ lastStart = Never /\ lastRefresh = Never /\ refreshes = 0 /\ lastFailure = Never
    /\ since = [k \in Kids |-> IF k \in Editions[1] THEN 0 ELSE Never]
-----------------------------------------------------------------------------
Goto(h, step) == pc' = [pc EXCEPT ![h] = step]

\* The handler answers; nothing of its request is left.
Answer(h) ==
    /\ Goto(h, "idle")
    /\ kind' = [kind EXCEPT ![h] = "login"]
    /\ held' = [held EXCEPT ![h] = 0]
    /\ kid' = [kid EXCEPT ![h] = None]

\* With a client in hand a login redirects to the provider; a callback goes on.
Obtain(h) ==
    IF kind[h] = "login" THEN Answer(h)
    ELSE Goto(h, "exchange") /\ held' = [held EXCEPT ![h] = client] /\ UNCHANGED <<kind, kid>>

\* tokio's Mutex and the drop of its guard, and what a leaked one does.
GateFree == gate = None
GuardLeaked == gate
Unlocked == None

\* provider.rs:115; without its first half a refresh is content with any client.
AnyClientWillDo(h) == client # 0
DiscoveredMeanwhile(h) == ~IsRefresh(h) /\ client # 0

\* provider.rs:118-121
Recent(t) == t # Never /\ clock - t < Cooldown
OnCooldown(h) == Recent(failure) \/ (IsRefresh(h) /\ Recent(refresh))

\* provider.rs:122-124: a refresh, and nothing else, arms its cooldown as it begins.
NeverStamped(h) == refresh
RefreshStamp(h) == IF IsRefresh(h) THEN clock ELSE refresh

\* provider.rs:134; the variant notes only a refresh's.
FailedRefreshOnly(h) == IF IsRefresh(h) THEN clock ELSE failure
FailureStamp(h) == clock

\* A failed or a dropped attempt starts the wait for a published key anew.
SinceNow == [k \in Kids |-> IF since[k] = Never THEN Never ELSE clock]
-----------------------------------------------------------------------------
Arrive(h) ==
    /\ pc[h] = "idle"
    /\ \E k \in {"login", "callback"} : kind' = [kind EXCEPT ![h] = k]
    /\ Goto(h, "client")
    /\ UNCHANGED <<clock, provider, client, attempts, held, kid, snapshot, history>>

\* Provider::client: the discovered client, or the way to discover() for one.
Client(h) ==
    /\ pc[h] = "client"
    /\ IF client # 0 THEN Obtain(h) ELSE Goto(h, "gate") /\ UNCHANGED request
    /\ UNCHANGED <<clock, provider, client, attempts, snapshot, history>>

Acquire(h) ==
    /\ pc[h] = "gate"
    /\ GateFree
    /\ gate' = h
    /\ Goto(h, "locked")
    /\ UNCHANGED <<clock, provider, client, failure, refresh, request, snapshot, history>>

\* discover() returns without an attempt.
NoAttempt(h) ==
    /\ pc[h] = "locked"
    /\ DiscoveredMeanwhile(h) \/ OnCooldown(h)
    /\ gate' = Unlocked
    /\ Goto(h, "discovered")
    /\ UNCHANGED <<clock, provider, client, failure, refresh, request, snapshot, history>>

Begin(h) ==
    /\ pc[h] = "locked"
    /\ ~DiscoveredMeanwhile(h)
    /\ ~OnCooldown(h)
    /\ refresh' = RefreshStamp(h)
    /\ lastStart' = clock
    /\ lastRefresh' = IF IsRefresh(h) THEN clock ELSE lastRefresh
    /\ refreshes' = IF IsRefresh(h) THEN refreshes + 1 ELSE refreshes
    /\ Goto(h, "fetch")
    /\ UNCHANGED <<clock, provider, client, gate, failure, request, snapshot, lastFailure, since>>

\* The provider answers with the keys it publishes at that moment.
Serve(h) ==
    /\ pc[h] = "fetch"
    /\ snapshot' = [snapshot EXCEPT ![h] = edition]
    /\ Goto(h, "served")
    /\ UNCHANGED <<clock, provider, client, attempts, request, history>>

Discovered(h) ==
    /\ pc[h] = "served"
    /\ client' = snapshot[h]
    /\ snapshot' = [snapshot EXCEPT ![h] = 0]
    /\ failure' = Never
    /\ gate' = Unlocked
    /\ Goto(h, "discovered")
    /\ UNCHANGED <<clock, provider, refresh, request, history>>

\* Refused, unreadable, or cut off by a timeout, before or after the answer.
Fails(h) ==
    /\ pc[h] \in Attempting
    /\ snapshot' = [snapshot EXCEPT ![h] = 0]
    /\ failure' = FailureStamp(h)
    /\ lastFailure' = clock
    /\ since' = SinceNow
    /\ gate' = Unlocked
    /\ Goto(h, "discovered")
    /\ UNCHANGED <<clock, provider, client, refresh, request, lastStart, lastRefresh, refreshes>>

\* After discover(): the client that is there now, or the answer that there is
\* none; after a refresh the token is verified once more, and that is the answer.
Proceed(h) ==
    /\ pc[h] = "discovered"
    /\ IF IsRefresh(h) \/ client = 0 THEN Answer(h) ELSE Obtain(h)
    /\ UNCHANGED <<clock, provider, client, attempts, snapshot, history>>

\* The code exchange fails, or brings an ID token the provider signed with a key
\* it publishes, or one that verifies under none (another sign-in's nonce).
Exchange(h) ==
    /\ pc[h] = "exchange"
    /\ \/ Answer(h)
       \/ /\ \E k \in KeysOf(edition) \cup (Kids \ Published) : kid' = [kid EXCEPT ![h] = k]
          /\ Goto(h, "verify")
          /\ UNCHANGED <<kind, held>>
    /\ UNCHANGED <<clock, provider, client, attempts, snapshot, history>>

\* The first verification, with the keys of the client obtained before the exchange.
Verify(h) ==
    /\ pc[h] = "verify"
    /\ IF kid[h] \in KeysOf(held[h]) THEN Answer(h) ELSE Goto(h, "gate") /\ UNCHANGED request
    /\ UNCHANGED <<clock, provider, client, attempts, snapshot, history>>

\* The browser went away: the handler is dropped at its await, and its guard with it.
Cancel(h) ==
    /\ h \in Cancellable
    /\ pc[h] \in {"gate", "fetch", "served", "exchange"}
    /\ gate' = IF gate = h THEN Unlocked ELSE gate
    /\ snapshot' = [snapshot EXCEPT ![h] = 0]
    /\ since' = IF pc[h] \in Attempting THEN SinceNow ELSE since
    /\ Answer(h)
    /\ UNCHANGED <<clock, provider, client, failure, refresh, lastStart, lastRefresh,
                   refreshes, lastFailure>>

Rotate ==
    /\ edition < Len(Editions)
    /\ edition' = edition + 1
    /\ since' = [k \in Kids |->
                   IF k \notin Editions[edition'] THEN Never
                   ELSE IF k \in Editions[edition] THEN since[k] ELSE clock]
    /\ UNCHANGED <<clock, client, attempts, pc, request, snapshot, lastStart,
                   lastRefresh, refreshes, lastFailure>>

\* Time passes, but no attempt outlives the client's timeouts.
Tick ==
    /\ clock < Horizon
    /\ \A h \in Handlers : pc[h] \in Attempting => clock < lastStart + FetchMax
    /\ clock' = clock + 1
    /\ UNCHANGED <<provider, client, attempts, pc, request, snapshot, history>>

Step(h) ==
    \/ Client(h) \/ NoAttempt(h) \/ Begin(h) \/ Serve(h) \/ Discovered(h) \/ Fails(h)
    \/ Proceed(h) \/ Exchange(h) \/ Verify(h)

Next ==
    \/ \E h \in Handlers : Arrive(h) \/ Acquire(h) \/ Step(h) \/ Cancel(h)
    \/ Rotate
    \/ Tick

Spec == Init /\ [][Next]_vars

\* The runtime polls a task that can proceed, an attempt ends at its timeout at the
\* latest, and tokio's Mutex hands the lock out in queue order.
Fairness == \A h \in Handlers : WF_vars(Step(h)) /\ SF_vars(Acquire(h))

FairSpec == Spec /\ Fairness
-----------------------------------------------------------------------------
\* One attempt at a time: the lock's owner is the task between taking and dropping
\* it, disconnects included (provider.rs:112-138).
SingleFlight == \A h \in Handlers : pc[h] \in Holding <=> gate = h

\* Key refreshes as the provider sees them: one at a time, their starts at least a
\* cooldown apart.  They arm before the await, so a disconnect changes nothing
\* (provider.rs:24-25, 122-124).
RG == INSTANCE RateGate WITH
          Interval <- Cooldown, started <- lastRefresh, calls <- refreshes,
          active <- \E h \in Handlers : pc[h] \in Attempting /\ IsRefresh(h)

RefreshLimited == RG!Spec

\* No attempt, first discovery or refresh, begins within a cooldown of a failed one
\* of either kind, although a success forgets the failure: while the provider is down,
\* one attempt per window, however many sign-ins wait (provider.rs:24-27, 118-134).
FailuresSpaced ==
    [][\A h \in Handlers : Begin(h) =>
          lastFailure = Never \/ clock - lastFailure >= Cooldown]_vars

\* A successful first discovery does not start the cooldown (provider.rs:27-28): a
\* token that failed to verify goes without a refresh only within a cooldown of
\* another refresh or of a failure.
FirstDiscoveryIsFree ==
    [][\A h \in Handlers : NoAttempt(h) /\ IsRefresh(h) =>
          Recent(lastRefresh) \/ Recent(lastFailure)]_vars

\* "A rotation heals itself" (provider.rs:7-9): no sign-in goes without the refresh
\* it needs for a key published for a cooldown without a failed or dropped attempt since.
Due(k) == since[k] # Never /\ clock >= since[k] + Cooldown
RotatedKeyPickedUp ==
    [][\A h \in Handlers : NoAttempt(h) /\ IsRefresh(h) =>
          kid[h] \in KeysOf(client) \/ ~Due(kid[h])]_vars

\* Every sign-in request is answered, however many queue behind a provider that hangs.
Answered == \A h \in Handlers : (pc[h] = "client") ~> (pc[h] = "idle")
=============================================================================
