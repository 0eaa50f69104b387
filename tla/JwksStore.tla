----------------------------- MODULE JwksStore ------------------------------
(***************************************************************************)
(* The self-refreshing key cache of src/auth.rs: every request that brings a *)
(* bearer token runs validate_for, whose awaits are the step boundaries.     *)
(* A request whose key id is not cached queues on the refresh gate, checks   *)
(* again, and either is refused by the cooldown or fetches the provider's    *)
(* key set.  The provider rotates its keys whenever it likes, a fetch takes   *)
(* up to FetchMax and may fail, and the future of a request whose client     *)
(* went away is dropped at an await (those in Droppable).                    *)
(*                                                                         *)
(* A key set is the number of the edition it is a copy of; 0 is the empty    *)
(* set the store starts with when its first fetch fails.                     *)
(***************************************************************************)
EXTENDS Integers, Sequences

CONSTANTS
    Requests,      \* handler tasks, each serving one request after another
    Kids,          \* key ids a token may name
    Tokens,        \* the tokens that arrive: a key id, and whether every other check passes
    Editions,      \* the key sets the provider publishes, one after another
    Cooldown,      \* REFRESH_COOLDOWN
    FetchMax,      \* the bound the client's timeouts put on one fetch
    Droppable,     \* the awaits at which a task's client may disconnect
    Horizon,       \* bound on the clock
    MaxFetches,    \* bound: once so many fetches began, no fetch is abandoned any more
    None           \* no task

ASSUME CooldownAssumption == Cooldown \in Nat \ {0}
ASSUME FetchMaxAssumption == FetchMax \in Nat
ASSUME HorizonAssumption == Horizon \in Nat /\ MaxFetches \in Nat
ASSUME EditionsAssumption == Editions \in Seq(SUBSET Kids) /\ Editions # << >>
ASSUME TokensAssumption == Tokens \subseteq [kid : Kids, genuine : BOOLEAN]
ASSUME RequestsAssumption ==
    /\ None \notin Requests
    /\ Droppable \subseteq {"lookup", "gate", "recheck", "fetch", "served", "install", "verify"}

VARIABLES
    clock,         \* the monotonic clock behind Instant::now
    edition,       \* the edition the provider publishes
    keys,          \* JwksStore.keys: the edition the cache holds
    gate,          \* the task holding last_refresh's lock, None if free
    lastRefresh,   \* the value under that lock, Never for Option::None
    pc,            \* the await each task is at
    token,         \* the token of each task's request
    snapshot,      \* the edition each task's fetch was answered with
    answer,        \* what each task answered last, "none" while it serves one
    lastStart,     \* when the latest fetch began
    fetches,       \* history: how many fetches have begun
    since          \* history: from when a key has been published without a failed fetch

provider == <<edition>>
lock == <<gate, lastRefresh>>
request == <<token, answer>>
history == <<lastStart, fetches, since>>
vars == <<clock, edition, keys, gate, lastRefresh, pc, token, snapshot, answer,
          lastStart, fetches, since>>

Never == -1
NoToken == [kid |-> None, genuine |-> FALSE]     \* between two requests
Steps == {"idle", "lookup", "gate", "recheck", "fetch", "served", "install", "verify"}

\* The steps in which a task owns the refresh gate, and those in which its fetch runs.
Holding == {"recheck", "fetch", "served", "install"}
Fetching == {"fetch", "served"}

KeysOf(e) == IF e = 0 THEN {} ELSE Editions[e]

TypeOK ==
    /\ clock \in Nat
    /\ edition \in 1..Len(Editions)
    /\ keys \in 0..Len(Editions)
    /\ gate \in Requests \cup {None}
    /\ lastRefresh \in Nat \cup {Never}
    /\ pc \in [Requests -> Steps]
    /\ token \in [Requests -> Tokens \cup {NoToken}]
    /\ snapshot \in [Requests -> 0..Len(Editions)]
    /\ answer \in [Requests -> {"none", "ok", "401"}]
    /\ lastStart \in Nat \cup {Never}
    /\ fetches \in Nat
    /\ since \in [Kids -> Nat \cup {Never}]

\* with_options: the first fetch fails soft, and does not arm the cooldown.
Init ==
    /\ clock = 0
    /\ edition = 1
    /\ keys \in {0, 1}
    /\ gate = None
    /\ lastRefresh = Never
    /\ pc = [r \in Requests |-> "idle"]
    /\ token = [r \in Requests |-> NoToken]
    /\ snapshot = [r \in Requests |-> 0]
    /\ answer = [r \in Requests |-> "none"]
    /\ lastStart = Never
    /\ fetches = 0
    /\ since = [k \in Kids |-> IF k \in Editions[1] THEN 0 ELSE Never]
-----------------------------------------------------------------------------
Goto(r, step) == pc' = [pc EXCEPT ![r] = step]

Answer(r, a) ==
    /\ answer' = [answer EXCEPT ![r] = a]
    /\ token' = [token EXCEPT ![r] = NoToken]
    /\ Goto(r, "idle")

Cached(k) == k \in KeysOf(keys)
\* auth.rs:282; without the second look, every waiter takes the key for missing.
MissingUnchecked(r) == TRUE
StillMissing(r) == ~Cached(token[r].kid)

\* auth.rs:284
OnCooldown == lastRefresh # Never /\ clock - lastRefresh < Cooldown

\* tokio's Mutex
GateFree == gate = None

\* What a dropped guard leaves; GuardLeaked is a guard that is never dropped.
GuardLeaked == gate
Unlocked == None

\* The cooldown is armed on success AND failure (auth.rs:290-292), with the time
\* the fetch ended.  The variant spares a failure the cooldown.
ArmedOnSuccessOnly(succeeded) == IF succeeded THEN clock ELSE lastRefresh
Armed(succeeded) == clock

\* The guard on last_refresh outlives the arming and drops after the install.
GateDroppedEarly(r) == None
GateWhileInstalling(r) == r

\* A failed fetch starts the wait for a published key anew.
SinceAfterFailure == [k \in Kids |-> IF since[k] = Never THEN Never ELSE clock]
-----------------------------------------------------------------------------
Arrive(r) ==
    /\ pc[r] = "idle"
    /\ \E t \in Tokens : token' = [token EXCEPT ![r] = t]
    /\ answer' = [answer EXCEPT ![r] = "none"]
    /\ Goto(r, "lookup")
    /\ UNCHANGED <<clock, provider, keys, lock, snapshot, history>>

\* The first look at the cache, before any lock but the read lock.
Lookup(r) ==
    /\ pc[r] = "lookup"
    /\ Goto(r, IF Cached(token[r].kid) THEN "verify" ELSE "gate")
    /\ UNCHANGED <<clock, provider, keys, lock, request, snapshot, history>>

Acquire(r) ==
    /\ pc[r] = "gate"
    /\ GateFree
    /\ gate' = r
    /\ Goto(r, "recheck")
    /\ UNCHANGED <<clock, provider, keys, lastRefresh, request, snapshot, history>>

\* Another task's refresh brought the key while this one queued on the gate.
FoundAfterWait(r) ==
    /\ pc[r] = "recheck"
    /\ ~StillMissing(r)
    /\ gate' = Unlocked
    /\ Goto(r, "verify")
    /\ UNCHANGED <<clock, provider, keys, lastRefresh, request, snapshot, history>>

RejectOnCooldown(r) ==
    /\ pc[r] = "recheck"
    /\ StillMissing(r)
    /\ OnCooldown
    /\ gate' = Unlocked
    /\ Answer(r, "401")
    /\ UNCHANGED <<clock, provider, keys, lastRefresh, snapshot, history>>

BeginFetch(r) ==
    /\ pc[r] = "recheck"
    /\ StillMissing(r)
    /\ ~OnCooldown
    /\ lastStart' = clock
    /\ fetches' = fetches + 1
    /\ Goto(r, "fetch")
    /\ UNCHANGED <<clock, provider, keys, lock, request, snapshot, since>>

\* The provider answers with the keys it publishes at that moment.
Serve(r) ==
    /\ pc[r] = "fetch"
    /\ snapshot' = [snapshot EXCEPT ![r] = edition]
    /\ Goto(r, "served")
    /\ UNCHANGED <<clock, provider, keys, lock, request, history>>

\* The answer reached the client in time: arm, then wait for the write lock.
FetchSucceeds(r) ==
    /\ pc[r] = "served"
    /\ lastRefresh' = Armed(TRUE)
    /\ gate' = GateWhileInstalling(r)
    /\ Goto(r, "install")
    /\ UNCHANGED <<clock, provider, keys, request, snapshot, history>>

\* Refused, unreadable, or cut off by a timeout, before or after the provider
\* answered: arm and refuse the request.
FetchFails(r) ==
    /\ pc[r] \in Fetching
    /\ lastRefresh' = Armed(FALSE)
    /\ gate' = Unlocked
    /\ since' = SinceAfterFailure
    /\ snapshot' = [snapshot EXCEPT ![r] = 0]
    /\ Answer(r, "401")
    /\ UNCHANGED <<clock, provider, keys, lastStart, fetches>>

Install(r) ==
    /\ pc[r] = "install"
    /\ keys' = snapshot[r]
    /\ snapshot' = [snapshot EXCEPT ![r] = 0]
    /\ gate' = Unlocked
    /\ Goto(r, "verify")
    /\ UNCHANGED <<clock, provider, lastRefresh, request, history>>

\* The last read of the cache, which may have changed since the key was found.
Verify(r) ==
    /\ pc[r] = "verify"
    /\ Answer(r, IF Cached(token[r].kid) /\ token[r].genuine THEN "ok" ELSE "401")
    /\ UNCHANGED <<clock, provider, keys, lock, snapshot, history>>

\* The client went away: the handler's future is dropped at its await, and the
\* guard it held with it.
Cancel(r) ==
    /\ pc[r] \in Droppable
    /\ pc[r] \in Fetching => fetches < MaxFetches
    /\ gate' = IF gate = r THEN Unlocked ELSE gate
    /\ snapshot' = [snapshot EXCEPT ![r] = 0]
    /\ Answer(r, "none")
    /\ UNCHANGED <<clock, provider, keys, lastRefresh, history>>

Rotate ==
    /\ edition < Len(Editions)
    /\ edition' = edition + 1
    /\ since' = [k \in Kids |->
                   IF k \notin KeysOf(edition') THEN Never
                   ELSE IF k \in KeysOf(edition) THEN since[k] ELSE clock]
    /\ UNCHANGED <<clock, keys, lock, pc, request, snapshot, lastStart, fetches>>

\* Time passes, but no fetch outlives the client's timeouts.
Tick ==
    /\ clock < Horizon
    /\ \A r \in Requests : pc[r] \in Fetching => clock < lastStart + FetchMax
    /\ clock' = clock + 1
    /\ UNCHANGED <<provider, keys, lock, pc, request, snapshot, history>>

Step(r) ==
    \/ Lookup(r) \/ FoundAfterWait(r) \/ RejectOnCooldown(r) \/ BeginFetch(r)
    \/ Serve(r) \/ FetchSucceeds(r) \/ FetchFails(r) \/ Install(r) \/ Verify(r)

Next ==
    \/ \E r \in Requests : Arrive(r) \/ Acquire(r) \/ Step(r) \/ Cancel(r)
    \/ Rotate
    \/ Tick

Spec == Init /\ [][Next]_vars

\* The runtime polls a task that can proceed, and a fetch ends at its timeout at
\* the latest; the lock is handed out in queue order, so no waiter is passed
\* over for ever.
Fairness == \A r \in Requests : WF_vars(Step(r)) /\ SF_vars(Acquire(r))

FairSpec == Spec /\ Fairness
-----------------------------------------------------------------------------
\* The lock's owner is the one task between taking the gate and dropping it, so
\* the provider never sees two fetches of this store at once (auth.rs:280-300).
SingleFlight == \A r \in Requests : pc[r] \in Holding <=> gate = r

\* The refresh gate as the provider sees it: one fetch at a time, starts at least
\* Cooldown apart, whatever the load and whatever the fetches answer
\* (auth.rs:24-25, 290-292).
RG == INSTANCE RateGate WITH
          Interval <- Cooldown, started <- lastStart, calls <- fetches,
          active <- \E r \in Requests : pc[r] \in Fetching

RateLimited == RG!Spec

\* The count that follows from it: at most one fetch per interval begun.
FetchBudget == RG!Budget

\* A snapshot taken earlier never replaces one taken later: the gate is held
\* from the request for the keys to their installation (auth.rs:281-300).
CacheNeverRegresses == [][keys' >= keys]_vars

\* A key the provider has published for a cooldown and a fetch time, without a
\* failed fetch since, is no longer refused for want of a refresh: "a rotated
\* key is picked up within it" (auth.rs:25).
Due(k) == since[k] # Never /\ clock >= since[k] + FetchMax + Cooldown
RotatedKeyPickedUp ==
    [][\A r \in Requests : RejectOnCooldown(r) => ~Due(token[r].kid)]_vars

\* Every request is answered, however many queue behind a provider that hangs.
Answered == \A r \in Requests : (pc[r] = "lookup") ~> (pc[r] = "idle")
=============================================================================
