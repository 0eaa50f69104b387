# A TLA+ model of service-core

`service-core` is a library that services link: it authenticates their requests (bearer tokens,
browser sessions, assertions of a front end), signs users in with an OpenID provider, keeps
asynchronous jobs, and carries HTTP to a machine behind WireGuard. Nothing is persisted and there
is one process, so what is hard is not replication but tokio: handlers interleave at every await,
a handler whose client disconnects is *dropped* at an await, locks hand over in queue order,
browsers keep part of the state, and clocks and the outside world move meanwhile.

This directory models the stateful parts in TLA+, checks them on small instances with TLC, and
proves the most important properties for every instance with TLAPS. `PROJECT.json` lists the
components, the runs, the mutants that show each property can fail, the source lines of every
definition, the disagreements found, the hazards and the theorems.

## The system

### Components, their state, and what makes them correct

| Component | State | Operations | Correct when | Module |
|---|---|---|---|---|
| Key cache, `auth.rs` | the provider's keys (RwLock), the time of the last refresh (Mutex, the *refresh gate*) | `with_options`, `validate_for` | refreshes are single-flight and rate-limited, never go back to older keys, and pick a rotation up in time | `JwksStore` over `RateGate` |
| Discovery, `login/provider.rs` | the discovered client (RwLock); last failure and last refresh (Mutex) | `client`, `rediscover`, `discover` | one attempt per window while the provider is down, failures space attempts, a first discovery costs no refresh | `Discovery` over `RateGate` |
| Sign-in, `login/handlers.rs`, `flow.rs`, `cookie.rs` | a sealing key in memory; per sign-in a sealed cookie, a retry marker and a session id *in the browser* | `login`, `callback`, `logout`, `prune_flow_cookies`, `restart_or_refuse` | a callback finishes only where it began, lands where it was headed, is retried once, and neither failures nor floods cost what the browser had | `SignIn` |
| Session store, `login/session.rs` | a map under one mutex, expired entries included | `insert` (with sweep and evictions), `get`, `remove` | both ceilings hold, the oldest goes first, nobody is signed out by one other person | `SessionStore` |
| Job store, `jobs.rs` | a map under one RwLock | `try_create_under`, `set`, `evict_terminal_older_than`, reads | the cap holds, an evicted job is not resurrected, results stay readable | `JobStore` |
| Forwarder, `wg/forward.rs` | a smoltcp socket set, the abandoned handles, the stack task's handles | the acceptor, the bridges (`WgStream`), the stack task's poll, reap and open | each socket has one owner, the ceiling holds, abandoned sockets go, the acceptor is answered | `Forwarder` |
| Watchdog and health, `wg/forward.rs` | `last_healthy`, `WgHealth`'s atomics | the timer arm, the failed receive, `rebuild_tunnel`, `WgHealth`'s reads | a stale tunnel is bounced and a live or new one is not, old readings and a dead task never read as healthy | `Watchdog` |
| Tunnel endpoint, `wg/tunnel.rs` | boringtun's session and the packets it holds, a UDP socket | `send`, `recv`, `update_timers` | a packet is sent once and in order, what arrives is dealt with, a dead tunnel shows its age | `PacketPath`, `Watchdog` |
| Packet device, `wg/device.rs` | two rows of bytes with their lengths, scratch buffers | `enqueue_received`, `dequeue_sent`, the receive and transmit tokens | packets come out whole, once and in order; none waits while the stack task sleeps | `PacketPath`, implementing `PacketChannel` |
| Extractor, `auth.rs`, `login/mod.rs`, `bff.rs`, `peer.rs` | none of its own: the store's settings and the request | `with_options`, `from_request_parts`, `authenticate`, `validate`, `peer_token`, `verify`, `mint` | the strongest credential named decides alone, an ambient one needs its own page, a peer's token stays one and is its user's | `Identity` |
| Capped reads, `http.rs`, `login/http.rs` | none | `read_body_capped` | never more than the cap is kept | not modelled |
| Release script, `release.sh` | the repository's tree and tags | the script | a failure leaves no bump behind | not modelled |
| LLM client, configuration, API document, `lib.rs` | none | one call each | | not modelled |

### How they interact

* A request with a bearer token goes through the extractor to `JwksStore::validate_for`, one with a
  session cookie to `Login::authenticate`, which calls `SessionStore::get`. `Identity` models the
  extractor's decision in one step: finding the key behind a bearer, with its awaits, is `JwksStore`'s,
  and that a session may end between any two steps is all it takes from `SessionStore`.
* `login` and `callback` call `Provider::client`; a callback whose ID token does not verify calls
  `rediscover` and verifies once more. `Discovery` models these handlers as far as they drive the
  provider, `SignIn` as far as they drive cookies and sessions. In `SignIn` "the provider could not
  be reached" and "the token does not verify" are choices; `Discovery` says when they happen.
* `callback` calls `SessionStore::insert` and then `remove`, in two holds of the lock. `SignIn` has
  a step for each, and takes from `SessionStore` only that sessions may end at any time.
* A tunnelled connection involves three tasks - the acceptor, a bridge per connection, the stack
  task - which meet in a socket set, a map of abandoned handles, and a one-shot reply. The stack
  task's loop appears in three modules: what it does to sockets in `Forwarder`, to the tunnel's health
  in `Watchdog`, and to packets in `PacketPath`.

### What is hard here

Dropped futures (`auth.rs:289-294`, `provider.rs:125`), checks repeated under a lock
(`auth.rs:282`, `provider.rs:115`), two cooldowns under one lock, a clock read before the wait for
a lock (`jobs.rs:79`), handles that are reused (`forward.rs:287-300`), a grace that starts only when
something else ends (`forward.rs:554`), a receive that is dropped in the middle of a flush
(`forward.rs:356`), packets kept as bytes and lengths (`device.rs:143`), subjects that are compared
without their provider (`peer.rs`), cookies sent before and set after another tab's
(`handlers.rs:118`), and a restart while the user is at the provider. `PROJECT.json` lists each
under `hazards` with its line and the properties that watch it.

## The modules

`RateGate` is the abstract specification of a rate-limited, single-flight call as the provider sees
it. `JwksStore` and `Discovery` implement it, under refinement mappings stated in those modules.
`PacketChannel` is that of one direction of the packet device, and `PacketPath` implements it twice.
The other modules stand on their own. `MC...` modules give a component its finite instances for TLC,
`..._proofs` modules hold its theorems; `Tunnel_proofs` holds those of `Watchdog` and of `PacketPath`, the two
views of the tunnel, which is why these two share no name (`PathSpec` beside `Spec`, `step` beside `pc`).

An *action* is the code between two awaits (or two locks): a handler's position is the value of `pc`
for its task, a lock is a variable that names its owner, and dropping a future is the action
`Cancel` (or `Close`), allowed for the tasks that the configuration names. Where a definition is
preceded by a sibling (`KeptOldest`, `NoBytes`, `BadAlone`, ...), that is a plausible mistake at the same
line; the specification does not use them, and the mutants of `PROJECT.json` put them in its place.

* **JwksStore.** `Lookup`, `Acquire`, then one of `FoundAfterWait`, `RejectOnCooldown` and
  `BeginFetch`, `Serve`, `FetchSucceeds` or `FetchFails`, `Install`, `Verify` are `validate_for`
  from await to await. A key set is the number of the provider's *edition* it copies, so "older keys"
  and "a rotated key" can be said. The provider's answer (`Serve`) is taken before it arrives, so a
  rotation can fall in between.
* **Discovery.** `Client`, `Acquire`, `NoAttempt` or `Begin`, `Serve`, `Discovered` or `Fails`,
  `Proceed` are `client` and `discover`; `Exchange` and `Verify` are the part of `callback` that
  leads to `rediscover`. A handler asks for a refresh exactly when it has an ID token in hand.
* **SignIn.** `jar` is a browser's cookie jar, `sent` the Cookie header of the request a tab has under
  way, and `reply` the answer on its way back: the gap between them is where tabs interfere. A flow
  is named by its `state`, numbered by issue. `Login`, `FlowUnknown`, `OpenFlow`, `Exchange`,
  `CallbackFails`, `CallbackRefused`, `Insert`, `Retire` and `Logout` are the handlers; `Deliver` is
  the browser; `Restart`, `FlowAges`, the expiries, `SessionEnds` and `Close` are what happens to
  them. `Faults` names which of these an instance has.
* **SessionStore.** One action per operation, since each runs under the mutex. `Insert` includes the
  lazy sweep and the eviction; ties of age are a choice, as `min_by_key` over a hash map makes them.
* **JobStore.** The store's operations and the callers the documentation names: handlers, a worker per
  job that may be late or die, and a sweeper whose clock reading and sweep are two steps.
* **Forwarder.** `Accept`, `Spawn`, `GiveUp` are the acceptor; `PollQuiet`, `PollMoves` (poll and
  reap), `Refuse`, `ConnectFails`, `Open`, `WakeUp` the stack task; `UpReads` ... `DropStream` a
  bridge, that is tokio's `copy_bidirectional` over `WgStream`'s methods. smoltcp's state machine and
  `copy_bidirectional` are external, modelled from the calls the code makes of them.
* **Watchdog.** `PublishAge` and `PublishTime` are the timer arm, cut between the two stores of
  `WgHealth::set`; `RecvFails` is the failed receive, `Resolve`, `Bound`, `BindFails` and `Wakes` are
  `rebuild_tunnel` and what its two callers do with its result. `ProbeBegins` and `ProbeEnds` are the two
  loads of a health check. Times are ages that stop growing above the threshold they are compared with,
  so there is no horizon. `Handshake`, `Wedge` and `WorldChanges` are boringtun, the peer, the resolver
  and the network.
* **Identity.** `WithOptions` builds the store, or refuses. A request carries the headers the service sees
  beside the truth about who made it (the page, its use, the browser's vintage); the code reads the
  headers, the properties speak of the truth. `AsDev`, `ByAssertion`, `BySession`, `ByBearer` are the
  extractor's paths in its order, `PeerToken` is what a handler calls for an upstream, `Logout` and `Me`
  are the routes that read the cookie. A person is somebody at a provider; the code compares subjects.
* **PacketPath.** `Ingress`, `Egress`, `Polled` are smoltcp's poll over the device's tokens, `CopyOut`,
  `SendNext`, `Sent` the drain, `OpenArm`, `LaterArm`, `RecvPacket`, `RecvHandshake`, `Flush`, `FlushCut`
  and `Rebuild` the arms of the select, with `Tunnel::send` and `recv` in them. A packet is the sequence of
  its bytes, all of them its number, so that a packet cut or mixed with another is none. boringtun is
  external: without a session it holds packets, and the loop in `recv` takes them out one by one.

## The runs

`tlc -config X.cfg MCModule.tla` for each line of the table; `PROJECT.json` has them all.

| Configuration | Shows | Instance |
|---|---|---|
| `JwksStore` | with clients that disconnect anywhere but in a fetch and its installation: fetches implement `RateGate`, the cache never goes back, a rotated key is picked up within a cooldown and a fetch time, every request is answered | 2 requests, 3 editions, cooldown 2, fetches up to 1, 4 ticks |
| `JwksStore_disconnect_budget` | *violation*: what a disconnect does to the limit | 2 requests, 5 ticks |
| `Discovery` | with a browser that goes away anywhere: refreshes implement `RateGate`, failures space attempts, a rotated key is picked up, every request is answered | 2 handlers, cooldown 2, attempts up to 1, 5 ticks |
| `SignIn_tabs` | two tabs never exchange destinations, lose a sign-in only to the cap's worth of newer ones, and are not logged out by failures | 2 tabs, 3 sign-ins, cap 2, tabs closed |
| `SignIn_browsers` | a session lives only in the browser its sign-in began in; a failed callback goes round once; a browser at rest has one live session at most | 2 browsers that open each other's URLs, 2 sign-ins, cap 1, restart, expiry, eviction |
| `SessionStore` | both ceilings, one user costs the others at most one user's share, unswept sessions cost nobody a live one | 5 ids, 3 users, ceilings 4 and 2, 7 ticks |
| `JobStore` | the cap, no resurrection, results kept for their time | 4 jobs, cap 2, 5 ticks |
| `Forwarder` | one owner per socket; abandoned sockets go with the tunnel up or down; the acceptor is answered at the ceiling too; once the tunnel stays up every client that left is let go of | 2 clients, 2 slots, ceiling 1, grace 2 |
| `Forwarder_outage` | *violation*: in an outage a departed client's bridge never ends | 2 clients, ceiling 1 |
| `Watchdog` | health never passes off an old reading and a dead task is noticed; the watchdog spares live and new tunnels; once the world has settled the tunnel is live again and again | 2 addresses, session 4, grace 2, freshness 2, back-off 1 |
| `Identity` | whoever a request is answered as is behind the strongest credential it names; another page never writes, or reads what it embeds, with the cookie; peers' tokens are no credentials and are their users'; nobody the configuration accepts is shut out; page and API agree | 256 configurations offered, 3 persons (2 of them namesakes at two providers), 3 browser vintages, up to 2 peers |
| `PacketPath` | both directions are first-in first-out queues of whole packets; the peer gets a packet at most once, and in order while no flush is cut; nothing waits in the device while the task sleeps; what arrives is dealt with | 2 packets each way with empty ones from the peer among them, 2 handshakes, 1 open, 1 fault |

**Why the bounds are enough.** Cooldowns and lifetimes matter only by what falls inside and outside of
them, so two units, with a fetch of at most one, give every order of the events; horizons leave room
for two full windows. Three editions give two rotations, so an old snapshot can race a newer one. Two
tasks queue on a gate: one holds it, one waits, and either may be a later request that finds the
other's result. Ceilings of one or two with one
more contender reach the ceiling, pass it, and come back. Sign-ins are numbered, so their bound is the
length of a history: three, with a cap of two, are pruned at least once; when they are used up nothing
more need happen, which is why `SignIn_tabs` does not check for deadlock: every sign-in may have been
begun and abandoned there, and no handler waits for another. In `Watchdog` the session outlives the grace by two, as 180 s do 30 s, so that a tunnel may be quiet and live
for longer than the grace. `MaxFetches` bounds only how often `JwksStore` fetches, which
a client that abandons its fetch would repeat for ever. In `Identity` a credential and its every single defect,
two providers with the same subject, and a second peer are enough for each comparison the code makes to differ; the calls
combine every bearer with every assertion and cookie, and a peer's token with the credentials that are
good. In `PacketPath` lengths of 0 and 1 or 2 tell bytes from packets; two packets each way are enough to be
out of order, and a second handshake meets what the first one's flush left. Symmetry is used in runs without
liveness properties, over tabs, ids and jobs that the specification does not tell apart.

**Fairness.** A task that can proceed is polled (weak fairness of each task's steps); an attempt at the
provider ends, because its client has timeouts (`http.rs:30-35`: it is one of the task's steps); and
tokio's mutex serves its queue in order, which the models state as strong fairness of taking the lock.
In `Forwarder` the stack task's loop and each bridge are weakly fair, and time passes; nothing is assumed
of the tunnel, of the target or of clients that are still there. In `Watchdog` the stack task is polled, its lookups and binds end, and a
peer that can be reached answers; that the select's earlier arms leave the timer a turn is not assumed
but part of the premise of `SelfHeals`, with a network, a resolver and a peer that have settled and a task
that is alive. Only `HealedReaped` assumes, as its
premise, that the target answers while packets get through. In `PacketPath` only the stack task is weakly
fair: the select is biased, so a connection to open goes before the socket, and the arms after it are taken
when the socket is empty. `SignIn`, `SessionStore`, `JobStore` and `Identity` need no fairness: their
properties are safety.

## What is proved

TLAPS proves these for every value of the constants, from the assumptions the modules name.

* **JwksStore.** `TypeCorrect`, `Exclusive` (single-flight, disconnects included), `NeverRegresses`;
  without disconnects `Limited` (the refinement of `RateGate`: every step maps to a step of it or a
  stutter), `Budgeted` and `PickedUp`. The inductive invariant of the limit is `LimitInv`: besides types
  and single-flight it says that the cooldown was armed no earlier than the latest fetch began unless
  that fetch is running (`ArmedSinceStart`), and that the count fits its start (`CountedByStart`).
  `PickUpInv` adds that the fetch runs within its time and that a key published long enough is in the
  snapshot or cache taken since (`PublishedSince`). The limit assumes that a request is not dropped during a fetch, and
  `PickedUp` that it is not dropped while it installs one either, because they are false without it (see below).
* **Discovery.** `TypeCorrect`, `Exclusive`, `RefreshesAreGated` (the refinement of `RateGate`),
  `FailuresAreSpaced`, `FirstIsFree`, `PickedUp`, all of them with clients that disconnect at any await:
  unlike the key cache, a refresh arms its cooldown before it awaits. `CooldownInv` says that the refresh
  cooldown is the latest refresh, and that a failure is remembered until an attempt that began a cooldown
  after it succeeds (`FailureArmed`: without it a success could hide a recent failure). `PickUpInv` adds
  that an attempt begun since a key was published is answered with it, and that the client has it once
  no attempt runs if a refresh has begun since (`AnswerHolds`, `ClientHolds`).
* **Forwarder.** `TypeCorrect`, `SoleOwner`, `Bounded`. `OneOwner` alone is not inductive: `OwnerInv` adds
  that the acceptor's request, the client it serves and the granted handle agree (`Asking`).
* **Watchdog.** `TypeCorrect`, `FossilsNeverPass`, `DeathShows`, `LiveIsKept`, `GraceIsGiven`. `HealthInv`
  says that a live published age is at least as young as its time stamp (`StampCoversReading`: the order of
  the two stores in `WgHealth::set` is what keeps it), `BounceInv` that an ill tunnel stays ill while the
  resolver is awaited and that no tunnel is judged by a time before it was built.
* **PacketPath** (in `Tunnel_proofs`). `PathTypeCorrect`, `SleepsOnNothing`, `PacketsStayWhole`, `WireInOrder`, for packets
  of every length, empty ones included, and any number of packets, handshakes and faults. The device keeps one row
  of bytes and one of lengths; the invariant `InStep` says that the ends the lengths add up to meet the end of
  the bytes, `EndsAreUnique` that there is one such way to cut, and `EnqueueAppends`, `TransmittedAppends` and
  `DequeueTakesFirst` what the three operations then do to the packets: append one, or hand out the first whole and keep the
  others. With these, each direction is shown to implement `PacketChannel` step by step (`UpStep`, `DownStep`); that a failed
  send discards *all* that is queued, and never one from the middle, needs `Phases`: the device is empty while the
  task sends. `OrderInv` is what keeps the wire in order: the packets on their way out stand in three rows - sent,
  in the library, behind it - where the library's always come before those behind and both differ from what was
  sent, and until a flush is cut short they also come after it, because with a session and no flush under
  way the library is empty (`LibraryFlushed`). Without that last part a packet sent directly could overtake a held one.
* **SessionStore.** `TypeCorrect`, `WithinCeilings`, `OthersStay`, `LiveOnesGoLast`. That one user displaces at most a user's
  share is inductive only with `Counted`: whoever has displaced k sessions of others holds the places - an
  insert that evicts another's session leaves the inserting user with one more. `LiveOnesGoLast` (the action property
  `SweepIsLazyButFair`) rests on the order of eviction: lifetimes being equal, the oldest entry is live only if every
  entry beside it is (`OldestLive`).
* **JobStore.** `TypeCorrect`, `NeverOverCap`, and the action properties `GoneForGood` and `Readable`, from
  `JobInv`; the lemma that carries them is that an update keeps the ids and the number of entries.

* **SignIn.** `SignInHolds`, `StarterOnly`, `LandsRight`, `RoundOnce`, `CodesHold`, `FailureKeeps`, `FloodsPass`, for any
  browsers, tabs, faults and numbers of sign-ins. `SignInInv` binds a tab that waits at the provider or is in
  a callback to a flow with its own destination (`Placed`), says that no jar, request or answer names a flow
  of another browser (`OwnCookies`: without the answers, what a browser holds next is not known), and that
  who went round again has the marker or the answer that sets it (`Marker`). `KeepInv` is what keeps a failed sign-in from
  costing a session: a code is spent by one callback (`Codes`), two tabs do not wait in one flow (`Apart`), and the
  session a callback is about to hand out is nobody's yet (`Unclaimed`: otherwise retiring the old session could take the new).
  `FloodsPass` proves `SignInSurvives` where sign-ins are issued in different seconds (`PerSecond = 1`; see 7 below). Its invariant
  `SurviveInv` follows the cookie of a flow under way: brought by the answer that begins it (`Brought`), in its browser's jar from
  then on (`InJar`), with every request that calls it back (`InRequest`), and cleared by no answer on its way (`ClearedLate`) -
  each *unless* its browser has begun as many newer flows as the cap. What a login clears had a cap's worth, less one, of newer
  cookies beside it in the same request, and the login adds one.
* **Identity.** `IdentityHolds` and all seven properties of the run, for any tokens, assertions, calls and
  configurations of the shape `ConfigurationsAssumption` gives. `IdentityInv` says what an answer 200 rests on, one path
  with those before it ruled out (`Founded`), and what a forwarded token rests on (`ForItsUser`); that a session is one of the
  configured sign-in's provider (`SessionIsLogins`) is what makes comparing subjects enough.

* **SignIn, one live session.** `ReplacedNotAdded` proves `OneLiveSession` under the two hypotheses the code leaves to the
  browser, stated in `SignIn` as `OneAtATime` (no two tabs of a browser are in a callback, a logout, or waiting for an
  answer that changes the session, at once) and `SessionsArrive` (a tab is not closed on an answer that brings a
  new session). Everything else may happen: restarts, evictions, expiries, disconnects at any other point. Neither
  can be dropped: without the first two callbacks each retire the same old session and insert one of their own; without
  the second the new session's cookie is lost. `LiveInv` says that every session is accounted for (`Accounted`): it is in its
  browser's jar, or a callback that has just inserted it, or an answer on its way, is about to hand it out; and that
  while an answer that changes the session is on its way, its browser has no other session in the store (`OldOneGone`).
* **SignIn, the cap on flow cookies.** `EachTabOneCookie` proves `FlowCookiesBounded` for any number of tabs and any cap:
  with a cap of N and k tabs a browser has at most N - 1 + k flow cookies. `FiveInTurn` proves the documented N
  (`FlowCookiesCapped`) under the one hypothesis that fails in the history of disagreement 6, that no browser has two logins under way at once
  (`StartsInTurn`). Neither is inductive: an answer clears what its login saw and not what the jar holds when it
  arrives, so a jar may hold cookies that three answers on their way are going to clear, and their own cookies are still to
  come. `RoomIn` quantifies over *every* set of logins in progress: what they would leave in the jar (`Left`), and one
  cookie for each of them, fits. A login that is sent leaves fewer than the cap whatever the others do (`KeptFew`: the cookies are
  totally ordered, so no two have equally many newer ones, and the pigeonhole principle counts them), an answer that arrives
  moves its cookie from those to come into the jar (`RoomForAnswer`), and where a tab is closed its place is given up.
  No run of the table checks this bound. Before it was proved, TLC found it kept, and reached, by two tabs of one browser with
  a cap of one (`SignIn_tabs` with `MaxFlowCookies = 1` and `FlowCookiesBounded`); with a cap of two the bound cannot be passed
  before a fourth sign-in, which is too many states for a run.

Only model-checked: what must eventually happen, that is `Answered` of `JwksStore` and `Discovery`, `AbandonedReaped`,
`AcceptorProceeds` and `HealedReaped` of `Forwarder`, `SelfHeals` of `Watchdog` and `ArrivalsSettle` of `PacketPath`.
Fairness is about `ENABLED`, which the prover does not reason about.

**Induction.** The induction theorems of the library take a predicate as a parameter, which the provers cannot
instantiate. `SetInduction` in `Tunnel_proofs` states induction for a *set* of numbers and is proved from the
pigeonhole principle for finite sets: were a number missing, adding one would map the members below it one to one to fewer
of them. Sums over a sequence of lengths (`EndsAreUnique`, `EndsGrow`) rest on it. For the same reason `PacketPath`
describes the ends of packets by what they are (`Ends`, a function with a property) and not by a fold.

## Disagreements between code and documents

The first two have a run that exhibits them and an entry under `findings` with both lines.

1. `auth.rs:292`: a request dropped during its fetch does not arm the cooldown; one fetch per interval
   "regardless of load" (`auth.rs:24-25`) does not hold then (`JwksStore_disconnect_budget`).
2. `forward.rs:451`: with the tunnel down, a departed client's bridge never ends, its socket is never
   abandoned, and the grace that should bound growth in an outage never starts (`Forwarder_outage`).

The others appear when a run is changed as said.

3. `handlers.rs:174`: a callback whose flow does not open is retried without its destination and step-up, where
   README.md:184-185 of the repository says "to the same destination and step-up". `SignIn_browsers` with
   `RetriedToTheSameGoal` as an invariant.
4. `auth.rs:294`: a request dropped while it waits for the write lock has armed the cooldown and throws the
   keys away; a rotated key is then refused for longer than the interval. `JwksStore_disconnect_budget`
   with `RotatedKeyPickedUp` as its property.
5. `provider.rs:125`: a sign-in dropped in the first discovery leaves no failure behind, so the next one waits
   out a timeout of its own, where `provider.rs:25-27` promises one attempt per window. `FailuresSpaced`
   therefore speaks of attempts that failed, not of every attempt.
6. `handlers.rs:118`: cookies are pruned against the request's own Cookie header, so tabs that sign in together leave
   more than the five of README.md:172 of the repository and of `handlers.rs:24`: one more for each further tab, and no more
   than that (`EachTabOneCookie`). `SignIn_tabs` with `MaxFlowCookies = 1` and `FlowCookiesCapped` as an invariant.
7. `handlers.rs:125`: flow cookies are ordered by whole seconds and the sort is stable, so within a second the
   newest goes first. `SignIn_tabs` with `PerSecond = 2` violates `SignInSurvives`.
8. `forward.rs:586`: after a failed lookup the tunnel is aimed at `cfg.endpoint`, the endpoint of the start, and not at
   the one in use; `forward.rs:575-577` promises "the last-known endpoint" and the log line "reusing last
   endpoint". `Watchdog` with `LastKnownKept` as its property. It heals with the next lookup that succeeds.
9. `forward.rs:401`: while a rebuild waits for the resolver nothing is published, so that after
   `HEALTH_FRESH_MS` `stack_alive` is false although the task lives; `forward.rs:140-143` says that `false` "means
   that task has died". `Watchdog` with the invariant `Alive \/ pc # "resolve"`.

These were met while reading, and are in the models as the code has them.

10. `auth.rs`, `from_request_parts`: where a front end is trusted, its assertion is tried before the bearer, so a request
    with both is judged on the assertion; README.md:173-174 of the repository says "on its bearer alone". An
    assertion header that is not text counts as absent, and the next credential is tried.
11. `bff.rs:94-96`: "any failure (... expired) is a `401`", but the library's default leeway accepts an assertion for
    60 seconds after its end.
12. `auth.rs:165-166`: an empty issuer logs "DISABLED" and in fact refuses every bearer; peers are accepted beside it,
    though no token for one can then pass.
13. `with_options` compares the provider of the sign-in with that of the tokens where there are peers; nobody compares
    the provider of the front end. `Identity` assumes it the same (`ConfigurationsAssumption`); without it
    `PeerIsTheUser` would not hold for namesakes.
14. A flush that is cut short (`forward.rs:356`, `tunnel.rs`) leaves packets in boringtun until the next handshake, and later
    packets overtake them; `OnTheWire` promises order only while none was cut. TCP above it repairs the order.
15. A browser that sends Fetch Metadata without a destination lets another site's frame count as a visit
    (`embedded_by_another_site` refuses on evidence only); `AmbientNeedsOwnPage` says so.
16. `release.sh:104` and `:108`: `exit 1` does not run an `ERR` trap, so a tag that exists is refused with the version bump
    left in the tree, where the comment at line 85 promises an unwind; and a tag whose push fails unwinds a commit that is
    already on origin.
17. `forward.rs:344`: the local port wraps around after 16384 connections without asking whether an old one still has
    it. With 64 sockets at most this needs a connection that outlives 16384 others.

A callback whose answer is lost, and two callbacks of one browser at once, leave a session on the server that
no browser holds. It ends with its lifetime; `OneLiveSession` is checked where neither happens, and `ReplacedNotAdded`
proves that nothing else can break it.

## Abstractions to know of

* `Instant` is one discrete monotonic clock; the wall clock's divergence from it (which `session.rs` only
  logs) is not modelled.
* `JwksStore` names a token by its key id and whether every other check passes; the order of those checks
  is immaterial, since all must pass. Poisoned locks are not modelled: no critical section panics.
* `Forwarder` keeps one direction's buffer as "something to write", sockets by state, and ages only for
  abandoned handles. Local ports and the tunnel's own rebuilds are not in it; `tunnelUp` stands for both
  (the rebuilds are in `Watchdog`).
* `Watchdog` lets the relaxed stores of `WgHealth` become visible in program order, as on x86;
  relaxed ordering alone does not promise it. A check, and a `set`, take no time, though the two interleave. A timer arm runs once per
  unit, a burst of missed ticks counts as one.
* `SignIn` has a provider that takes a code once, well-formed states and destinations, and issue times that
  are distinct unless `PerSecond` says otherwise. The same-origin check of `logout` and `/auth/me` are in
  `Identity`; `dev_no_auth` changes no state.
* `Identity` takes signatures as sound: a token or an assertion is the record of what it says. Header values are
  what the code tells apart (absent, not text, unknown, a credential); cookie syntax and URL parsing are not modelled.
* `PacketPath` bounds packets, handshakes, opened connections and failures. How old a handshake is, and when the
  watchdog rebuilds the tunnel, is `Watchdog`'s: here a rebuild may happen whenever a fault is left.

## Not modelled, and why

* **Capped reads** (`http.rs`, `login/http.rs`): one loop over the chunks of one response; no state outlives the
  request and nothing else runs in it. What a response that fails or hangs means to its caller is in `JwksStore`,
  `Discovery` and `SignIn`.
* **LLM client**: one request and its answer, without state or retry.
* **WireGuard configuration**: parses the environment once, at start.
* **Release script**: sequential git commands run by one person; see 16 above.
* **Crate roots, API document**: declarations and generated documentation.
* **Ciphers, TCP, JWTs, OpenID**: external, modelled only by what the code relies on.
* **A job whose worker died** (`jobs.rs:82`) holds its place for good. `JobStore` has such workers, but nothing in the crate
  tells a dead one from a slow one, so there is no property to state.

What would come next: `SignIn`'s sessions as `SessionStore`'s, so that which session is evicted is the store's choice and not
any (`SignIn` allows more than the store does).
