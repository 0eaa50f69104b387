------------------------------ MODULE Watchdog ------------------------------
(***************************************************************************)
(* The tunnel's self-heal, src/wg/forward.rs: the timer arm of the stack      *)
(* task publishes the age of the last handshake and, when it has been stale   *)
(* for too long, resolves the peer's endpoint again and builds a new tunnel;   *)
(* a socket that fails does the same.  Meanwhile a health probe reads the two   *)
(* atomics of WgHealth, one after the other.                                  *)
(*                                                                         *)
(* Only elapsed times matter, and only up to the thresholds they are compared  *)
(* with, so an age is a number that stops growing above its threshold.         *)
(***************************************************************************)
EXTENDS Integers

CONSTANTS
    Hosts,     \* the addresses the peer may have
    Startup,   \* cfg.endpoint, resolved once when the process started
    Stale,     \* HANDSHAKE_STALE_SECS
    After,     \* REHANDSHAKE_AFTER
    Fresh,     \* HEALTH_FRESH_MS
    Backoff,   \* the sleep after a failed rebuild of a failed socket
    None       \* no address

ASSUME HostsAssumption == Startup \in Hosts /\ None \notin Hosts
ASSUME TimesAssumption ==
    Stale \in Nat \ {0} /\ After \in Nat \ {0} /\ Fresh \in Nat \ {0} /\ Backoff \in Nat \ {0}

VARIABLES
    box,        \* where the peer is
    dns,        \* what the resolver answers: the peer's address, an older one, or an error
    net,        \* the host's network works
    busy,       \* the arms of the select before the timer's are always ready
    endpoint,   \* Tunnel.endpoint
    handshake,  \* the age of the tunnel's last completed handshake
    wedged,     \* the session does not begin another handshake by itself
    pc,         \* where the stack task is
    cause,      \* what it rebuilds the tunnel for
    aim,        \* the endpoint resolve_endpoint gave it
    sick,       \* last_healthy.elapsed()
    slept,      \* for how long it has backed off
    published,  \* WgHealth.last_handshake_secs
    since,      \* how long ago WgHealth.updated_at_ms was stored
    probe,      \* the health check: idle, or past its look at updated_at_ms
    seen,       \* history: how long ago the task last read a live handshake
    built,      \* history: how long ago the tunnel was built
    gone        \* history: for how long the stack task has been dead

world == <<box, dns, net, busy>>
tunnel == <<endpoint, handshake, wedged>>
task == <<pc, cause, aim, sick, slept>>
health == <<published, since>>
history == <<seen, built, gone>>
vars == <<world, tunnel, task, health, probe, history>>

Never == -1
Handshakes == 0..Stale \cup {Never}

TypeOK ==
    /\ box \in Hosts /\ dns \in {"current", "old", "fails"} /\ net \in BOOLEAN /\ busy \in BOOLEAN
    /\ endpoint \in Hosts /\ handshake \in Handshakes /\ wedged \in BOOLEAN
    /\ pc \in {"select", "stamp", "resolve", "bind", "backoff", "dead"}
    /\ cause \in {"watchdog", "recv"}
    /\ aim \in Hosts
    /\ sick \in 0..After + 1 /\ slept \in 0..Backoff
    /\ published \in Handshakes /\ since \in 0..Fresh + 1
    /\ probe \in {"idle", "alive"}
    /\ seen \in 0..Fresh + 1 /\ built \in 0..After + 1 /\ gone \in 0..Fresh + 1

Init ==
    /\ box = Startup /\ dns = "current" /\ net = TRUE /\ busy = FALSE
    /\ endpoint = Startup /\ handshake = Never /\ wedged = FALSE
    /\ pc = "select" /\ cause = "watchdog" /\ aim = Startup
    /\ sick = 0 /\ slept = 0
    /\ published = Never /\ since = 0
    /\ probe = "idle"
    /\ seen = Fresh + 1 /\ built = 0 /\ gone = 0
-----------------------------------------------------------------------------
Live(age) == age # Never /\ age < Stale
Reachable == net /\ endpoint = box

\* forward.rs:394; a variant takes a quiet tunnel for an ill one.
JustShook == handshake = 0
Healthy == Live(handshake)

\* forward.rs:396
OverdueTooSoon == sick >= After
Overdue == sick > After

\* The two stores of WgHealth::set, and the other way round.
TimeFirst(store) ==
    IF store = "first" THEN since' = 0 /\ UNCHANGED published
    ELSE published' = handshake /\ UNCHANGED since
Stores(store) ==
    IF store = "first" THEN published' = handshake /\ UNCHANGED since
    ELSE since' = 0 /\ UNCHANGED published

\* WgHealth::stack_alive; a variant is a period late.
AliveTooLong == since <= Fresh
Alive == since < Fresh

\* rebuild_tunnel: what a failed lookup falls back on, and what the lookup finds.
Fallback == Startup
StartupOnly == {Startup}
Resolved ==
    CASE dns = "current" -> {box}
      [] dns = "old" -> Hosts
      [] dns = "fails" -> {Fallback}
-----------------------------------------------------------------------------
\* The timer arm, once per TIMER_MS and when no arm before it is ready: the age is
\* read and stored.
PublishAge ==
    /\ pc = "select"
    /\ since > 0
    /\ ~busy
    /\ Stores("first")
    /\ seen' = IF Live(handshake) THEN 0 ELSE seen
    /\ pc' = "stamp"
    /\ UNCHANGED <<world, tunnel, cause, aim, sick, slept, probe, built, gone>>

\* Its second store, and the watchdog's judgement on the age that was read.
PublishTime ==
    /\ pc = "stamp"
    /\ Stores("second")
    /\ \/ /\ Healthy
          /\ sick' = 0
          /\ pc' = "select"
          /\ UNCHANGED cause
       \/ /\ ~Healthy /\ ~Overdue
          /\ pc' = "select"
          /\ UNCHANGED <<sick, cause>>
       \/ /\ ~Healthy /\ Overdue
          /\ pc' = "resolve"
          /\ cause' = "watchdog"
          /\ UNCHANGED sick
    /\ UNCHANGED <<world, tunnel, aim, slept, probe, history>>

\* The recv arm, on an error of the socket.
RecvFails ==
    /\ pc = "select"
    /\ ~net
    /\ pc' = "resolve"
    /\ cause' = "recv"
    /\ UNCHANGED <<world, tunnel, aim, sick, slept, health, probe, history>>

\* resolve_endpoint answers, however late, and a failure has its fallback.
Resolve ==
    /\ pc = "resolve"
    /\ aim' \in Resolved
    /\ pc' = "bind"
    /\ UNCHANGED <<world, tunnel, cause, sick, slept, health, probe, history>>

\* Tunnel::new: a session without a handshake, and the grace begins again.
Bound ==
    /\ pc = "bind"
    /\ endpoint' = aim
    /\ handshake' = Never
    /\ wedged' = FALSE
    /\ sick' = 0
    /\ built' = 0
    /\ pc' = "select"
    /\ UNCHANGED <<world, cause, aim, slept, health, probe, seen, gone>>

\* The watchdog is back at its next tick; a failed socket waits first.
BindFails ==
    /\ pc = "bind"
    /\ ~net
    /\ pc' = IF cause = "recv" THEN "backoff" ELSE "select"
    /\ slept' = 0
    /\ UNCHANGED <<world, tunnel, cause, aim, sick, health, probe, history>>

Wakes ==
    /\ pc = "backoff"
    /\ slept = Backoff
    /\ pc' = "select"
    /\ UNCHANGED <<world, tunnel, cause, aim, sick, slept, health, probe, history>>

\* A panic, or the end of the runtime.
Dies ==
    /\ pc # "dead"
    /\ pc' = "dead"
    /\ UNCHANGED <<world, tunnel, cause, aim, sick, slept, health, probe, history>>

\* The recv arm completes a handshake the timers began; the session that cannot
\* reach its peer may expire and stay so (tunnel.rs, update_timers).
Handshake ==
    /\ pc = "select"
    /\ Reachable
    /\ ~wedged
    /\ handshake' = 0
    /\ UNCHANGED <<world, endpoint, wedged, task, health, probe, history>>

Wedge ==
    /\ ~Reachable
    /\ ~Live(handshake)
    /\ wedged' = TRUE
    /\ UNCHANGED <<world, endpoint, handshake, task, health, probe, history>>

\* last_handshake_secs: is the task alive, and if so what age did it publish?
ProbeBegins ==
    /\ probe = "idle"
    /\ Alive
    /\ probe' = "alive"
    /\ UNCHANGED <<world, tunnel, task, health, history>>

ProbeEnds ==
    /\ probe = "alive"
    /\ probe' = "idle"
    /\ UNCHANGED <<world, tunnel, task, health, history>>

WorldChanges ==
    /\ \/ box' \in Hosts /\ UNCHANGED <<dns, net, busy>>
       \/ dns' \in {"current", "old", "fails"} /\ UNCHANGED <<box, net, busy>>
       \/ net' = ~net /\ UNCHANGED <<box, dns, busy>>
       \/ busy' = ~busy /\ UNCHANGED <<box, dns, net>>
    /\ UNCHANGED <<tunnel, task, health, probe, history>>

Older(age, cap) == IF age # Never /\ age < cap THEN age + 1 ELSE age

\* Time passes; one set and one check take none.
Tick ==
    /\ pc # "stamp"
    /\ probe = "idle"
    /\ handshake' = Older(handshake, Stale)
    /\ sick' = Older(sick, After + 1)
    /\ slept' = IF pc = "backoff" THEN Older(slept, Backoff) ELSE slept
    /\ since' = Older(since, Fresh + 1)
    /\ seen' = Older(seen, Fresh + 1)
    /\ built' = Older(built, After + 1)
    /\ gone' = IF pc = "dead" THEN Older(gone, Fresh + 1) ELSE gone
    /\ UNCHANGED <<world, endpoint, wedged, pc, cause, aim, published, probe>>

TaskStep == PublishAge \/ PublishTime \/ Resolve \/ Bound \/ Wakes

Next ==
    \/ TaskStep \/ RecvFails \/ BindFails \/ Dies
    \/ Handshake \/ Wedge
    \/ ProbeBegins \/ ProbeEnds
    \/ WorldChanges \/ Tick

Spec == Init /\ [][Next]_vars

\* The stack task is polled, lookups and binds end, a check ends; time passes and a
\* peer that is reached answers a session that asks, whatever happens in between.
Fairness ==
    WF_vars(TaskStep) /\ WF_vars(ProbeEnds) /\ SF_vars(Handshake) /\ SF_vars(Tick)

FairSpec == Spec /\ Fairness
-----------------------------------------------------------------------------
SaysOk == Live(published)

\* A check that says the handshake is fine rests on a reading of the live tunnel
\* taken within HEALTH_FRESH_MS, whatever the task is doing between its two stores
\* and however long a rebuild kept it from publishing (forward.rs:150-167).
NoFossil == [][ProbeEnds /\ SaysOk => seen < Fresh]_vars

\* A dead stack task never reads as alive or healthy: once dead for HEALTH_FRESH_MS,
\* it is not taken to be alive (forward.rs:140-148; the test at forward.rs:712).
DeadIsNoticed == [][ProbeBegins => gone < Fresh]_vars

\* The watchdog never throws away a session with a live handshake, although it
\* awaits the resolver between its judgement and the bounce (forward.rs:385-387).
LiveTunnelKept == [][Bound /\ cause = "watchdog" => ~Live(handshake)]_vars

\* Every tunnel, the first included, has REHANDSHAKE_AFTER for its first handshake
\* before the watchdog judges it ill (forward.rs:56-59).
GraceForEveryTunnel == [][PublishTime /\ pc' = "resolve" => built > After]_vars

\* Self-heal: once the network, the resolver and the peer are settled and the timer
\* gets its turn, the tunnel is live again and again, wherever the peer has moved and
\* whatever became of the session (forward.rs:381-387, 573-574).
Settled(h) == box = h /\ net /\ dns = "current" /\ ~busy /\ pc # "dead"
SelfHeals == (\E h \in Hosts : <>[]Settled(h)) => []<>Live(handshake)

\* "On a DNS blip we keep the last-known endpoint rather than tearing the tunnel
\* down" (forward.rs:575-577): a failed lookup leaves the tunnel aimed where it was.
LastKnownKept == [][Resolve /\ dns = "fails" => aim' = endpoint]_vars
=============================================================================
