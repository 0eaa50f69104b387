------------------------------- MODULE SignIn --------------------------------
(***************************************************************************)
(* Signing in: the handlers of src/login/handlers.rs and the browsers they   *)
(* keep their state in.  A sign-in in progress lives in a sealed cookie of    *)
(* the browser that began it, a failed callback leaves a retry marker there,  *)
(* and a finished one a session id; the server holds only its sealing key and *)
(* the sessions.  Tabs of one browser share its jar, but a request carries    *)
(* the cookies of when it was sent, and an answer changes the jar only when   *)
(* it arrives.  Sign-ins expire, the process restarts, tabs are closed, and   *)
(* callback URLs are opened again, in this browser or in another.            *)
(*                                                                         *)
(* A flow is named by its state, numbered in the order of issue; a session by *)
(* the flow that made it, since the provider takes a code once; a goal is the *)
(* destination and step-up a sign-in was started for.                        *)
(***************************************************************************)
EXTENDS Integers, FiniteSets

CONSTANTS
    Tabs,             \* the tabs, one request each at a time
    Browsers,         \* the browsers
    BrowserOf,        \* the browser of each tab
    Goals,            \* what a sign-in may be started for
    Root,             \* the goal of a login URL without parameters
    MaxFlowCookies,   \* MAX_FLOW_COOKIES
    PerSecond,        \* how many flows are issued in a second, the unit of issued_at
    Faults,           \* what goes wrong besides a failed callback, of the ones below
    MaxFlows          \* bound on the sign-ins started

ASSUME BrowsersAssumption == Browsers # {} /\ BrowserOf \in [Tabs -> Browsers]
ASSUME TabsAssumption == IsFiniteSet(Tabs)
ASSUME FaultsAssumption == Faults \subseteq {"closed", "restart", "expiry", "eviction"}
ASSUME BoundsAssumption ==
    MaxFlowCookies \in Nat \ {0} /\ PerSecond \in Nat \ {0} /\ MaxFlows \in Nat
ASSUME GoalsAssumption == Root \in Goals

VARIABLES
    minted,     \* how many flows were started
    by, goal,   \* the browser and the goal of each flow
    stage,      \* how far each flow came: no callback URL yet, one with a good code,
                \* one that was opened, one whose code is spent
    restarted,  \* the flows up to this one were sealed before the last restart
    aged,       \* the flows up to this one are older than FLOW_TTL
    sessions,   \* the session store
    jar,        \* the cookies of each browser
    pc,         \* where each tab is
    asked,      \* what the user wanted of the tab
    query,      \* the goal in the login URL it requested last
    at,         \* the flow it is in
    sent,       \* the cookies its request carries
    reply,      \* the answer on its way to it
    retried     \* history: the tabs sent round again whose marker still counts

server == <<minted, by, goal, stage, restarted, aged>>
request == <<asked, query, at, sent>>
vars == <<server, sessions, jar, pc, request, reply, retried>>

Flows == 1..MaxFlows
None == 0           \* no session, in a jar or as what an answer sets
Keep == -1          \* an answer without a session cookie
Jar == [flows : SUBSET Flows, retry : BOOLEAN, session : Flows \cup {None}]
Reply == [clear : SUBSET Flows, set : SUBSET Flows, retry : {"keep", "set", "clear"},
          session : Flows \cup {None, Keep}, go : {"provider", "login", "page", "stop"},
          goal : Goals]
Handling == {"login", "callback", "exchange", "verify", "logout"}
EmptyJar == [flows |-> {}, retry |-> FALSE, session |-> None]
Plain == [clear |-> {}, set |-> {}, retry |-> "keep", session |-> Keep, go |-> "stop", goal |-> Root]

TypeOK ==
    /\ minted \in 0..MaxFlows
    /\ by \in [Flows -> Browsers] /\ goal \in [Flows -> Goals]
    /\ stage \in [Flows -> {"begun", "issued", "opened", "spent"}]
    /\ restarted \in 0..minted /\ aged \in 0..minted
    /\ sessions \subseteq 1..minted
    /\ jar \in [Browsers -> Jar]
    /\ pc \in [Tabs -> Handling \cup {"idle", "answered", "provider", "retire"}]
    /\ asked \in [Tabs -> Goals] /\ query \in [Tabs -> Goals]
    /\ at \in [Tabs -> 0..minted]
    /\ sent \in [Tabs -> Jar]
    /\ reply \in [Tabs -> Reply]
    /\ retried \subseteq Tabs

Init ==
    /\ minted = 0
    /\ by = [f \in Flows |-> CHOOSE b \in Browsers : TRUE] /\ goal = [f \in Flows |-> Root]
    /\ stage = [f \in Flows |-> "begun"] /\ restarted = 0 /\ aged = 0
    /\ sessions = {}
    /\ jar = [b \in Browsers |-> EmptyJar]
    /\ pc = [t \in Tabs |-> "idle"]
    /\ asked = [t \in Tabs |-> Root] /\ query = [t \in Tabs |-> Root]
    /\ at = [t \in Tabs |-> 0]
    /\ sent = [t \in Tabs |-> EmptyJar]
    /\ reply = [t \in Tabs |-> Plain]
    /\ retried = {}
-----------------------------------------------------------------------------
Goto(t, step) == pc' = [pc EXCEPT ![t] = step]

Rests(t) ==
    /\ Goto(t, "idle")
    /\ asked' = [asked EXCEPT ![t] = Root]
    /\ query' = [query EXCEPT ![t] = Root]
    /\ at' = [at EXCEPT ![t] = 0]
    /\ sent' = [sent EXCEPT ![t] = EmptyJar]
    /\ reply' = [reply EXCEPT ![t] = Plain]

Reaches(t, step) == stage' = [stage EXCEPT ![at[t]] = step]

\* The handler is done with the request; its answer is on its way.
Respond(t, r) ==
    /\ reply' = [reply EXCEPT ![t] = r]
    /\ sent' = [sent EXCEPT ![t] = EmptyJar]
    /\ Goto(t, "answered")

\* The tab requests a URL with the cookies the browser holds now.
Request(t, step, cookies) ==
    /\ sent' = [sent EXCEPT ![t] = cookies]
    /\ Goto(t, step)

\* The cookies kept by prune_flow_cookies: those that open, newest first, up to one
\* less than the cap.  The sort is stable and sees whole seconds: within one, the order
\* is that of the Cookie header, where browsers put the oldest first.  The variant keeps
\* the oldest.
Issued(f) == (f - 1) \div PerSecond
Newer(f, held) ==
    {g \in held : Issued(g) > Issued(f) \/ (Issued(g) = Issued(f) /\ g < f)}
Older(f, held) == {g \in held : g < f}
KeptOldest(held) == {f \in held : Cardinality(Older(f, held)) < MaxFlowCookies - 1}
Kept(held) == {f \in held : Cardinality(Newer(f, held)) < MaxFlowCookies - 1}

\* A flow cookie is worth something to the process that sealed it, for FLOW_TTL.
SealedHere(f) == f > restarted
Young(f) == f > aged

Pruned(t) == sent[t].flows \ Kept({f \in sent[t].flows : SealedHere(f)})

\* The sealed cookie opens: this request carries it, this process sealed it, and it
\* is not too old.  The variant looks the flow up in a map on the server.
HeldOnServer(t) == SealedHere(at[t]) /\ Young(at[t])
Opens(t) == at[t] \in sent[t].flows /\ SealedHere(at[t]) /\ Young(at[t])

\* handlers.rs:330-337: the login URL of a restart, and the marker that goes with it.
RestartQuery(t, opened) == IF opened THEN goal[at[t]] ELSE Root
Unmarked == "keep"
Marked == "set"

\* Every answer of a callback that could name its cookie clears it (done).
RestartOrRefuse(t, opened) ==
    IF sent[t].retry THEN [Plain EXCEPT !.clear = {at[t]}]
    ELSE [Plain EXCEPT !.clear = {at[t]}, !.retry = Marked, !.go = "login",
                       !.goal = RestartQuery(t, opened)]

\* Where a finished sign-in lands; the variant remembers one destination for all.
LatestGoal(t) == goal[minted]
LandsAt(t) == goal[at[t]]

SignedInReply(t) ==
    [Plain EXCEPT !.clear = {at[t]}, !.retry = "clear", !.session = at[t],
                  !.go = "page", !.goal = LandsAt(t)]

\* handlers.rs:220-226: the old session goes when its replacement exists.  The
\* variants let it go when the callback begins, or keep it.
RetiredFirst(t) == sessions \ {sent[t].session}
UntilReplaced(t) == sessions
NothingRetired(t) == {}
Retired(t) == {sent[t].session}
-----------------------------------------------------------------------------
\* The user asks a tab for a page that needs a sign-in, or for a step-up.
Ask(t) ==
    /\ pc[t] = "idle"
    /\ minted < MaxFlows
    /\ \E g \in Goals \ {Root} :
        /\ asked' = [asked EXCEPT ![t] = g]
        /\ query' = [query EXCEPT ![t] = g]
    /\ Request(t, "login", jar[BrowserOf[t]])
    /\ UNCHANGED <<server, sessions, jar, at, reply, retried>>

\* Discovery has no client: 503, and no cookie.
LoginUnavailable(t) ==
    /\ pc[t] = "login"
    /\ Respond(t, Plain)
    /\ UNCHANGED <<server, sessions, jar, asked, query, at, retried>>

Login(t) ==
    /\ pc[t] = "login"
    /\ minted < MaxFlows
    /\ LET f == minted + 1
       IN  /\ minted' = f
           /\ by' = [by EXCEPT ![f] = BrowserOf[t]]
           /\ goal' = [goal EXCEPT ![f] = query[t]]
           /\ at' = [at EXCEPT ![t] = f]
           /\ Respond(t, [Plain EXCEPT !.clear = Pruned(t), !.set = {f}, !.go = "provider"])
    /\ UNCHANGED <<stage, restarted, aged, sessions, jar, asked, query, retried>>

\* The user signs in at the provider, which sends the tab to the callback.
SignsIn(t) ==
    /\ pc[t] = "provider"
    /\ Reaches(t, "issued")
    /\ Request(t, "callback", jar[BrowserOf[t]])
    /\ UNCHANGED <<minted, by, goal, restarted, aged, sessions, jar, asked, query, at, reply, retried>>

\* The user turns away, or the provider refuses: a callback with an error is
\* answered by a message.
GivesUp(t) ==
    /\ pc[t] = "provider"
    /\ Rests(t)
    /\ UNCHANGED <<server, sessions, jar, retried>>

\* A callback URL is reloaded, found in the history, or passed on to someone.
OpensAgain(t, f) ==
    /\ pc[t] = "idle"
    /\ f \in 1..minted /\ stage[f] # "begun"
    /\ at' = [at EXCEPT ![t] = f]
    /\ asked' = [asked EXCEPT ![t] = goal[f]]
    /\ query' = [query EXCEPT ![t] = goal[f]]
    /\ Request(t, "callback", jar[BrowserOf[t]])
    /\ UNCHANGED <<server, sessions, jar, reply, retried>>

\* callback: without its cookie the browser goes round again, its goal unknown.
FlowUnknown(t) ==
    /\ pc[t] = "callback"
    /\ ~Opens(t)
    /\ Respond(t, RestartOrRefuse(t, FALSE))
    /\ UNCHANGED <<server, sessions, jar, asked, query, at, retried>>

OpenFlow(t) ==
    /\ pc[t] = "callback"
    /\ Opens(t)
    /\ sessions' = UntilReplaced(t)
    /\ IF stage[at[t]] = "issued" THEN Reaches(t, "opened") ELSE UNCHANGED stage
    /\ Goto(t, "exchange")
    /\ UNCHANGED <<minted, by, goal, restarted, aged, jar, request, reply, retried>>

\* The provider takes a code once.
Exchange(t) ==
    /\ pc[t] = "exchange"
    /\ stage[at[t]] # "spent"
    /\ Reaches(t, "spent")
    /\ Goto(t, "verify")
    /\ UNCHANGED <<minted, by, goal, restarted, aged, sessions, jar, request, reply, retried>>

\* No client, a failed exchange (whose code may be spent), or an ID token that does
\* not verify even with new keys.
CallbackFails(t) ==
    /\ pc[t] \in {"exchange", "verify"}
    /\ Reaches(t, "spent") \/ UNCHANGED stage
    /\ Respond(t, RestartOrRefuse(t, TRUE))
    /\ UNCHANGED <<minted, by, goal, restarted, aged, sessions, jar, asked, query, at, retried>>

\* No token endpoint, no ID token, no entropy for a session id.
CallbackRefused(t) ==
    /\ pc[t] \in {"exchange", "verify"}
    /\ Respond(t, [Plain EXCEPT !.clear = {at[t]}])
    /\ UNCHANGED <<server, sessions, jar, asked, query, at, retried>>

\* The ID token verified: a new session, and then, in another hold of the store's
\* lock, the end of the one this request came with.
Insert(t) ==
    /\ pc[t] = "verify"
    /\ sessions' = sessions \cup {at[t]}
    /\ Goto(t, "retire")
    /\ UNCHANGED <<server, jar, request, reply, retried>>

Retire(t) ==
    /\ pc[t] = "retire"
    /\ sessions' = sessions \ Retired(t)
    /\ Respond(t, SignedInReply(t))
    /\ UNCHANGED <<server, jar, asked, query, at, retried>>

SignOut(t) ==
    /\ pc[t] = "idle"
    /\ jar[BrowserOf[t]].session # None
    /\ Request(t, "logout", jar[BrowserOf[t]])
    /\ UNCHANGED <<server, sessions, jar, asked, query, at, reply, retried>>

Logout(t) ==
    /\ pc[t] = "logout"
    /\ sessions' = sessions \ {sent[t].session}
    /\ Respond(t, [Plain EXCEPT !.session = None])
    /\ UNCHANGED <<server, jar, asked, query, at, retried>>
-----------------------------------------------------------------------------
\* An answer arrives: its cookies go into the jar, and its redirect is followed with
\* the cookies that are there then.
After(cookies, r) ==
    [flows |-> (cookies.flows \cup r.set) \ r.clear,
     retry |-> IF r.retry = "keep" THEN cookies.retry ELSE r.retry = "set",
     session |-> IF r.session = Keep THEN cookies.session ELSE r.session]

\* Whose retry an arriving answer uses up, or makes good.
RetriedAfter(t) ==
    CASE reply[t].retry = "clear" -> {u \in retried : BrowserOf[u] # BrowserOf[t]}
      [] reply[t].go = "login" -> retried \cup {t}
      [] OTHER -> retried

Deliver(t) ==
    LET b == BrowserOf[t]
        r == reply[t]
        cookies == After(jar[b], r)
    IN  /\ pc[t] = "answered"
        /\ jar' = [jar EXCEPT ![b] = cookies]
        /\ retried' = RetriedAfter(t)
        /\ \/ /\ r.go = "login"
              /\ Request(t, "login", cookies)
              /\ query' = [query EXCEPT ![t] = r.goal]
              /\ reply' = [reply EXCEPT ![t] = Plain]
              /\ UNCHANGED <<asked, at>>
           \/ /\ r.go = "provider"
              /\ Goto(t, "provider")
              /\ reply' = [reply EXCEPT ![t] = Plain]
              /\ UNCHANGED request
           \/ /\ r.go \in {"page", "stop"}
              /\ Rests(t)
        /\ UNCHANGED <<server, sessions>>

\* A tab is closed while it waits: its handler is dropped at an await, or its answer
\* is lost.
Close(t) ==
    /\ "closed" \in Faults
    /\ pc[t] \in Handling \cup {"answered"}
    /\ Rests(t)
    /\ UNCHANGED <<server, sessions, jar, retried>>

\* The sealing key and the sessions live in the process's memory: a restart loses
\* them (and what it was handling, which Close covers).
Restart ==
    /\ "restart" \in Faults
    /\ \A t \in Tabs : pc[t] \notin Handling \cup {"retire"}
    /\ restarted' = minted
    /\ sessions' = {}
    /\ UNCHANGED <<minted, by, goal, stage, aged, jar, pc, request, reply, retried>>

\* The oldest flow still fresh passes FLOW_TTL; its cookie goes some time later.
FlowAges ==
    /\ "expiry" \in Faults
    /\ aged < minted
    /\ aged' = aged + 1
    /\ UNCHANGED <<minted, by, goal, stage, restarted, sessions, jar, pc, request, reply, retried>>

FlowCookieExpires(b) ==
    /\ \E f \in jar[b].flows : f <= aged /\ jar' = [jar EXCEPT ![b].flows = @ \ {f}]
    /\ UNCHANGED <<server, sessions, pc, request, reply, retried>>

MarkerExpires(b) ==
    /\ "expiry" \in Faults
    /\ jar[b].retry
    /\ jar' = [jar EXCEPT ![b].retry = FALSE]
    /\ retried' = {t \in retried : BrowserOf[t] # b}
    /\ UNCHANGED <<server, sessions, pc, request, reply>>

\* A session expires or is evicted (SessionStore); the newest one is not.
SessionEnds(s) ==
    /\ "eviction" \in Faults
    /\ s \in sessions
    /\ \A t \in Tabs : pc[t] = "retire" => at[t] # s
    /\ sessions' = sessions \ {s}
    /\ UNCHANGED <<server, jar, pc, request, reply, retried>>

Handler(t) ==
    \/ LoginUnavailable(t) \/ Login(t) \/ FlowUnknown(t) \/ OpenFlow(t) \/ Exchange(t)
    \/ CallbackFails(t) \/ CallbackRefused(t) \/ Insert(t) \/ Retire(t) \/ Logout(t)

Next ==
    \/ \E t \in Tabs : Handler(t) \/ Ask(t) \/ SignsIn(t) \/ GivesUp(t) \/ SignOut(t)
                       \/ Deliver(t) \/ Close(t)
    \/ \E t \in Tabs, f \in Flows : OpensAgain(t, f)
    \/ \E b \in Browsers : FlowCookieExpires(b) \/ MarkerExpires(b)
    \/ \E s \in Flows : SessionEnds(s)
    \/ FlowAges \/ Restart

Spec == Init /\ [][Next]_vars
-----------------------------------------------------------------------------
TabsOf(b) == {t \in Tabs : BrowserOf[t] = b}
SignedIn(b) == jar[b].session \in sessions

\* "A callback finishes only in the browser that started it" (README.md:169-171):
\* no browser ever holds a session of a sign-in that another one began.
OnlyStarter == \A b \in Browsers : jar[b].session # None => by[jar[b].session] = b

\* A failed callback goes round once (README.md:184, handlers.rs:316-320): no tab is
\* sent round again before its marker expired or a sign-in of its browser succeeded.
RetriedOnce ==
    [][\A t \in Tabs : pc[t] = "answered" /\ pc'[t] = "login" => t \notin retried]_vars

\* A sign-in lands where its tab's login URL said, never where another tab was headed
\* (flow.rs:17-19, handlers.rs:228).
LandsWhereAsked == \A t \in Tabs : reply[t].go = "page" => reply[t].goal = query[t]

\* A sign-in under way is lost only to its age, a restart, its own completion, or to
\* as many newer ones of the same browser as it may keep; no flood of others can
\* take it (README.md:171-172, handlers.rs:116-117).
SignInSurvives ==
    [][\A t \in Tabs : FlowUnknown(t) =>
          LET f == at[t]
              b == BrowserOf[t]
          IN  \/ by[f] # b \/ ~SealedHere(f) \/ ~Young(f) \/ stage[f] # "issued"
              \/ Cardinality({g \in (f + 1)..minted : by[g] = b}) >= MaxFlowCookies]_vars

\* A sign-in that fails never costs a browser the session it had
\* (handlers.rs:220-223): one that was signed in and no longer is signed out, got an
\* answer that replaces its session, or lost it to the store or a restart.
FailureKeepsSession ==
    [][\A b \in Browsers : SignedIn(b) /\ ~(SignedIn(b))' =>
          \/ Restart \/ \E s \in Flows : SessionEnds(s)
          \/ \E t \in Tabs : Logout(t) \/ (Retire(t) /\ at[t] \in sessions')
          \/ \E t \in TabsOf(b) : Deliver(t) /\ reply[t].session # Keep]_vars

\* A sign-in replaces the session the browser had (handlers.rs:136-138, 220-226):
\* a browser at rest has no session on the server but the one it holds.
OneLiveSession ==
    \A b \in Browsers :
        (\A t \in TabsOf(b) : pc[t] = "idle") =>
            \A s \in sessions : by[s] = b => jar[b].session = s

\* What that rests on: no browser finishes or ends two sign-ins at once, and the answer
\* that brings a new session is not lost.
Engaged(t) == pc[t] \in {"callback", "exchange", "verify", "retire", "logout"} \/ reply[t].session # Keep
OneAtATime ==
    \A t, u \in Tabs : BrowserOf[t] = BrowserOf[u] /\ Engaged(t) /\ Engaged(u) => t = u
SessionsArrive == [][\A t \in Tabs : Close(t) => reply[t].session \in {None, Keep}]_vars

\* "A browser keeps at most five such cookies" (README.md:172).
FlowCookiesCapped == \A b \in Browsers : Cardinality(jar[b].flows) <= MaxFlowCookies

\* What the pruning achieves (handlers.rs:116-118).  Each login prunes what its own request
\* carried, so tabs that start a sign-in together add a cookie each; but however long they
\* go on and in whatever order the answers arrive, each tab costs one cookie at most.
FlowCookiesBounded ==
    \A b \in Browsers : Cardinality(jar[b].flows) < MaxFlowCookies + Cardinality(TabsOf(b))

\* A tab waits for the answer that begins its flow.
Starting(t) == pc[t] = "login" \/ reply[t].set # {}
StartingIn(b) == {t \in TabsOf(b) : Starting(t)}
StartsInTurn == \A b \in Browsers : \A t, u \in StartingIn(b) : t = u

\* "A failed callback is retried once, to the same destination and step-up"
\* (README.md:184-185).
RetriedToTheSameGoal == \A t \in Tabs : reply[t].go = "login" => reply[t].goal = asked[t]
=============================================================================
