--------------------------- MODULE SignIn_proofs ----------------------------
(***************************************************************************)
(* Signing in, proved for every number of tabs, browsers and sign-ins, every *)
(* cap on flow cookies, and every fault.                                     *)
(***************************************************************************)
EXTENDS SignIn, FiniteSetTheorems, TLAPS

\* The flows a browser began.
OwnFlows(b) == {f \in 1..minted : by[f] = b}

Awaiting(t) == pc[t] = "provider" \/ (pc[t] = "answered" /\ reply[t].go = "provider")
Opened(t) == pc[t] \in {"exchange", "verify", "retire"}
Finishing(t) == pc[t] \in {"verify", "retire"}

\* A tab at the provider or in a callback is in a flow with the goal of its URL; an
\* answer is there only while it is on its way.
Placed == \A t \in Tabs :
    /\ Awaiting(t) \/ pc[t] = "callback" \/ Opened(t) =>
           at[t] \in 1..minted /\ goal[at[t]] = query[t]
    /\ pc[t] # "answered" => reply[t].go = "stop"

\* No browser, request or answer names a flow that another browser began.
OwnCookies ==
    /\ \A b \in Browsers : jar[b].flows \subseteq OwnFlows(b)
                           /\ jar[b].session \in OwnFlows(b) \cup {None}
    /\ \A t \in Tabs : LET own == OwnFlows(BrowserOf[t]) IN
          /\ sent[t].flows \subseteq own /\ sent[t].session \in own \cup {None}
          /\ reply[t].set \subseteq own /\ reply[t].session \in own \cup {None, Keep}
          /\ Opened(t) => at[t] \in own

\* A tab that was sent round again carries the marker.
Marker ==
    \A t \in Tabs :
        /\ t \in retried => /\ jar[BrowserOf[t]].retry
                            /\ pc[t] = "callback" \/ Opened(t) => sent[t].retry
        /\ reply[t].go = "login" => t \notin retried /\ reply[t].retry = "set"

SignInInv == TypeOK /\ Placed /\ LandsWhereAsked /\ OwnCookies /\ Marker

-----------------------------------------------------------------------------
LEMMA Constants ==
    /\ BrowserOf \in [Tabs -> Browsers] /\ Root \in Goals
    /\ MaxFlows \in Nat /\ Flows = 1..MaxFlows /\ None = 0 /\ Keep = -1
    /\ EmptyJar \in Jar /\ Plain \in Reply
  <1>1. BrowserOf \in [Tabs -> Browsers] /\ Root \in Goals /\ MaxFlows \in Nat
    BY BrowsersAssumption, GoalsAssumption, BoundsAssumption
  <1>2. EmptyJar \in Jar
    BY DEF EmptyJar, Jar
  <1>3. Plain \in Reply
    BY <1>1 DEF Plain, Reply
  <1> QED
    BY <1>1, <1>2, <1>3 DEF Flows, None, Keep

LEMMA InitInv == Init => SignInInv
  <1> SUFFICES ASSUME Init PROVE SignInInv
    OBVIOUS
  <1>1. TypeOK
    <2>1. (CHOOSE b \in Browsers : TRUE) \in Browsers
      BY BrowsersAssumption
    <2> QED
      BY <2>1, Constants DEF Init, TypeOK, Handling
  <1>2. Placed /\ LandsWhereAsked /\ OwnCookies /\ Marker
    BY Constants DEF Init, Placed, LandsWhereAsked, OwnCookies, Marker, Awaiting, Opened, EmptyJar, Plain
  <1> QED
    BY <1>1, <1>2 DEF SignInInv

-----------------------------------------------------------------------------
\* What the handlers' answers are.
LEMMA Answers ==
    ASSUME TypeOK, NEW t \in Tabs, at[t] \in Flows
    PROVE  /\ RestartOrRefuse(t, TRUE) \in Reply /\ RestartOrRefuse(t, FALSE) \in Reply
           /\ SignedInReply(t) \in Reply
           /\ [Plain EXCEPT !.clear = {at[t]}] \in Reply
           /\ [Plain EXCEPT !.session = None] \in Reply
  <1>1. /\ Root \in Goals /\ goal[at[t]] \in Goals /\ {at[t]} \in SUBSET Flows
    BY Constants DEF TypeOK
  <1>2. [Plain EXCEPT !.clear = {at[t]}] \in Reply /\ [Plain EXCEPT !.session = None] \in Reply
    BY <1>1 DEF Plain, Reply
  <1>3. SignedInReply(t) \in Reply
    BY <1>1 DEF SignedInReply, LandsAt, Plain, Reply
  <1>4. \A g \in Goals : [Plain EXCEPT !.clear = {at[t]}, !.retry = "set", !.go = "login", !.goal = g] \in Reply
    BY <1>1 DEF Plain, Reply
  <1> QED
    BY <1>1, <1>2, <1>3, <1>4 DEF RestartOrRefuse, RestartQuery, Marked

\* A flow that is started is the first of its number.
LEMMA LoginStep ==
    ASSUME SignInInv, NEW t \in Tabs, Login(t)
    PROVE  SignInInv'
  <1> DEFINE f == minted + 1
             b == BrowserOf[t]
             r == [Plain EXCEPT !.clear = Pruned(t), !.set = {f}, !.go = "provider"]
  <1> USE Constants
  <1>1. /\ pc[t] = "login" /\ f \in Flows /\ minted' = f
        /\ by' = [by EXCEPT ![f] = b] /\ goal' = [goal EXCEPT ![f] = query[t]]
        /\ at' = [at EXCEPT ![t] = f] /\ reply' = [reply EXCEPT ![t] = r]
        /\ sent' = [sent EXCEPT ![t] = EmptyJar] /\ pc' = [pc EXCEPT ![t] = "answered"]
        /\ UNCHANGED <<stage, restarted, aged, sessions, jar, asked, query, retried>>
    BY DEF Login, Respond, Goto, SignInInv, TypeOK
  <1>2. b \in Browsers /\ query[t] \in Goals /\ Pruned(t) \in SUBSET Flows
    BY DEF SignInInv, TypeOK, Pruned, Jar
  <1>3. r \in Reply
    BY <1>1, <1>2 DEF Plain, Reply
  <1>4. TypeOK'
    BY <1>1, <1>2, <1>3 DEF SignInInv, TypeOK
  <1>5. Placed'
    BY <1>1 DEF SignInInv, TypeOK, Placed, Awaiting, Opened
  <1>6. r.go = "provider" /\ r.set = {f} /\ r.session = Keep
    BY DEF Plain
  <1>7. LandsWhereAsked'
    BY <1>1, <1>6 DEF SignInInv, TypeOK, LandsWhereAsked
  <1>8. /\ \A c \in Browsers : OwnFlows(c) \subseteq OwnFlows(c)'
        /\ f \in OwnFlows(b)'
    BY <1>1 DEF SignInInv, TypeOK, OwnFlows
  <1>9. OwnCookies'
    BY <1>1, <1>6, <1>8 DEF SignInInv, TypeOK, OwnCookies, Opened, EmptyJar
  <1>10. Marker'
    BY <1>1, <1>6 DEF SignInInv, TypeOK, Marker, Opened
  <1> QED
    BY <1>4, <1>5, <1>7, <1>9, <1>10 DEF SignInInv

\* An answer that keeps what is known of its tab.
LEMMA RespondStep ==
    ASSUME SignInInv, NEW t \in Tabs, NEW r \in Reply, Respond(t, r),
           UNCHANGED <<minted, by, goal, restarted, aged, jar, asked, query, at, retried>>,
           stage' \in [Flows -> {"begun", "issued", "opened", "spent"}], sessions' \subseteq 1..minted,
           r.go # "provider", r.go = "page" => r.goal = query[t],
           r.set \subseteq OwnFlows(BrowserOf[t]),
           r.session \in OwnFlows(BrowserOf[t]) \cup {None, Keep},
           r.go = "login" => t \notin retried /\ r.retry = "set"
    PROVE  SignInInv'
  <1> USE Constants
  <1>1. /\ reply' = [reply EXCEPT ![t] = r] /\ sent' = [sent EXCEPT ![t] = EmptyJar]
        /\ pc' = [pc EXCEPT ![t] = "answered"]
    BY DEF Respond, Goto
  <1>2. TypeOK'
    BY <1>1 DEF SignInInv, TypeOK
  <1>3. Placed'
    BY <1>1 DEF SignInInv, TypeOK, Placed, Awaiting, Opened
  <1>4. LandsWhereAsked'
    BY <1>1 DEF SignInInv, TypeOK, LandsWhereAsked
  <1>5. \A c \in Browsers : OwnFlows(c)' = OwnFlows(c)
    BY DEF OwnFlows
  <1>6. OwnCookies'
    BY <1>1, <1>5 DEF SignInInv, TypeOK, OwnCookies, Opened, EmptyJar
  <1>7. Marker'
    BY <1>1 DEF SignInInv, TypeOK, Marker, Opened
  <1> QED
    BY <1>2, <1>3, <1>4, <1>6, <1>7 DEF SignInInv

\* A tab sends a request with the cookies its browser holds.
LEMMA RequestStep ==
    ASSUME SignInInv, NEW t \in Tabs, NEW step \in {"login", "callback", "logout"},
           Request(t, step, jar[BrowserOf[t]]),
           pc[t] \in {"idle", "provider"},
           UNCHANGED <<minted, by, goal, restarted, aged, jar, sessions, reply, retried>>,
           stage' \in [Flows -> {"begun", "issued", "opened", "spent"}],
           asked' \in [Tabs -> Goals],
           query' \in [Tabs -> Goals], \A u \in Tabs \ {t} : query'[u] = query[u] /\ at'[u] = at[u],
           at' \in [Tabs -> 0..minted],
           step = "callback" => at'[t] \in 1..minted /\ goal[at'[t]] = query'[t]
    PROVE  SignInInv'
  <1> USE Constants
  <1>1. sent' = [sent EXCEPT ![t] = jar[BrowserOf[t]]] /\ pc' = [pc EXCEPT ![t] = step]
    BY DEF Request, Goto
  <1>2. TypeOK'
    BY <1>1 DEF SignInInv, TypeOK, Handling
  <1>3. Placed'
    BY <1>1 DEF SignInInv, TypeOK, Placed, Awaiting, Opened
  <1>4. LandsWhereAsked'
    BY <1>1 DEF SignInInv, TypeOK, LandsWhereAsked, Placed
  <1>5. \A c \in Browsers : OwnFlows(c)' = OwnFlows(c)
    BY DEF OwnFlows
  <1>6. OwnCookies'
    BY <1>1, <1>5 DEF SignInInv, TypeOK, OwnCookies, Opened
  <1>7. Marker'
    BY <1>1 DEF SignInInv, TypeOK, Marker, Opened
  <1> QED
    BY <1>2, <1>3, <1>4, <1>6, <1>7 DEF SignInInv

\* A handler moves on; a flow is opened only with a cookie of its browser.
LEMMA HandlerMoves ==
    ASSUME SignInInv, NEW t \in Tabs, NEW step \in {"exchange", "verify", "retire"}, Goto(t, step),
           UNCHANGED <<minted, by, goal, restarted, aged, jar, request, reply, retried>>,
           stage' \in [Flows -> {"begun", "issued", "opened", "spent"}], sessions' \subseteq 1..minted,
           pc[t] = "callback" \/ Opened(t), at[t] \in OwnFlows(BrowserOf[t])
    PROVE  SignInInv'
  <1> USE Constants
  <1>1. pc' = [pc EXCEPT ![t] = step] /\ UNCHANGED <<asked, query, at, sent>>
    BY DEF Goto, request
  <1>2. TypeOK'
    BY <1>1 DEF SignInInv, TypeOK, Handling
  <1>3. Placed'
    BY <1>1 DEF SignInInv, TypeOK, Placed, Awaiting, Opened
  <1>4. LandsWhereAsked'
    BY <1>1 DEF SignInInv, LandsWhereAsked
  <1>5. \A c \in Browsers : OwnFlows(c)' = OwnFlows(c)
    BY DEF OwnFlows
  <1>6. OwnCookies'
    BY <1>1, <1>5 DEF SignInInv, TypeOK, OwnCookies, Opened
  <1>7. Marker'
    BY <1>1 DEF SignInInv, TypeOK, Marker, Opened
  <1> QED
    BY <1>2, <1>3, <1>4, <1>6, <1>7 DEF SignInInv

\* A tab comes to rest.
LEMMA RestsStep ==
    ASSUME SignInInv, NEW t \in Tabs, Rests(t), UNCHANGED <<server, sessions, jar, retried>>
    PROVE  SignInInv'
  <1> USE Constants DEF server
  <1>1. /\ pc' = [pc EXCEPT ![t] = "idle"] /\ asked' = [asked EXCEPT ![t] = Root]
        /\ query' = [query EXCEPT ![t] = Root] /\ at' = [at EXCEPT ![t] = 0]
        /\ sent' = [sent EXCEPT ![t] = EmptyJar] /\ reply' = [reply EXCEPT ![t] = Plain]
    BY DEF Rests, Goto
  <1>2. TypeOK'
    BY <1>1 DEF SignInInv, TypeOK
  <1>3. Placed'
    BY <1>1 DEF SignInInv, TypeOK, Placed, Awaiting, Opened, Plain
  <1>4. LandsWhereAsked'
    BY <1>1 DEF SignInInv, TypeOK, LandsWhereAsked, Plain
  <1>5. \A c \in Browsers : OwnFlows(c)' = OwnFlows(c)
    BY DEF OwnFlows
  <1>6. OwnCookies'
    BY <1>1, <1>5 DEF SignInInv, TypeOK, OwnCookies, Opened, EmptyJar, Plain
  <1>7. Marker'
    BY <1>1 DEF SignInInv, TypeOK, Marker, Opened, Plain
  <1> QED
    BY <1>2, <1>3, <1>4, <1>6, <1>7 DEF SignInInv

\* An answer that arrives leaves each browser with cookies of its own, and whoever was
\* sent round again with the marker.
LEMMA DeliverStep ==
    ASSUME SignInInv, NEW t \in Tabs, Deliver(t)
    PROVE  SignInInv'
  <1> DEFINE b == BrowserOf[t]
             r == reply[t]
             cookies == After(jar[b], r)
  <1> USE Constants
  <1>1. /\ pc[t] = "answered" /\ b \in Browsers /\ r \in Reply /\ jar[b] \in Jar
        /\ jar' = [jar EXCEPT ![b] = cookies]
        /\ retried' = RetriedAfter(t)
        /\ UNCHANGED <<minted, by, goal, stage, restarted, aged, sessions>>
    BY DEF Deliver, server, SignInInv, TypeOK
  <1>2. \/ /\ r.go = "login" /\ sent' = [sent EXCEPT ![t] = cookies] /\ pc' = [pc EXCEPT ![t] = "login"]
           /\ query' = [query EXCEPT ![t] = r.goal] /\ reply' = [reply EXCEPT ![t] = Plain]
           /\ UNCHANGED <<asked, at>>
        \/ /\ r.go = "provider" /\ pc' = [pc EXCEPT ![t] = "provider"]
           /\ reply' = [reply EXCEPT ![t] = Plain]
           /\ UNCHANGED <<asked, query, at, sent>>
        \/ /\ r.go \in {"page", "stop"}
           /\ pc' = [pc EXCEPT ![t] = "idle"] /\ asked' = [asked EXCEPT ![t] = Root]
           /\ query' = [query EXCEPT ![t] = Root] /\ at' = [at EXCEPT ![t] = 0]
           /\ sent' = [sent EXCEPT ![t] = EmptyJar] /\ reply' = [reply EXCEPT ![t] = Plain]
    BY DEF Deliver, Request, Rests, Goto, request
  <1>3. /\ cookies \in Jar
        /\ cookies.flows \subseteq jar[b].flows \cup r.set
        /\ cookies.session \in {jar[b].session, r.session} /\ cookies.session # Keep
        /\ r.retry = "keep" => cookies.retry = jar[b].retry
        /\ r.retry = "set" => cookies.retry
    <2>1. /\ jar[b].flows \in SUBSET Flows /\ jar[b].retry \in BOOLEAN
          /\ jar[b].session \in Flows \cup {None}
          /\ r.set \in SUBSET Flows /\ r.session \in Flows \cup {None, Keep}
      BY <1>1 DEF Jar, Reply
    <2>2. /\ cookies.flows = (jar[b].flows \cup r.set) \ r.clear
          /\ cookies.session = IF r.session = Keep THEN jar[b].session ELSE r.session
      BY DEF After
    <2>3. cookies.retry = IF r.retry = "keep" THEN jar[b].retry ELSE r.retry = "set"
      BY DEF After
    <2>4. cookies.retry \in BOOLEAN
      BY <2>1, <2>3
    <2>5. cookies.flows \in SUBSET Flows /\ cookies.session \in Flows \cup {None}
      BY <2>1, <2>2
    <2>6. cookies = [flows |-> cookies.flows, retry |-> cookies.retry, session |-> cookies.session]
      BY DEF After
    <2> HIDE DEF cookies
    <2>7. cookies \in Jar
      BY <2>4, <2>5, <2>6 DEF Jar
    <2>8. cookies.session # Keep
      BY <2>5
    <2>9. r.retry = "set" => cookies.retry
      BY <2>3
    <2> QED
      BY <2>2, <2>3, <2>7, <2>8, <2>9
  <1>4. retried' \subseteq Tabs
    BY <1>1 DEF RetriedAfter, SignInInv, TypeOK
  <1>5. TypeOK'
    <2>1. Plain \in Reply /\ EmptyJar \in Jar /\ Root \in Goals /\ r.goal \in Goals
      BY <1>1 DEF Reply
    <2>2. jar' \in [Browsers -> Jar]
      BY <1>1, <1>3 DEF SignInInv, TypeOK
    <2>3. reply' = [reply EXCEPT ![t] = Plain]
      BY <1>2
    <2>4. reply' \in [Tabs -> Reply]
      BY <2>1, <2>3 DEF SignInInv, TypeOK
    <2>7. \E j \in Jar : sent' = [sent EXCEPT ![t] = j]
      <3>1. sent \in [Tabs -> Jar] /\ sent = [sent EXCEPT ![t] = sent[t]]
        BY DEF SignInInv, TypeOK
      <3> QED
        BY <1>2, <1>3, <2>1, <3>1 DEF SignInInv, TypeOK
    <2>8. \E g \in Goals : query' = [query EXCEPT ![t] = g]
      <3>1. query \in [Tabs -> Goals] /\ query = [query EXCEPT ![t] = query[t]]
        BY DEF SignInInv, TypeOK
      <3> QED
        BY <1>2, <2>1, <3>1
    <2>9. sent' \in [Tabs -> Jar] /\ query' \in [Tabs -> Goals]
      BY <2>7, <2>8 DEF SignInInv, TypeOK
    <2>10. asked' \in [Tabs -> Goals]
      BY <1>2, <2>1 DEF SignInInv, TypeOK
    <2>5. at' \in [Tabs -> 0..minted]
      BY <1>2 DEF SignInInv, TypeOK
    <2>6. pc' \in [Tabs -> Handling \cup {"idle", "answered", "provider", "retire"}]
      BY <1>2 DEF SignInInv, TypeOK, Handling
    <2> QED
      BY <1>1, <1>4, <2>2, <2>4, <2>5, <2>6, <2>9, <2>10 DEF SignInInv, TypeOK
  <1>6. Plain.go = "stop" /\ Plain.set = {} /\ Plain.session = Keep
    BY DEF Plain
  <1>7. Placed'
    <2>1. \A u \in Tabs \ {t} : UNCHANGED <<pc[u], query[u], at[u], reply[u]>>
      BY <1>2 DEF SignInInv, TypeOK
    <2>2. \/ pc'[t] = "provider" /\ r.go = "provider" /\ UNCHANGED <<query[t], at[t]>>
          \/ pc'[t] \in {"login", "idle"}
      BY <1>2 DEF SignInInv, TypeOK
    <2>3. reply'[t].go = "stop"
      BY <1>2, <1>6 DEF SignInInv, TypeOK
    <2>4. ASSUME Awaiting(t)' \/ pc'[t] = "callback" \/ Opened(t)'
          PROVE  at'[t] \in 1..minted' /\ goal'[at'[t]] = query'[t]
      <3>1. pc'[t] = "provider" /\ r.go = "provider" /\ UNCHANGED <<query[t], at[t]>>
        BY <2>2, <2>3, <2>4 DEF Awaiting, Opened
      <3>2. at[t] \in 1..minted /\ goal[at[t]] = query[t]
        BY <1>1, <3>1 DEF SignInInv, Placed, Awaiting
      <3> QED
        BY <1>1, <3>1, <3>2
    <2>5. ASSUME NEW u \in Tabs \ {t}
          PROVE  /\ Awaiting(u)' \/ pc'[u] = "callback" \/ Opened(u)' =>
                        at'[u] \in 1..minted' /\ goal'[at'[u]] = query'[u]
                 /\ pc'[u] # "answered" => reply'[u].go = "stop"
      BY <1>1, <2>1 DEF SignInInv, Placed, Awaiting, Opened
    <2> QED
      BY <2>3, <2>4, <2>5 DEF Placed
  <1>8. LandsWhereAsked'
    <2>1. reply'[t].go = "stop" /\ \A u \in Tabs \ {t} : UNCHANGED <<query[u], reply[u]>>
      BY <1>2, <1>6 DEF SignInInv, TypeOK
    <2> QED
      BY <2>1 DEF SignInInv, LandsWhereAsked
  <1>9. \A c \in Browsers : OwnFlows(c)' = OwnFlows(c)
    BY <1>1 DEF OwnFlows
  <1>10. cookies.flows \subseteq OwnFlows(b) /\ cookies.session \in OwnFlows(b) \cup {None}
    BY <1>1, <1>3 DEF SignInInv, OwnCookies
  <1>11. OwnCookies'
    BY <1>1, <1>2, <1>6, <1>9, <1>10 DEF SignInInv, TypeOK, OwnCookies, Opened, EmptyJar
  <1>12. Marker'
    <2>1. \A u \in Tabs : u \in retried' => jar'[BrowserOf[u]].retry
      <3>1. CASE r.retry = "clear"
        BY <1>1, <3>1 DEF RetriedAfter, SignInInv, TypeOK, Marker
      <3>2. CASE r.retry # "clear" /\ r.go = "login"
        <4>1. cookies.retry
          BY <1>3, <3>2 DEF SignInInv, Marker
        <4> QED
          BY <1>1, <3>2, <4>1 DEF RetriedAfter, SignInInv, TypeOK, Marker
      <3>3. CASE r.retry # "clear" /\ r.go # "login"
        <4>1. r.retry \in {"keep", "set"}
          BY <1>1, <3>3 DEF Reply
        <4>2. jar[b].retry => cookies.retry
          BY <1>3, <4>1
        <4>3. retried' = retried
          BY <1>1, <3>3 DEF RetriedAfter
        <4>4. \A u \in Tabs : jar[BrowserOf[u]].retry => jar'[BrowserOf[u]].retry
          BY <1>1, <4>2 DEF SignInInv, TypeOK
        <4> QED
          BY <4>3, <4>4 DEF SignInInv, Marker
      <3> QED
        BY <3>1, <3>2, <3>3
    <2>2. \A u \in Tabs \ {t} : u \in retried' => u \in retried
      BY <1>1 DEF RetriedAfter
    <2>3. \A u \in Tabs \ {t} : UNCHANGED <<pc[u], sent[u], reply[u]>>
      BY <1>2 DEF SignInInv, TypeOK
    <2>4. reply'[t] = Plain /\ pc'[t] \in {"login", "provider", "idle"}
      BY <1>2 DEF SignInInv, TypeOK
    <2> QED
      BY <1>6, <2>1, <2>2, <2>3, <2>4 DEF SignInInv, Marker, Opened
  <1> QED
    BY <1>5, <1>7, <1>8, <1>11, <1>12 DEF SignInInv

\* The faults and the clock take cookies and sessions away, never put one in.
LEMMA FaultStep ==
    ASSUME SignInInv, Restart \/ FlowAges \/ (\E b \in Browsers : FlowCookieExpires(b) \/ MarkerExpires(b))
                      \/ (\E s \in Flows : SessionEnds(s))
    PROVE  SignInInv'
  <1> USE Constants
  <1>1. CASE Restart \/ FlowAges \/ \E s \in Flows : SessionEnds(s)
    <2>1. /\ UNCHANGED <<minted, by, goal, stage, jar, pc, asked, query, at, sent, reply, retried>>
          /\ restarted' \in {restarted, minted} /\ sessions' \subseteq sessions
          /\ aged' \in 0..minted
      BY <1>1 DEF Restart, FlowAges, SessionEnds, server, request, SignInInv, TypeOK
    <2>2. TypeOK'
      BY <2>1 DEF SignInInv, TypeOK
    <2>3. Placed' /\ LandsWhereAsked' /\ OwnCookies' /\ Marker'
      BY <2>1 DEF SignInInv, Placed, LandsWhereAsked, OwnCookies, Marker, Awaiting, Opened, OwnFlows
    <2> QED
      BY <2>2, <2>3 DEF SignInInv
  <1>2. ASSUME NEW b \in Browsers, FlowCookieExpires(b) \/ MarkerExpires(b) PROVE SignInInv'
    <2>1. /\ UNCHANGED <<minted, by, goal, stage, restarted, aged, sessions, pc, asked, query, at, sent, reply>>
      BY <1>2 DEF FlowCookieExpires, MarkerExpires, server, request
    <2>2. \E j \in Jar : /\ jar' = [jar EXCEPT ![b] = j]
                         /\ j.flows \subseteq jar[b].flows /\ j.session = jar[b].session
                         /\ \/ j.retry = jar[b].retry /\ retried' = retried
                            \/ retried' = {t \in retried : BrowserOf[t] # b}
      <3> DEFINE Without(f) == [jar[b] EXCEPT !.flows = jar[b].flows \ {f}]
                 Unset == [jar[b] EXCEPT !.retry = FALSE]
      <3>1. jar[b] \in Jar
        BY DEF SignInInv, TypeOK
      <3>2. ASSUME NEW f \in jar[b].flows, jar' = [jar EXCEPT ![b].flows = @ \ {f}]
            PROVE  /\ Without(f) \in Jar /\ jar' = [jar EXCEPT ![b] = Without(f)]
                   /\ Without(f).flows \subseteq jar[b].flows
                   /\ Without(f).session = jar[b].session /\ Without(f).retry = jar[b].retry
        BY <3>1, <3>2 DEF Jar
      <3>3. CASE FlowCookieExpires(b)
        BY <3>2, <3>3 DEF FlowCookieExpires
      <3>4. CASE MarkerExpires(b)
        <4>1. /\ Unset \in Jar /\ Unset.flows = jar[b].flows /\ Unset.session = jar[b].session
          BY <3>1 DEF Jar
        <4>2. /\ jar' = [jar EXCEPT ![b] = Unset]
              /\ retried' = {t \in retried : BrowserOf[t] # b}
          BY <3>4 DEF MarkerExpires
        <4> QED
          BY <4>1, <4>2
      <3> QED
        BY <1>2, <3>3, <3>4
    <2>3. /\ jar' \in [Browsers -> Jar] /\ retried' \subseteq retried
          /\ \A c \in Browsers : /\ jar'[c].flows \subseteq jar[c].flows
                                 /\ jar'[c].session = jar[c].session
          /\ \A t \in retried' : t \in Tabs => jar'[BrowserOf[t]].retry = jar[BrowserOf[t]].retry
      BY <2>2 DEF SignInInv, TypeOK
    <2>4. TypeOK'
      BY <2>1, <2>3 DEF SignInInv, TypeOK
    <2>5. Placed' /\ LandsWhereAsked'
      BY <2>1 DEF SignInInv, Placed, LandsWhereAsked, Awaiting, Opened
    <2>6. OwnCookies'
      <3>1. \A c \in Browsers : OwnFlows(c)' = OwnFlows(c)
        BY <2>1 DEF OwnFlows
      <3>2. \A c \in Browsers : jar'[c].flows \subseteq OwnFlows(c)' /\ jar'[c].session \in OwnFlows(c)' \cup {None}
        BY <2>3, <3>1 DEF SignInInv, OwnCookies
      <3>3. \A u \in Tabs : /\ OwnFlows(BrowserOf[u])' = OwnFlows(BrowserOf[u])
                            /\ UNCHANGED <<sent[u], reply[u], at[u], pc[u]>>
        BY <2>1 DEF OwnFlows
      <3> QED
        BY <3>2, <3>3 DEF SignInInv, OwnCookies, Opened
    <2>7. Marker'
      BY <2>1, <2>3 DEF SignInInv, TypeOK, Marker, Opened
    <2> QED
      BY <2>4, <2>5, <2>6, <2>7 DEF SignInInv
  <1> QED
    BY <1>1, <1>2

\* A flow moves from stage to stage and to nothing else.
LEMMA StageStep ==
    ASSUME SignInInv, NEW t \in Tabs, NEW step \in {"begun", "issued", "opened", "spent"},
           at[t] \in Flows, Reaches(t, step)
    PROVE  stage' \in [Flows -> {"begun", "issued", "opened", "spent"}]
  <1>1. stage \in [Flows -> {"begun", "issued", "opened", "spent"}]
    BY DEF SignInInv, TypeOK
  <1> QED
    BY <1>1 DEF Reaches

LEMMA HandlerStep ==
    ASSUME SignInInv, NEW t \in Tabs, Handler(t)
    PROVE  SignInInv'
  <1> USE Constants DEF server, request
  <1>1. CASE LoginUnavailable(t)
    <2>1. Plain.go = "stop" /\ Plain.set = {} /\ Plain.session = Keep
      BY DEF Plain
    <2> QED
      BY <1>1, <2>1, RespondStep DEF LoginUnavailable, SignInInv, TypeOK
  <1>2. CASE Login(t)
    BY <1>2, LoginStep
  <1>3. ASSUME pc[t] = "callback" \/ Opened(t), NEW opened \in BOOLEAN
        PROVE  LET r == RestartOrRefuse(t, opened) IN
               /\ r \in Reply /\ r.go \in {"login", "stop"} /\ r.set = {} /\ r.session = Keep
               /\ r.go = "login" => t \notin retried /\ r.retry = "set"
    <2>1. at[t] \in Flows
      BY <1>3 DEF SignInInv, TypeOK, Placed
    <2>2. RestartOrRefuse(t, opened) \in Reply
      BY <2>1, Answers DEF SignInInv
    <2>3. t \in retried => sent[t].retry
      BY <1>3 DEF SignInInv, Marker
    <2> QED
      BY <2>2, <2>3 DEF RestartOrRefuse, Marked, Plain
  <1>4. CASE FlowUnknown(t)
    BY <1>3, <1>4, RespondStep DEF FlowUnknown, SignInInv, TypeOK
  <1>5. CASE OpenFlow(t)
    <2>1. at[t] \in OwnFlows(BrowserOf[t])
      BY <1>5 DEF OpenFlow, Opens, SignInInv, OwnCookies
    <2>3. at[t] \in Flows /\ stage \in [Flows -> {"begun", "issued", "opened", "spent"}]
      BY <1>5 DEF OpenFlow, SignInInv, TypeOK, Placed
    <2>4. Reaches(t, "opened") \/ Reaches(t, "spent") \/ UNCHANGED stage
      BY <1>5 DEF OpenFlow
    <2>2. stage' \in [Flows -> {"begun", "issued", "opened", "spent"}]
      BY <2>3, <2>4, StageStep
    <2> QED
      BY <1>5, <2>1, <2>2, HandlerMoves DEF OpenFlow, UntilReplaced, SignInInv, TypeOK
  <1>6. CASE Exchange(t)
    <2>1. at[t] \in OwnFlows(BrowserOf[t]) /\ Opened(t)
      BY <1>6 DEF Exchange, Opened, SignInInv, OwnCookies
    <2>3. at[t] \in Flows /\ stage \in [Flows -> {"begun", "issued", "opened", "spent"}]
      BY <2>1 DEF SignInInv, TypeOK, Placed, Opened
    <2>4. Reaches(t, "opened") \/ Reaches(t, "spent") \/ UNCHANGED stage
      BY <1>6 DEF Exchange
    <2>2. stage' \in [Flows -> {"begun", "issued", "opened", "spent"}]
      BY <2>3, <2>4, StageStep
    <2> QED
      BY <1>6, <2>1, <2>2, HandlerMoves DEF Exchange, SignInInv, TypeOK
  <1>7. CASE CallbackFails(t)
    <2>1. Opened(t)
      BY <1>7 DEF CallbackFails, Opened
    <2>3. at[t] \in Flows /\ stage \in [Flows -> {"begun", "issued", "opened", "spent"}]
      BY <2>1 DEF SignInInv, TypeOK, Placed, Opened
    <2>4. Reaches(t, "opened") \/ Reaches(t, "spent") \/ UNCHANGED stage
      BY <1>7 DEF CallbackFails
    <2>2. stage' \in [Flows -> {"begun", "issued", "opened", "spent"}]
      BY <2>3, <2>4, StageStep
    <2> QED
      BY <1>3, <1>7, <2>1, <2>2, RespondStep DEF CallbackFails, SignInInv, TypeOK
  <1>8. CASE CallbackRefused(t)
    <2> DEFINE r == [Plain EXCEPT !.clear = {at[t]}]
    <2>1. Opened(t) /\ at[t] \in Flows
      BY <1>8 DEF CallbackRefused, Opened, SignInInv, TypeOK, Placed
    <2>2. r \in Reply /\ r.go = "stop" /\ r.set = {} /\ r.session = Keep
      BY <2>1, Answers DEF Plain, SignInInv
    <2> QED
      BY <1>8, <2>2, RespondStep DEF CallbackRefused, SignInInv, TypeOK
  <1>9. CASE Insert(t)
    <2>1. at[t] \in OwnFlows(BrowserOf[t]) /\ Opened(t)
      BY <1>9 DEF Insert, Opened, SignInInv, OwnCookies
    <2>2. sessions' \subseteq 1..minted
      BY <1>9, <2>1 DEF Insert, OwnFlows, SignInInv, TypeOK
    <2> QED
      BY <1>9, <2>1, <2>2, HandlerMoves DEF Insert, SignInInv, TypeOK
  <1>10. CASE Retire(t)
    <2> DEFINE r == SignedInReply(t)
    <2>1. Opened(t)
      BY <1>10 DEF Retire, Opened
    <2>2. at[t] \in OwnFlows(BrowserOf[t]) /\ at[t] \in Flows /\ goal[at[t]] = query[t]
      BY <2>1 DEF SignInInv, TypeOK, Placed, OwnCookies
    <2>3. r \in Reply /\ r.go = "page" /\ r.goal = query[t] /\ r.set = {} /\ r.session = at[t]
      BY <2>2, Answers DEF SignedInReply, LandsAt, Plain, SignInInv
    <2> QED
      BY <1>10, <2>2, <2>3, RespondStep DEF Retire, SignInInv, TypeOK
  <1>11. CASE Logout(t)
    <2> DEFINE r == [Plain EXCEPT !.session = None]
    <2>1. r \in Reply /\ r.go = "stop" /\ r.set = {} /\ r.session = None
      BY DEF Plain, Reply
    <2> QED
      BY <1>11, <2>1, RespondStep DEF Logout, SignInInv, TypeOK
  <1> QED
    BY <1>1, <1>2, <1>4, <1>5, <1>6, <1>7, <1>8, <1>9, <1>10, <1>11 DEF Handler

LEMMA UserStep ==
    ASSUME SignInInv, NEW t \in Tabs,
           Ask(t) \/ SignsIn(t) \/ SignOut(t) \/ \E f \in Flows : OpensAgain(t, f)
    PROVE  SignInInv'
  <1> USE Constants DEF server, request
  <1>1. CASE Ask(t)
    <2>1. /\ asked' \in [Tabs -> Goals] /\ query' \in [Tabs -> Goals]
          /\ \A u \in Tabs \ {t} : query'[u] = query[u]
      BY <1>1 DEF Ask, SignInInv, TypeOK
    <2> QED
      BY <1>1, <2>1, RequestStep DEF Ask, SignInInv, TypeOK
  <1>2. CASE SignsIn(t)
    <2>1. stage' \in [Flows -> {"begun", "issued", "opened", "spent"}]
      BY <1>2 DEF SignsIn, Reaches, SignInInv, TypeOK
    <2>2. at[t] \in 1..minted /\ goal[at[t]] = query[t]
      BY <1>2 DEF SignsIn, SignInInv, Placed, Awaiting
    <2> QED
      BY <1>2, <2>1, <2>2, RequestStep DEF SignsIn, SignInInv, TypeOK
  <1>3. CASE SignOut(t)
    BY <1>3, RequestStep DEF SignOut, SignInInv, TypeOK
  <1>4. ASSUME NEW f \in Flows, OpensAgain(t, f) PROVE SignInInv'
    <2>1. /\ asked' \in [Tabs -> Goals] /\ query' \in [Tabs -> Goals] /\ at' \in [Tabs -> 0..minted]
          /\ \A u \in Tabs \ {t} : query'[u] = query[u] /\ at'[u] = at[u]
          /\ at'[t] \in 1..minted /\ goal[at'[t]] = query'[t]
      BY <1>4 DEF OpensAgain, SignInInv, TypeOK
    <2> QED
      BY <1>4, <2>1, RequestStep DEF OpensAgain, SignInInv, TypeOK
  <1> QED
    BY <1>1, <1>2, <1>3, <1>4

LEMMA StepInv == SignInInv /\ [Next]_vars => SignInInv'
  <1> SUFFICES ASSUME SignInInv, [Next]_vars PROVE SignInInv'
    OBVIOUS
  <1>1. ASSUME NEW t \in Tabs, Handler(t) PROVE SignInInv'
    BY <1>1, HandlerStep
  <1>2. ASSUME NEW t \in Tabs, Ask(t) \/ SignsIn(t) \/ SignOut(t) \/ \E f \in Flows : OpensAgain(t, f)
        PROVE  SignInInv'
    BY <1>2, UserStep
  <1>3. ASSUME NEW t \in Tabs, GivesUp(t) \/ Close(t) PROVE SignInInv'
    BY <1>3, RestsStep DEF GivesUp, Close
  <1>4. ASSUME NEW t \in Tabs, Deliver(t) PROVE SignInInv'
    BY <1>4, DeliverStep
  <1>5. CASE Restart \/ FlowAges \/ (\E b \in Browsers : FlowCookieExpires(b) \/ MarkerExpires(b))
             \/ (\E s \in Flows : SessionEnds(s))
    BY <1>5, FaultStep
  <1>6. CASE UNCHANGED vars
    <2>1. /\ UNCHANGED <<minted, by, goal, stage, restarted, aged, sessions, jar>>
          /\ UNCHANGED <<pc, asked, query, at, sent, reply, retried>>
      BY <1>6 DEF vars, server, request
    <2> QED
      BY <2>1 DEF SignInInv, TypeOK, Placed, LandsWhereAsked, OwnCookies, Marker, Awaiting, Opened, OwnFlows
  <1> QED
    BY <1>1, <1>2, <1>3, <1>4, <1>5, <1>6 DEF Next

\* The variables have their types, and what binds tabs, cookies and flows holds.
THEOREM SignInHolds == Spec => []SignInInv
  <1> QED
    BY InitInv, StepInv, PTL DEF Spec

\* A session is held only by the browser that began its sign-in (callback opens the
\* flow with a cookie of the same request).
THEOREM StarterOnly == Spec => []OnlyStarter
  <1>1. SignInInv => OnlyStarter
    BY DEF SignInInv, OwnCookies, OnlyStarter, OwnFlows
  <1> QED
    BY <1>1, SignInHolds, PTL

\* A sign-in lands where its tab's login URL said.
THEOREM LandsRight == Spec => []LandsWhereAsked
  <1>1. SignInInv => LandsWhereAsked
    BY DEF SignInInv
  <1> QED
    BY <1>1, SignInHolds, PTL

\* A tab is sent round again once for each marker (restart_or_refuse).
THEOREM RoundOnce == Spec => RetriedOnce
  <1>1. ASSUME SignInInv, [Next]_vars, NEW t \in Tabs, pc[t] = "answered", pc'[t] = "login"
        PROVE  t \notin retried
    <2>1. pc \in [Tabs -> Handling \cup {"idle", "answered", "provider", "retire"}]
      BY <1>1 DEF SignInInv, TypeOK
    <2>2. ASSUME NEW u \in Tabs, Handler(u) PROVE pc'[t] = pc[t] \/ (u = t /\ pc[t] # "answered")
      BY <2>1, <2>2 DEF Handler, LoginUnavailable, Login, FlowUnknown, OpenFlow, Exchange, CallbackFails,
                        CallbackRefused, Insert, Retire, Logout, Respond, Goto
    <2>3. ASSUME NEW u \in Tabs,
                 Ask(u) \/ SignsIn(u) \/ SignOut(u) \/ \E f \in Flows : OpensAgain(u, f)
          PROVE  pc'[t] = pc[t] \/ (u = t /\ pc[t] # "answered")
      BY <2>1, <2>3 DEF Ask, SignsIn, SignOut, OpensAgain, Request, Goto
    <2>4. ASSUME NEW u \in Tabs, GivesUp(u) \/ Close(u) PROVE pc'[t] \in {pc[t], "idle"}
      BY <2>1, <2>4 DEF GivesUp, Close, Rests, Goto
    <2>5. ASSUME NEW u \in Tabs, u # t, Deliver(u) PROVE pc'[t] = pc[t]
      BY <2>1, <2>5 DEF Deliver, Request, Rests, Goto
    <2>6. CASE \/ Restart \/ FlowAges \/ UNCHANGED vars
               \/ \E b \in Browsers : FlowCookieExpires(b) \/ MarkerExpires(b)
               \/ \E s \in Flows : SessionEnds(s)
      BY <1>1, <2>6 DEF Restart, FlowAges, vars, FlowCookieExpires, MarkerExpires, SessionEnds
    <2>7. CASE Deliver(t)
      <3>1. reply[t].go = "login"
        BY <1>1, <2>1, <2>7 DEF Deliver, Rests, Goto
      <3> QED
        BY <1>1, <3>1 DEF SignInInv, Marker
    <2> QED
      BY <1>1, <2>2, <2>3, <2>4, <2>5, <2>6, <2>7 DEF Next
  <1>2. SignInInv /\ [Next]_vars =>
          [\A t \in Tabs : pc[t] = "answered" /\ pc'[t] = "login" => t \notin retried]_vars
    BY <1>1
  <1> QED
    BY <1>2, SignInHolds, PTL DEF Spec, RetriedOnce

-----------------------------------------------------------------------------
\* What keeps a failed sign-in from costing a session: a code is spent once, so the
\* session that a callback is about to hand out is nobody's to lose yet.

HeldSomewhere(f) ==
    \/ \E b \in Browsers : jar[b].session = f
    \/ \E t \in Tabs : sent[t].session = f \/ reply[t].session = f

Codes ==
    /\ \A f \in Flows : f > minted => stage[f] = "begun"
    /\ \A t \in Tabs : Awaiting(t) => stage[at[t]] = "begun"
    /\ \A t \in Tabs : pc[t] = "callback" \/ Opened(t) => stage[at[t]] # "begun"
    /\ \A t \in Tabs : Finishing(t) => stage[at[t]] = "spent"

Apart ==
    /\ \A t, u \in Tabs : t # u /\ Awaiting(t) /\ Awaiting(u) => at[t] # at[u]
    /\ \A t, u \in Tabs : t # u /\ Finishing(t) /\ Finishing(u) => at[t] # at[u]

Unclaimed ==
    /\ \A f \in Flows : HeldSomewhere(f) => stage[f] = "spent"
    /\ \A t \in Tabs : Finishing(t) => ~HeldSomewhere(at[t])
    /\ \A t \in Tabs : pc[t] = "retire" => at[t] \in sessions

KeepInv == SignInInv /\ Codes /\ Apart /\ Unclaimed

LEMMA KeepInit == Init => KeepInv
  <1> SUFFICES ASSUME Init PROVE Codes /\ Apart /\ Unclaimed
    BY InitInv DEF KeepInv
  <1> USE Constants
  <1>1. \A f \in Flows : ~HeldSomewhere(f)
    BY DEF Init, HeldSomewhere, EmptyJar, Plain
  <1> QED
    BY <1>1 DEF Init, Codes, Apart, Unclaimed, Awaiting, Opened, Finishing

\* A step of one tab that starts no sign-in, spends no code and hands nothing out.
LEMMA Harmless ==
    ASSUME KeepInv, NEW t \in Tabs, minted' = minted,
           \A u \in Tabs \ {t} : UNCHANGED <<pc[u], at[u], reply[u]>>,
           \A f \in Flows : HeldSomewhere(f)' => HeldSomewhere(f),
           \A f \in Flows : \/ stage'[f] = stage[f]
                            \/ f = at[t] /\ stage[f] # "begun" /\ stage'[f] # "begun"
                               /\ (stage[f] = "spent" => stage'[f] = "spent"),
           \A u \in Tabs \ {t} : pc[u] = "retire" => at[u] \in sessions',
           Awaiting(t)' => Awaiting(t) /\ at'[t] = at[t],
           ~Finishing(t)',
           pc'[t] = "callback" \/ Opened(t)' => at'[t] \in Flows /\ stage'[at'[t]] # "begun"
    PROVE  Codes' /\ Apart' /\ Unclaimed'
  <1> USE Constants
  <1>1. \A u \in Tabs : Awaiting(u) \/ pc[u] = "callback" \/ Opened(u) => at[u] \in Flows
    BY DEF KeepInv, SignInInv, TypeOK, Placed
  <1>2. \A u \in Tabs \ {t} : /\ Awaiting(u)' <=> Awaiting(u)
                              /\ Opened(u)' <=> Opened(u)
                              /\ Finishing(u)' <=> Finishing(u)
                              /\ Finishing(u) => Opened(u)
                              /\ at'[u] = at[u]
    BY DEF Awaiting, Opened, Finishing
  <1>3. \A f \in Flows : (stage[f] = "begun" <=> stage'[f] = "begun") /\ (stage[f] = "spent" => stage'[f] = "spent")
    OBVIOUS
  <1>4. Codes'
    BY <1>1, <1>2, <1>3 DEF KeepInv, Codes, Finishing, Opened
  <1>5. Apart'
    <2>1. \A u \in Tabs : Awaiting(u)' => Awaiting(u) /\ at'[u] = at[u]
      BY <1>2
    <2>2. \A u \in Tabs : Finishing(u)' => Finishing(u) /\ at'[u] = at[u]
      BY <1>2
    <2> QED
      BY <2>1, <2>2 DEF KeepInv, Apart
  <1>6. Unclaimed'
    <2>1. \A f \in Flows : HeldSomewhere(f)' => stage'[f] = "spent"
      BY <1>3 DEF KeepInv, Unclaimed
    <2>2. ASSUME NEW u \in Tabs, Finishing(u)' PROVE ~HeldSomewhere(at[u])'
      <3>1. /\ u # t /\ Finishing(u) /\ at[u] \in Flows /\ at'[u] = at[u]
        BY <1>1, <1>2, <2>2
      <3>2. PICK f \in Flows : f = at[u]
        BY <3>1
      <3>3. ~HeldSomewhere(f)
        BY <3>1, <3>2 DEF KeepInv, Unclaimed
      <3>4. ~HeldSomewhere(f)'
        BY <3>3
      <3> QED
        BY <3>1, <3>2, <3>4 DEF HeldSomewhere
    <2>3. ASSUME NEW u \in Tabs, pc'[u] = "retire" PROVE at'[u] \in sessions'
      BY <2>3 DEF KeepInv, Unclaimed, Finishing
    <2> QED
      BY <2>1, <2>2, <2>3 DEF Unclaimed
  <1> QED
    BY <1>4, <1>5, <1>6

\* Where an answer arrives or is lost, what is held was held before.
LEMMA HeldBefore ==
    ASSUME NEW t \in Tabs,
           \A b \in Browsers : jar'[b].session \in {jar[b].session, reply[t].session},
           \A u \in Tabs : /\ \/ sent'[u].session \in {sent[u].session, None}
                              \/ \E b \in Browsers : sent'[u].session = jar'[b].session
                           /\ reply'[u].session \in {reply[u].session, None, Keep},
           NEW f \in Flows, HeldSomewhere(f)'
    PROVE  HeldSomewhere(f)
  <1>1. f # None /\ f # Keep
    BY Constants
  <1>2. ASSUME NEW b \in Browsers, jar'[b].session = f PROVE HeldSomewhere(f)
    BY <1>2 DEF HeldSomewhere
  <1>3. ASSUME NEW u \in Tabs, sent'[u].session = f PROVE HeldSomewhere(f)
    BY <1>1, <1>2, <1>3 DEF HeldSomewhere
  <1>4. ASSUME NEW u \in Tabs, reply'[u].session = f PROVE HeldSomewhere(f)
    BY <1>1, <1>4 DEF HeldSomewhere
  <1> QED
    BY <1>2, <1>3, <1>4 DEF HeldSomewhere

\* An answer without a new session.
LEMMA RespondKeeps ==
    ASSUME KeepInv, NEW t \in Tabs, NEW r, Respond(t, r), r.session \in {None, Keep},
           r.go # "provider", UNCHANGED <<minted, jar, at>>,
           \A f \in Flows : stage'[f] = stage[f] \/ (f = at[t] /\ stage[f] # "begun" /\ stage'[f] = "spent"),
           sessions' = sessions \/ sessions' = sessions \ {sent[t].session}
    PROVE  Codes' /\ Apart' /\ Unclaimed'
  <1> USE Constants
  <1>1. /\ reply' = [reply EXCEPT ![t] = r] /\ sent' = [sent EXCEPT ![t] = EmptyJar]
        /\ pc' = [pc EXCEPT ![t] = "answered"]
    BY DEF Respond, Goto
  <1>2. \A f \in Flows : HeldSomewhere(f)' => HeldSomewhere(f)
    BY <1>1 DEF HeldSomewhere, EmptyJar, KeepInv, SignInInv, TypeOK
  <1>3. \A u \in Tabs \ {t} : UNCHANGED <<pc[u], at[u], reply[u]>>
    BY <1>1 DEF KeepInv, SignInInv, TypeOK
  <1>4. \A u \in Tabs \ {t} : pc[u] = "retire" => at[u] \in sessions'
    <2>1. ASSUME NEW u \in Tabs, pc[u] = "retire" PROVE at[u] # sent[t].session
      BY <2>1 DEF KeepInv, Unclaimed, Finishing, HeldSomewhere
    <2> QED
      BY <2>1 DEF KeepInv, Unclaimed
  <1>5. ~Awaiting(t)' /\ ~Finishing(t)' /\ ~Opened(t)' /\ pc'[t] # "callback"
    BY <1>1 DEF Awaiting, Finishing, Opened, KeepInv, SignInInv, TypeOK
  <1> QED
    BY <1>2, <1>3, <1>4, <1>5, Harmless

\* A request carries only what its browser holds.
LEMMA RequestKeeps ==
    ASSUME KeepInv, NEW t \in Tabs, NEW step \in {"login", "callback", "logout"},
           Request(t, step, jar[BrowserOf[t]]),
           UNCHANGED <<minted, stage, sessions, jar, reply>>,
           \A u \in Tabs \ {t} : at'[u] = at[u],
           step = "callback" => at'[t] \in Flows /\ stage[at'[t]] # "begun"
    PROVE  Codes' /\ Apart' /\ Unclaimed'
  <1> USE Constants
  <1>1. sent' = [sent EXCEPT ![t] = jar[BrowserOf[t]]] /\ pc' = [pc EXCEPT ![t] = step]
    BY DEF Request, Goto
  <1>2. \A f \in Flows : HeldSomewhere(f)' => HeldSomewhere(f)
    BY <1>1 DEF HeldSomewhere, KeepInv, SignInInv, TypeOK
  <1>3. \A u \in Tabs \ {t} : UNCHANGED <<pc[u], at[u], reply[u]>>
    BY <1>1 DEF KeepInv, SignInInv, TypeOK
  <1>4. ~Awaiting(t)' /\ ~Finishing(t)' /\ ~Opened(t)'
    BY <1>1 DEF Awaiting, Finishing, Opened, KeepInv, SignInInv, TypeOK
  <1>5. pc'[t] = "callback" => step = "callback"
    BY <1>1 DEF KeepInv, SignInInv, TypeOK
  <1>6. \A u \in Tabs \ {t} : pc[u] = "retire" => at[u] \in sessions'
    BY DEF KeepInv, Unclaimed
  <1> QED
    BY <1>2, <1>3, <1>4, <1>5, <1>6, Harmless

LEMMA RestsKeeps ==
    ASSUME KeepInv, NEW t \in Tabs, Rests(t), UNCHANGED <<minted, stage, sessions>>,
           \A b \in Browsers : jar'[b].session = jar[b].session \/ jar'[b].session = reply[t].session
    PROVE  Codes' /\ Apart' /\ Unclaimed'
  <1> USE Constants
  <1>1. /\ pc' = [pc EXCEPT ![t] = "idle"] /\ at' = [at EXCEPT ![t] = 0]
        /\ sent' = [sent EXCEPT ![t] = EmptyJar] /\ reply' = [reply EXCEPT ![t] = Plain]
    BY DEF Rests, Goto
  <1>2. \A f \in Flows : HeldSomewhere(f)' => HeldSomewhere(f)
    <2>1. \A u \in Tabs : /\ sent'[u].session \in {sent[u].session, None}
                          /\ reply'[u].session \in {reply[u].session, Keep}
      BY <1>1 DEF EmptyJar, Plain, KeepInv, SignInInv, TypeOK
    <2> QED
      BY <2>1, HeldBefore
  <1>3. \A u \in Tabs \ {t} : UNCHANGED <<pc[u], at[u], reply[u]>>
    BY <1>1 DEF KeepInv, SignInInv, TypeOK
  <1>4. ~Awaiting(t)' /\ ~Finishing(t)' /\ ~Opened(t)' /\ pc'[t] # "callback"
    BY <1>1 DEF Awaiting, Finishing, Opened, KeepInv, SignInInv, TypeOK
  <1>5. \A u \in Tabs \ {t} : pc[u] = "retire" => at[u] \in sessions'
    BY DEF KeepInv, Unclaimed
  <1> QED
    BY <1>2, <1>3, <1>4, <1>5, Harmless

LEMMA DeliverKeeps ==
    ASSUME KeepInv, NEW t \in Tabs, Deliver(t)
    PROVE  Codes' /\ Apart' /\ Unclaimed'
  <1> DEFINE b == BrowserOf[t]
             cookies == After(jar[b], reply[t])
  <1> USE Constants
  <1>1. /\ pc[t] = "answered" /\ jar' = [jar EXCEPT ![b] = cookies]
        /\ UNCHANGED <<minted, stage, sessions>>
    BY DEF Deliver, server
  <1>2. cookies.session \in {jar[b].session, reply[t].session}
    BY DEF After
  <1>3. \A c \in Browsers : jar'[c].session = jar[c].session \/ jar'[c].session = reply[t].session
    BY <1>1, <1>2 DEF KeepInv, SignInInv, TypeOK
  <1>4. CASE Rests(t)
    BY <1>1, <1>3, <1>4, RestsKeeps
  <1>5. CASE \/ /\ reply[t].go = "login" /\ sent' = [sent EXCEPT ![t] = cookies]
                /\ pc' = [pc EXCEPT ![t] = "login"]
             \/ /\ reply[t].go = "provider" /\ pc' = [pc EXCEPT ![t] = "provider"] /\ sent' = sent
    <2>1. reply' = [reply EXCEPT ![t] = Plain] /\ at' = at
      BY <1>5 DEF Deliver, Rests, Goto, request
    <2>2. \A f \in Flows : HeldSomewhere(f)' => HeldSomewhere(f)
      <3>1. b \in Browsers /\ jar'[b] = cookies
        BY <1>1 DEF KeepInv, SignInInv, TypeOK
      <3>2. \A u \in Tabs : /\ sent'[u] = sent[u] \/ sent'[u] = jar'[b]
                            /\ reply'[u].session \in {reply[u].session, Keep}
        BY <1>5, <2>1, <3>1 DEF Plain, KeepInv, SignInInv, TypeOK
      <3> QED
        BY <1>3, <3>1, <3>2, HeldBefore
    <2>3. \A u \in Tabs \ {t} : UNCHANGED <<pc[u], at[u], reply[u]>>
      BY <1>5, <2>1 DEF KeepInv, SignInInv, TypeOK
    <2>4. pc'[t] = "login" \/ (pc'[t] = "provider" /\ Awaiting(t))
      BY <1>1, <1>5 DEF Awaiting, KeepInv, SignInInv, TypeOK
    <2>5. /\ Awaiting(t)' => Awaiting(t) /\ at'[t] = at[t]
          /\ ~Finishing(t)' /\ ~Opened(t)' /\ pc'[t] # "callback"
      BY <2>1, <2>4 DEF Awaiting, Finishing, Opened
    <2>6. \A u \in Tabs \ {t} : pc[u] = "retire" => at[u] \in sessions'
      BY <1>1 DEF KeepInv, Unclaimed
    <2> QED
      BY <1>1, <2>2, <2>3, <2>5, <2>6, Harmless
  <1> QED
    BY <1>4, <1>5 DEF Deliver, Request, Goto, request

\* A new flow has no code yet.
LEMMA LoginKeeps ==
    ASSUME KeepInv, NEW t \in Tabs, Login(t)
    PROVE  Codes' /\ Apart' /\ Unclaimed'
  <1> DEFINE f == minted + 1
             r == [Plain EXCEPT !.clear = Pruned(t), !.set = {f}, !.go = "provider"]
  <1> USE Constants
  <1>1. /\ pc[t] = "login" /\ f \in Flows /\ minted' = f /\ minted \in Nat
        /\ at' = [at EXCEPT ![t] = f] /\ reply' = [reply EXCEPT ![t] = r]
        /\ sent' = [sent EXCEPT ![t] = EmptyJar] /\ pc' = [pc EXCEPT ![t] = "answered"]
        /\ UNCHANGED <<stage, sessions, jar>>
    BY DEF Login, Respond, Goto, KeepInv, SignInInv, TypeOK
  <1>2. r.session = Keep
    BY DEF Plain
  <1>3. \A g \in Flows : HeldSomewhere(g)' => HeldSomewhere(g)
    <2>1. \A u \in Tabs : /\ sent'[u].session \in {sent[u].session, None}
                          /\ reply'[u].session \in {reply[u].session, Keep}
      BY <1>1, <1>2 DEF EmptyJar, KeepInv, SignInInv, TypeOK
    <2> QED
      BY <1>1, <2>1, HeldBefore
  <1>4. /\ at'[t] = f /\ ~Opened(t)' /\ ~Finishing(t)' /\ pc'[t] # "callback" /\ pc'[t] # "retire"
        /\ \A u \in Tabs \ {t} : UNCHANGED <<pc[u], at[u], reply[u]>>
    BY <1>1 DEF Opened, Finishing, KeepInv, SignInInv, TypeOK
  <1>5. \A u \in Tabs \ {t} : /\ Awaiting(u)' => Awaiting(u)
                              /\ Opened(u)' => Opened(u)
                              /\ Finishing(u)' => Finishing(u)
                              /\ Awaiting(u) => at[u] # f
    BY <1>1, <1>4 DEF Awaiting, Opened, Finishing, KeepInv, SignInInv, Placed
  <1>6. stage[f] = "begun"
    BY <1>1 DEF KeepInv, Codes
  <1>7. Codes'
    BY <1>1, <1>4, <1>5, <1>6 DEF KeepInv, Codes
  <1>8. Apart'
    BY <1>4, <1>5 DEF KeepInv, Apart
  <1>9. Unclaimed'
    <2>1. ASSUME NEW u \in Tabs, Finishing(u)' PROVE ~HeldSomewhere(at[u])'
      <3>1. u # t /\ Finishing(u) /\ at[u] \in Flows /\ at'[u] = at[u]
        BY <1>4, <1>5, <2>1 DEF KeepInv, SignInInv, TypeOK, Placed, Finishing, Opened
      <3>2. PICK g \in Flows : g = at[u]
        BY <3>1
      <3>3. ~HeldSomewhere(g)'
        BY <1>3, <3>1, <3>2 DEF KeepInv, Unclaimed
      <3> QED
        BY <3>1, <3>2, <3>3 DEF HeldSomewhere
    <2> QED
      BY <1>1, <1>3, <1>4, <2>1 DEF KeepInv, Unclaimed
  <1> QED
    BY <1>7, <1>8, <1>9

\* A code arrives, and is spent by the one tab that exchanges it.
LEMMA CodeMoves ==
    ASSUME KeepInv, NEW t \in Tabs, SignsIn(t) \/ OpenFlow(t) \/ Exchange(t)
    PROVE  Codes' /\ Apart' /\ Unclaimed'
  <1> DEFINE f == at[t]
  <1> USE Constants DEF request
  <1>1. /\ UNCHANGED <<minted, jar, reply, at>> /\ sessions' = sessions
        /\ sent' = sent \/ sent' = [sent EXCEPT ![t] = jar[BrowserOf[t]]]
    BY DEF SignsIn, OpenFlow, Exchange, Request, UntilReplaced
  <1>2. f \in 1..minted /\ f \in Flows
    BY DEF SignsIn, OpenFlow, Exchange, Opened, Awaiting, KeepInv, SignInInv, TypeOK, Placed
  <1>3. \/ /\ stage[f] = "begun" /\ stage' = [stage EXCEPT ![f] = "issued"] /\ Awaiting(t)
           /\ pc' = [pc EXCEPT ![t] = "callback"]
        \/ /\ stage[f] = "issued" /\ stage' = [stage EXCEPT ![f] = "opened"]
           /\ pc' = [pc EXCEPT ![t] = "exchange"]
        \/ /\ stage[f] # "begun" /\ stage' = stage
           /\ pc' = [pc EXCEPT ![t] = "exchange"]
        \/ /\ stage[f] \notin {"begun", "spent"} /\ stage' = [stage EXCEPT ![f] = "spent"]
           /\ pc' = [pc EXCEPT ![t] = "verify"]
    BY DEF SignsIn, OpenFlow, Exchange, Reaches, Request, Goto, Awaiting, Opened, KeepInv, Codes
  <1>4. \A g \in Flows : HeldSomewhere(g)' => HeldSomewhere(g)
    <2>1. \A u \in Tabs : sent'[u] = sent[u] \/ sent'[u] = jar[BrowserOf[t]]
      BY <1>1 DEF KeepInv, SignInInv, TypeOK
    <2> QED
      BY <1>1, <2>1, HeldBefore
  <1>5. \A g \in Flows : g # f => stage'[g] = stage[g]
    BY <1>3 DEF KeepInv, SignInInv, TypeOK
  <1>6. \A u \in Tabs \ {t} : /\ pc'[u] = pc[u]
                              /\ Awaiting(u)' <=> Awaiting(u)
                              /\ Opened(u)' <=> Opened(u)
                              /\ Finishing(u)' <=> Finishing(u)
    BY <1>1, <1>3 DEF Awaiting, Opened, Finishing, KeepInv, SignInInv, TypeOK
  <1>7. pc'[t] \in {"callback", "exchange", "verify"} /\ ~Awaiting(t)'
    BY <1>3 DEF Awaiting, KeepInv, SignInInv, TypeOK
  <1>8. /\ stage'[f] # "begun" /\ (stage[f] = "spent" => stage'[f] = "spent")
        /\ Finishing(t)' => stage[f] # "spent" /\ stage'[f] = "spent"
        /\ \A u \in Tabs \ {t} : Awaiting(u) => at[u] # f
    <2>1. /\ stage \in [Flows -> {"begun", "issued", "opened", "spent"}]
          /\ pc \in [Tabs -> Handling \cup {"idle", "answered", "provider", "retire"}]
      BY DEF KeepInv, SignInInv, TypeOK
    <2>2. stage'[f] # "begun" /\ (stage[f] = "spent" => stage'[f] = "spent")
      BY <1>2, <1>3, <2>1
    <2>3. Finishing(t)' => stage[f] # "spent" /\ stage'[f] = "spent"
      BY <1>2, <1>3, <2>1 DEF Finishing
    <2>4. ASSUME NEW u \in Tabs \ {t}, Awaiting(u), at[u] = f PROVE FALSE
      <3>1. stage[f] = "begun"
        BY <2>4 DEF KeepInv, Codes
      <3>2. Awaiting(t)
        BY <1>3, <3>1
      <3> QED
        BY <2>4, <3>2 DEF KeepInv, Apart
    <2> QED
      BY <2>2, <2>3, <2>4
  <1>9. \A u \in Tabs : Awaiting(u) \/ pc[u] = "callback" \/ Opened(u) => at[u] \in Flows
    BY DEF KeepInv, SignInInv, TypeOK, Placed
  <1>10. \A u \in Tabs : Finishing(u) => Opened(u) /\ stage[at[u]] = "spent"
    BY DEF KeepInv, Codes, Finishing, Opened
  <1>11. Codes'
    <2>1. \A g \in Flows : g > minted' => stage'[g] = "begun"
      <3>1. \A g \in Flows : g > minted => g # f
        BY <1>2 DEF KeepInv, SignInInv, TypeOK
      <3> QED
        BY <1>1, <1>5, <3>1 DEF KeepInv, Codes
    <2>2. ASSUME NEW u \in Tabs, Awaiting(u)' PROVE stage'[at'[u]] = "begun"
      BY <1>1, <1>5, <1>6, <1>7, <1>8, <1>9, <2>2 DEF KeepInv, Codes
    <2>3. ASSUME NEW u \in Tabs, pc'[u] = "callback" \/ Opened(u)' PROVE stage'[at'[u]] # "begun"
      <3>1. CASE at[u] = f
        BY <1>1, <1>8, <3>1
      <3>2. CASE at[u] # f
        BY <1>1, <1>5, <1>6, <1>9, <2>3, <3>2 DEF KeepInv, Codes
      <3> QED
        BY <3>1, <3>2
    <2>4. ASSUME NEW u \in Tabs, Finishing(u)' PROVE stage'[at'[u]] = "spent"
      <3>1. CASE u = t
        BY <1>1, <1>8, <2>4, <3>1
      <3>2. CASE u # t
        <4>1. Finishing(u) /\ at[u] \in Flows /\ stage[at[u]] = "spent"
          BY <1>6, <1>9, <1>10, <2>4, <3>2
        <4> QED
          BY <1>1, <1>5, <1>8, <4>1
      <3> QED
        BY <3>1, <3>2
    <2> QED
      BY <2>1, <2>2, <2>3, <2>4 DEF Codes
  <1>12. Apart'
    <2>1. ASSUME NEW u \in Tabs, NEW v \in Tabs, u # v, Awaiting(u)', Awaiting(v)' PROVE at'[u] # at'[v]
      BY <1>1, <1>6, <1>7, <2>1 DEF KeepInv, Apart
    <2>2. ASSUME NEW u \in Tabs, NEW v \in Tabs, u # v, Finishing(u)', Finishing(v)' PROVE at'[u] # at'[v]
      <3>1. CASE u # t /\ v # t
        BY <1>1, <1>6, <2>2, <3>1 DEF KeepInv, Apart
      <3>2. CASE u = t
        BY <1>1, <1>6, <1>8, <1>10, <2>2, <3>2
      <3>3. CASE v = t
        BY <1>1, <1>6, <1>8, <1>10, <2>2, <3>3
      <3> QED
        BY <3>1, <3>2, <3>3
    <2> QED
      BY <2>1, <2>2 DEF Apart
  <1>13. Unclaimed'
    <2>1. ASSUME NEW u \in Tabs, Finishing(u)' PROVE ~HeldSomewhere(at[u])'
      <3>1. at[u] \in Flows /\ at'[u] = at[u] /\ (u = t \/ Finishing(u))
        BY <1>1, <1>2, <1>6, <1>9, <1>10, <2>1
      <3>2. PICK g \in Flows : g = at[u]
        BY <3>1
      <3>3. ~HeldSomewhere(g)
        BY <1>8, <2>1, <3>1, <3>2 DEF KeepInv, Unclaimed
      <3> QED
        BY <1>4, <3>1, <3>2, <3>3 DEF HeldSomewhere
    <2>2. \A g \in Flows : HeldSomewhere(g)' => stage'[g] = "spent"
      BY <1>4, <1>5, <1>8 DEF KeepInv, Unclaimed
    <2> QED
      BY <1>1, <1>6, <1>7, <2>1, <2>2 DEF KeepInv, Unclaimed
  <1> QED
    BY <1>11, <1>12, <1>13

\* A session is stored, and handed to one answer, for a code nobody else spent.
LEMMA FinishKeeps ==
    ASSUME KeepInv, NEW t \in Tabs, Insert(t) \/ Retire(t)
    PROVE  Codes' /\ Apart' /\ Unclaimed'
  <1> DEFINE f == at[t]
  <1> USE Constants DEF request
  <1>1. /\ UNCHANGED <<minted, stage, jar, at>> /\ Finishing(t)
    BY DEF Insert, Retire, Finishing, server
  <1>2. f \in Flows /\ stage[f] = "spent" /\ ~HeldSomewhere(f)
    BY <1>1 DEF Finishing, Opened, KeepInv, SignInInv, TypeOK, Placed, Codes, Unclaimed
  <1>3. \A u \in Tabs : Finishing(u) => at[u] \in Flows /\ ~HeldSomewhere(at[u])
    BY DEF Finishing, Opened, KeepInv, SignInInv, TypeOK, Placed, Unclaimed
  <1>4. CASE Insert(t)
    <2>1. /\ pc' = [pc EXCEPT ![t] = "retire"] /\ pc[t] = "verify"
          /\ sessions' = sessions \cup {f} /\ UNCHANGED <<sent, reply>>
      BY <1>4 DEF Insert, Goto
    <2>2. \A u \in Tabs : /\ Awaiting(u)' <=> Awaiting(u)
                          /\ Opened(u)' <=> Opened(u)
                          /\ Finishing(u)' <=> Finishing(u)
                          /\ pc'[u] = "callback" <=> pc[u] = "callback"
                          /\ pc'[u] = "retire" => u = t \/ pc[u] = "retire"
      BY <2>1 DEF Awaiting, Opened, Finishing, KeepInv, SignInInv, TypeOK
    <2>3. \A g : HeldSomewhere(g)' <=> HeldSomewhere(g)
      BY <1>1, <2>1 DEF HeldSomewhere
    <2>4. Codes' /\ Apart'
      BY <1>1, <2>2 DEF KeepInv, Codes, Apart
    <2>5. ASSUME NEW u \in Tabs, Finishing(u)' PROVE ~HeldSomewhere(at[u])'
      BY <1>1, <1>3, <2>1, <2>2, <2>5 DEF HeldSomewhere
    <2> QED
      BY <1>1, <2>1, <2>2, <2>3, <2>4, <2>5 DEF KeepInv, Unclaimed
  <1>5. CASE Retire(t)
    <2> DEFINE r == SignedInReply(t)
    <2>1. /\ pc' = [pc EXCEPT ![t] = "answered"] /\ sessions' = sessions \ {sent[t].session}
          /\ sent' = [sent EXCEPT ![t] = EmptyJar] /\ reply' = [reply EXCEPT ![t] = r]
          /\ r.session = f /\ r.go = "page"
      BY <1>5 DEF Retire, Retired, Respond, Goto, SignedInReply, Plain
    <2>2. \A u \in Tabs \ {t} : /\ pc'[u] = pc[u] /\ reply'[u] = reply[u]
                                /\ Awaiting(u)' <=> Awaiting(u)
                                /\ Opened(u)' <=> Opened(u)
                                /\ Finishing(u)' <=> Finishing(u)
      BY <2>1 DEF Awaiting, Opened, Finishing, KeepInv, SignInInv, TypeOK
    <2>3. /\ pc'[t] = "answered" /\ reply'[t] = r
          /\ ~Awaiting(t)' /\ ~Opened(t)' /\ ~Finishing(t)'
      BY <2>1 DEF Awaiting, Opened, Finishing, KeepInv, SignInInv, TypeOK
    <2>4. \A g \in Flows : HeldSomewhere(g)' => HeldSomewhere(g) \/ g = f
      <3>1. \A u \in Tabs : sent'[u].session \in {sent[u].session, None}
        BY <2>1 DEF EmptyJar, KeepInv, SignInInv, TypeOK
      <3> QED
        BY <1>1, <2>1, <2>2, <2>3, <3>1 DEF HeldSomewhere
    <2>5. Codes' /\ Apart'
      BY <1>1, <2>2, <2>3 DEF KeepInv, Codes, Apart
    <2>6. ASSUME NEW u \in Tabs, Finishing(u)' PROVE ~HeldSomewhere(at[u])'
      <3>1. u # t /\ Finishing(u) /\ at[u] # f /\ at'[u] = at[u]
        BY <1>1, <2>2, <2>3, <2>6 DEF KeepInv, Apart
      <3>2. PICK g \in Flows : g = at[u]
        BY <1>3, <3>1
      <3>3. ~HeldSomewhere(g)'
        BY <1>3, <2>4, <3>1, <3>2
      <3> QED
        BY <3>1, <3>2, <3>3 DEF HeldSomewhere
    <2>7. ASSUME NEW u \in Tabs, pc'[u] = "retire" PROVE at'[u] \in sessions'
      <3>1. u # t /\ pc[u] = "retire" /\ at[u] \in sessions
        BY <2>2, <2>3, <2>7 DEF KeepInv, Unclaimed
      <3>2. sent[t].session # at[u]
        BY <1>3, <3>1 DEF Finishing, HeldSomewhere
      <3> QED
        BY <1>1, <2>1, <3>1, <3>2
    <2>8. \A g \in Flows : HeldSomewhere(g)' => stage'[g] = "spent"
      BY <1>1, <1>2, <2>4 DEF KeepInv, Unclaimed
    <2> QED
      BY <2>5, <2>6, <2>7, <2>8 DEF Unclaimed
  <1> QED
    BY <1>4, <1>5

LEMMA FaultKeeps ==
    ASSUME KeepInv, \/ Restart \/ FlowAges \/ UNCHANGED vars
                    \/ \E b \in Browsers : FlowCookieExpires(b) \/ MarkerExpires(b)
                    \/ \E s \in Flows : SessionEnds(s)
    PROVE  Codes' /\ Apart' /\ Unclaimed'
  <1> USE Constants
  <1>1. /\ UNCHANGED <<minted, stage, pc, at, reply, sent>>
        /\ \A b \in Browsers : jar'[b].session = jar[b].session
    <2>1. CASE Restart \/ FlowAges \/ UNCHANGED vars \/ \E s \in Flows : SessionEnds(s)
      BY <2>1 DEF Restart, FlowAges, SessionEnds, server, request, vars
    <2>2. ASSUME NEW b \in Browsers, FlowCookieExpires(b) \/ MarkerExpires(b)
          PROVE  /\ UNCHANGED <<minted, stage, pc, at, reply, sent>>
                 /\ \A c \in Browsers : jar'[c].session = jar[c].session
      <3>1. jar \in [Browsers -> Jar] /\ jar[b] \in Jar
        BY DEF KeepInv, SignInInv, TypeOK
      <3>2. UNCHANGED <<minted, stage, pc, at, reply, sent>>
        BY <2>2 DEF FlowCookieExpires, MarkerExpires, server, request
      <3>3. CASE FlowCookieExpires(b)
        <4>1. PICK f \in jar[b].flows : jar' = [jar EXCEPT ![b].flows = @ \ {f}]
          BY <3>3 DEF FlowCookieExpires
        <4>2. jar' = [jar EXCEPT ![b] = [jar[b] EXCEPT !.flows = jar[b].flows \ {f}]]
          BY <3>1, <4>1
        <4>3. [jar[b] EXCEPT !.flows = jar[b].flows \ {f}].session = jar[b].session
          BY <3>1 DEF Jar
        <4> QED
          BY <3>1, <3>2, <4>2, <4>3
      <3>4. CASE MarkerExpires(b)
        <4>1. jar' = [jar EXCEPT ![b] = [jar[b] EXCEPT !.retry = FALSE]]
          BY <3>1, <3>4 DEF MarkerExpires
        <4>2. [jar[b] EXCEPT !.retry = FALSE].session = jar[b].session
          BY <3>1 DEF Jar
        <4> QED
          BY <3>1, <3>2, <4>1, <4>2
      <3> QED
        BY <2>2, <3>3, <3>4
    <2> QED
      BY <2>1, <2>2
  <1>2. \A t \in Tabs : pc[t] = "retire" => at[t] \in sessions'
    BY DEF Restart, FlowAges, SessionEnds, FlowCookieExpires, MarkerExpires, server, vars, KeepInv, Unclaimed
  <1>3. Codes' /\ Apart'
    BY <1>1 DEF KeepInv, Codes, Apart, Awaiting, Opened, Finishing
  <1>4. \A g : HeldSomewhere(g)' <=> HeldSomewhere(g)
    BY <1>1 DEF HeldSomewhere
  <1>5. ASSUME NEW u \in Tabs, Finishing(u)' PROVE ~HeldSomewhere(at[u])'
    BY <1>1, <1>5 DEF HeldSomewhere, KeepInv, Unclaimed, Finishing
  <1> QED
    BY <1>1, <1>2, <1>3, <1>4, <1>5 DEF KeepInv, Unclaimed

LEMMA KeepStep == KeepInv /\ [Next]_vars => KeepInv'
  <1> SUFFICES ASSUME KeepInv, [Next]_vars PROVE Codes' /\ Apart' /\ Unclaimed'
    BY StepInv DEF KeepInv
  <1> USE Constants DEF server, request
  <1>1. ASSUME NEW t \in Tabs, Login(t) \/ SignsIn(t) \/ OpenFlow(t) \/ Exchange(t) \/ Insert(t) \/ Retire(t)
        PROVE  Codes' /\ Apart' /\ Unclaimed'
    BY <1>1, LoginKeeps, CodeMoves, FinishKeeps
  <1>2. ASSUME NEW t \in Tabs, LoginUnavailable(t) PROVE Codes' /\ Apart' /\ Unclaimed'
    <2>1. Plain.session = Keep /\ Plain.go # "provider"
      BY DEF Plain
    <2> QED
      BY <1>2, <2>1, RespondKeeps DEF LoginUnavailable
  <1>3. \A t \in Tabs, opened \in BOOLEAN :
          RestartOrRefuse(t, opened).session = Keep /\ RestartOrRefuse(t, opened).go # "provider"
    BY DEF RestartOrRefuse, Plain
  <1>4. ASSUME NEW t \in Tabs, FlowUnknown(t) PROVE Codes' /\ Apart' /\ Unclaimed'
    BY <1>3, <1>4, RespondKeeps DEF FlowUnknown
  <1>5. ASSUME NEW t \in Tabs, CallbackFails(t) PROVE Codes' /\ Apart' /\ Unclaimed'
    <2>1. at[t] \in Flows /\ stage[at[t]] # "begun"
      BY <1>5 DEF CallbackFails, Opened, KeepInv, SignInInv, TypeOK, Placed, Codes
    <2>2. \A f \in Flows : stage'[f] = stage[f] \/ (f = at[t] /\ stage[f] # "begun" /\ stage'[f] = "spent")
      BY <1>5, <2>1 DEF CallbackFails, Reaches, KeepInv, SignInInv, TypeOK
    <2> QED
      BY <1>3, <1>5, <2>2, RespondKeeps DEF CallbackFails
  <1>6. ASSUME NEW t \in Tabs, CallbackRefused(t) PROVE Codes' /\ Apart' /\ Unclaimed'
    <2> DEFINE r == [Plain EXCEPT !.clear = {at[t]}]
    <2>1. r.session = Keep /\ r.go # "provider"
      BY DEF Plain
    <2> QED
      BY <1>6, <2>1, RespondKeeps DEF CallbackRefused
  <1>7. ASSUME NEW t \in Tabs, Logout(t) PROVE Codes' /\ Apart' /\ Unclaimed'
    <2> DEFINE r == [Plain EXCEPT !.session = None]
    <2>1. r.session = None /\ r.go # "provider"
      BY DEF Plain
    <2> QED
      BY <1>7, <2>1, RespondKeeps DEF Logout
  <1>8. ASSUME NEW t \in Tabs, Ask(t) \/ SignOut(t) PROVE Codes' /\ Apart' /\ Unclaimed'
    BY <1>8, RequestKeeps DEF Ask, SignOut
  <1>9. ASSUME NEW t \in Tabs, NEW f \in Flows, OpensAgain(t, f) PROVE Codes' /\ Apart' /\ Unclaimed'
    <2>1. at'[t] = f /\ \A u \in Tabs \ {t} : at'[u] = at[u]
      BY <1>9 DEF OpensAgain, KeepInv, SignInInv, TypeOK
    <2> QED
      BY <1>9, <2>1, RequestKeeps DEF OpensAgain
  <1>10. ASSUME NEW t \in Tabs, GivesUp(t) \/ Close(t) PROVE Codes' /\ Apart' /\ Unclaimed'
    BY <1>10, RestsKeeps DEF GivesUp, Close
  <1>11. ASSUME NEW t \in Tabs, Deliver(t) PROVE Codes' /\ Apart' /\ Unclaimed'
    BY <1>11, DeliverKeeps
  <1>12. CASE \/ Restart \/ FlowAges \/ UNCHANGED vars
              \/ \E b \in Browsers : FlowCookieExpires(b) \/ MarkerExpires(b)
              \/ \E s \in Flows : SessionEnds(s)
    BY <1>12, FaultKeeps
  <1> QED
    BY <1>1, <1>2, <1>4, <1>5, <1>6, <1>7, <1>8, <1>9, <1>10, <1>11, <1>12 DEF Next, Handler

\* A code is spent once, and a session a callback is about to hand out is held by
\* nobody, and so retired by nobody.
THEOREM CodesHold == Spec => []KeepInv
  <1> QED
    BY KeepInit, KeepStep, PTL DEF Spec

\* A failed sign-in never costs a browser the session it had (callback retires the
\* old session only when the new one is stored).
THEOREM FailureKeeps == Spec => FailureKeepsSession
  <1> DEFINE Excused(b) ==
               \/ Restart \/ \E s \in Flows : SessionEnds(s)
               \/ \E t \in Tabs : Logout(t) \/ (Retire(t) /\ at[t] \in sessions')
               \/ \E t \in TabsOf(b) : Deliver(t) /\ reply[t].session # Keep
  <1>1. ASSUME KeepInv, [Next]_vars, NEW b \in Browsers, SignedIn(b), ~SignedIn(b)'
        PROVE  Excused(b)
    <2> USE Constants DEF server, request
    <2>1. ASSUME sessions \subseteq sessions', jar'[b].session = jar[b].session PROVE FALSE
      BY <1>1, <2>1 DEF SignedIn
    <2>2. ASSUME NEW t \in Tabs, Retire(t) PROVE Excused(b)
      <3>1. at[t] \in sessions /\ ~HeldSomewhere(at[t])
        BY <1>1, <2>2 DEF Retire, KeepInv, Unclaimed, Finishing
      <3>2. sessions' = sessions \ {sent[t].session} /\ sent[t].session # at[t]
        BY <2>2, <3>1 DEF Retire, Retired, HeldSomewhere
      <3> QED
        BY <2>2, <3>1, <3>2
    <2>3. ASSUME NEW t \in Tabs, Deliver(t) PROVE Excused(b)
      <3>1. sessions' = sessions /\ jar' = [jar EXCEPT ![BrowserOf[t]] = After(jar[BrowserOf[t]], reply[t])]
        BY <2>3 DEF Deliver
      <3>2. CASE BrowserOf[t] # b
        BY <1>1, <2>1, <3>1, <3>2 DEF KeepInv, SignInInv, TypeOK
      <3>3. CASE BrowserOf[t] = b /\ reply[t].session = Keep
        <4>1. jar'[b] = After(jar[b], reply[t])
          BY <1>1, <3>1, <3>3 DEF KeepInv, SignInInv, TypeOK
        <4> QED
          BY <2>1, <3>1, <3>3, <4>1 DEF After
      <3>4. CASE BrowserOf[t] = b /\ reply[t].session # Keep
        BY <2>3, <3>4 DEF TabsOf
      <3> QED
        BY <3>2, <3>3, <3>4
    <2>4. ASSUME NEW t \in Tabs, \/ LoginUnavailable(t) \/ Login(t) \/ FlowUnknown(t) \/ OpenFlow(t)
                                 \/ Exchange(t) \/ CallbackFails(t) \/ CallbackRefused(t) \/ Insert(t)
          PROVE  FALSE
      BY <2>1, <2>4 DEF LoginUnavailable, Login, FlowUnknown, OpenFlow, Exchange, CallbackFails,
                        CallbackRefused, Insert, UntilReplaced
    <2>5. ASSUME NEW t \in Tabs, \/ Ask(t) \/ SignsIn(t) \/ GivesUp(t) \/ SignOut(t) \/ Close(t)
                                 \/ \E f \in Flows : OpensAgain(t, f)
          PROVE  FALSE
      BY <2>1, <2>5 DEF Ask, SignsIn, GivesUp, SignOut, Close, OpensAgain
    <2>6. ASSUME NEW c \in Browsers, FlowCookieExpires(c) \/ MarkerExpires(c) PROVE FALSE
      <3>1. sessions' = sessions
        BY <2>6 DEF FlowCookieExpires, MarkerExpires
      <3>2. jar[b] \in Jar /\ jar[c] \in Jar /\ jar \in [Browsers -> Jar]
        BY <1>1 DEF KeepInv, SignInInv, TypeOK
      <3>3. jar'[b].session = jar[b].session
        BY <2>6, <3>2 DEF FlowCookieExpires, MarkerExpires, Jar
      <3> QED
        BY <2>1, <3>1, <3>3
    <2>7. ASSUME FlowAges \/ UNCHANGED vars PROVE FALSE
      BY <2>1, <2>7 DEF FlowAges, vars
    <2> QED
      BY <1>1, <2>2, <2>3, <2>4, <2>5, <2>6, <2>7 DEF Next, Handler
  <1>2. KeepInv /\ [Next]_vars =>
          [\A b \in Browsers : SignedIn(b) /\ ~(SignedIn(b))' => Excused(b)]_vars
    BY <1>1
  <1> QED
    BY <1>2, CodesHold, PTL DEF Spec, FailureKeepsSession

-----------------------------------------------------------------------------
\* What keeps a sign-in under way: its cookie is in the jar of the browser that began it
\* from the answer that sets it on, until as many newer ones were begun there as count.

Live(f) == f \in 1..minted /\ SealedHere(f) /\ Young(f) /\ stage[f] \in {"begun", "issued"}
Followers(f) == {g \in (f + 1)..minted : by[g] = by[f]}
Outrun(f) == Cardinality(Followers(f)) >= MaxFlowCookies

\* The cookie of a flow whose answer arrived is there.
InJar == \A f \in Flows :
    Live(f) /\ (stage[f] = "issued" \/ \E t \in Tabs : pc[t] = "provider" /\ at[t] = f) =>
        f \in jar[by[f]].flows \/ Outrun(f)

\* So it goes with the callback.
InRequest == \A t \in Tabs, f \in Flows :
    pc[t] = "callback" /\ at[t] = f /\ by[f] = BrowserOf[t] /\ Live(f) =>
        f \in sent[t].flows \/ Outrun(f)

\* No answer on its way clears it.
ClearedLate == \A t \in Tabs : \A f \in reply[t].clear :
    f \in 1..minted /\ (Live(f) /\ by[f] = BrowserOf[t] => Outrun(f))

\* The answer that begins a sign-in brings its cookie, to the browser it is for.
Brought == \A t \in Tabs :
    Awaiting(t) => /\ by[at[t]] = BrowserOf[t]
                   /\ pc[t] = "answered" => at[t] \in reply[t].set \ reply[t].clear

\* A flow that a callback opened is under way no more.
OpenedOnce == \A t \in Tabs : Opened(t) => stage[at[t]] \in {"opened", "spent"}

SurviveInv == KeepInv /\ InJar /\ InRequest /\ ClearedLate /\ Brought /\ OpenedOnce

LEMMA SurviveInit == Init => SurviveInv
  <1> SUFFICES ASSUME Init PROVE InJar /\ InRequest /\ ClearedLate /\ Brought /\ OpenedOnce
    BY KeepInit DEF SurviveInv
  <1>1. minted = 0 /\ pc = [t \in Tabs |-> "idle"] /\ reply = [t \in Tabs |-> Plain]
    BY DEF Init
  <1>2. \A f : ~Live(f)
    BY <1>1 DEF Live
  <1>3. Plain.clear = {}
    BY DEF Plain
  <1> QED
    BY <1>1, <1>2, <1>3 DEF Awaiting, Opened, InJar, InRequest, ClearedLate, Brought, OpenedOnce

\* Sign-ins are only added, and none comes back.
LEMMA Onward ==
    ASSUME KeepInv, [Next]_vars
    PROVE  /\ minted \in Nat /\ minted' \in {minted, minted + 1}
           /\ restarted <= restarted' /\ aged <= aged'
           /\ \A f \in 1..minted : by'[f] = by[f]
           /\ \A f \in Flows : stage'[f] \in {"begun", "issued"} => stage[f] \in {"begun", "issued"}
  <1> USE Constants
  <1>1. /\ minted \in Nat /\ restarted \in 0..minted /\ aged \in 0..minted
        /\ by \in [Flows -> Browsers] /\ stage \in [Flows -> {"begun", "issued", "opened", "spent"}]
    BY DEF KeepInv, SignInInv, TypeOK
  <1>2. CASE /\ UNCHANGED <<minted, by, stage>>
             /\ restarted' \in {restarted, minted} /\ aged' \in {aged, aged + 1}
    BY <1>1, <1>2
  <1>3. ASSUME NEW t \in Tabs,
               \/ LoginUnavailable(t) \/ FlowUnknown(t) \/ CallbackRefused(t) \/ Insert(t) \/ Retire(t)
               \/ Logout(t) \/ Ask(t) \/ GivesUp(t) \/ SignOut(t) \/ Deliver(t) \/ Close(t)
               \/ \E f \in Flows : OpensAgain(t, f)
        PROVE  UNCHANGED <<minted, by, stage, restarted, aged>>
    BY <1>3 DEF LoginUnavailable, FlowUnknown, CallbackRefused, Insert, Retire, Logout, Ask, GivesUp,
                SignOut, Deliver, Close, OpensAgain, server
  <1>4. ASSUME \/ Restart \/ FlowAges \/ UNCHANGED vars
               \/ \E b \in Browsers : FlowCookieExpires(b) \/ MarkerExpires(b)
               \/ \E s \in Flows : SessionEnds(s)
        PROVE  /\ UNCHANGED <<minted, by, stage>>
               /\ restarted' \in {restarted, minted} /\ aged' \in {aged, aged + 1}
    BY <1>4 DEF Restart, FlowAges, FlowCookieExpires, MarkerExpires, SessionEnds, server, vars
  <1>5. ASSUME NEW t \in Tabs, Login(t)
        PROVE  /\ minted' = minted + 1 /\ by' = [by EXCEPT ![minted + 1] = BrowserOf[t]]
               /\ UNCHANGED <<stage, restarted, aged>>
    BY <1>5 DEF Login
  <1>6. ASSUME NEW t \in Tabs, SignsIn(t) \/ OpenFlow(t) \/ Exchange(t) \/ CallbackFails(t)
        PROVE  /\ UNCHANGED <<minted, by, restarted, aged>>
               /\ \/ stage' = stage
                  \/ stage' = [stage EXCEPT ![at[t]] = "issued"] /\ stage[at[t]] = "begun"
                  \/ stage' = [stage EXCEPT ![at[t]] = "opened"]
                  \/ stage' = [stage EXCEPT ![at[t]] = "spent"]
    <2>1. SignsIn(t) => stage[at[t]] = "begun"
      BY DEF SignsIn, KeepInv, Codes, Awaiting
    <2> QED
      BY <1>6, <2>1 DEF SignsIn, OpenFlow, Exchange, CallbackFails, Reaches
  <1>7. ASSUME NEW t \in Tabs, Login(t) PROVE \A f \in 1..minted : by'[f] = by[f]
    BY <1>1, <1>5, <1>7
  <1>8. ASSUME NEW t \in Tabs, SignsIn(t) \/ OpenFlow(t) \/ Exchange(t) \/ CallbackFails(t)
        PROVE  \A f \in Flows : stage'[f] \in {"begun", "issued"} => stage[f] \in {"begun", "issued"}
    BY <1>1, <1>6, <1>8
  <1> QED
    BY <1>1, <1>2, <1>3, <1>4, <1>5, <1>6, <1>7, <1>8 DEF Next, Handler

\* What is under way was so before, and newer sign-ins stay newer.
LEMMA FlowsStay ==
    ASSUME KeepInv, [Next]_vars, NEW f \in 1..minted
    PROVE  /\ f \in Flows /\ f \in 1..minted' /\ by'[f] = by[f]
           /\ Live(f)' => Live(f)
           /\ Outrun(f) => Outrun(f)'
  <1> USE Constants
  <1>1. minted \in 0..MaxFlows /\ restarted \in Nat /\ aged \in Nat /\ restarted' \in Nat /\ aged' \in Nat
    BY KeepStep DEF KeepInv, SignInInv, TypeOK
  <1>2. f \in Flows /\ f \in 1..minted' /\ by'[f] = by[f]
    BY <1>1, Onward
  <1>3. Live(f)' => Live(f)
    BY <1>1, <1>2, Onward DEF Live, SealedHere, Young
  <1>4. /\ Followers(f) \subseteq Followers(f)'
        /\ Followers(f)' \subseteq (f + 1)..minted'
    BY <1>1, <1>2, Onward DEF Followers
  <1>5. IsFiniteSet(Followers(f)')
    <2>1. f + 1 \in Int /\ minted' \in Int
      BY <1>1, Onward
    <2>2. IsFiniteSet((f + 1)..minted')
      BY <2>1, FS_Interval
    <2> QED
      BY <1>4, <2>2, FS_Subset
  <1>6. /\ IsFiniteSet(Followers(f))
        /\ Cardinality(Followers(f)) <= Cardinality(Followers(f)')
    BY <1>4, <1>5, FS_Subset
  <1>7. Cardinality(Followers(f)) \in Nat /\ Cardinality(Followers(f)') \in Nat
    BY <1>5, <1>6, FS_CardinalityType
  <1>8. Outrun(f) => Outrun(f)'
    BY <1>6, <1>7, BoundsAssumption DEF Outrun
  <1> QED
    BY <1>2, <1>3, <1>8

\* A step of one tab that takes no cookie of a flow under way.
LEMMA Survives ==
    ASSUME SurviveInv, [Next]_vars, NEW t \in Tabs,
           \A u \in Tabs \ {t} : UNCHANGED <<pc[u], at[u], sent[u], reply[u]>>,
           \A f \in 1..minted : Live(f)' /\ f \in jar[by[f]].flows => f \in jar'[by[f]].flows \/ Outrun(f)',
           \A f \in Flows : stage'[f] = "issued" => stage[f] = "issued" \/ (pc[t] = "provider" /\ at[t] = f),
           pc'[t] = "provider" =>
               at'[t] \in Flows /\ (at'[t] \in jar'[by'[at'[t]]].flows \/ (pc[t] = "provider" /\ at'[t] = at[t])),
           \A f \in Flows : pc'[t] = "callback" /\ at'[t] = f /\ by'[f] = BrowserOf[t] /\ Live(f)' =>
               f \in sent'[t].flows \/ Outrun(f)',
           \A f \in reply'[t].clear :
               f \in 1..minted' /\ (Live(f)' /\ by'[f] = BrowserOf[t] => Outrun(f)'),
           Awaiting(t)' => /\ by'[at'[t]] = BrowserOf[t]
                           /\ pc'[t] = "answered" => at'[t] \in reply'[t].set \ reply'[t].clear,
           Opened(t)' => stage'[at'[t]] \in {"opened", "spent"}
    PROVE  SurviveInv'
  <1> USE Constants DEF SurviveInv
  <1>1. KeepInv'
    BY KeepStep
  <1>2. minted \in Nat /\ minted \in 0..MaxFlows /\ minted' \in {minted, minted + 1} /\ minted' \in 0..MaxFlows
    BY <1>1, Onward DEF KeepInv, SignInInv, TypeOK
  <1>3. \A u \in Tabs : pc[u] = "callback" \/ Awaiting(u) \/ Opened(u) => at[u] \in 1..minted
    BY DEF KeepInv, SignInInv, Placed
  <1>4. InJar'
    <2>1. ASSUME NEW f \in Flows, Live(f)',
                 stage'[f] = "issued" \/ \E u \in Tabs : pc'[u] = "provider" /\ at'[u] = f
          PROVE  f \in jar'[by'[f]].flows \/ Outrun(f)'
      <3>1. CASE pc'[t] = "provider" /\ at'[t] = f /\ f \in jar'[by'[f]].flows
        BY <3>1
      <3>2. CASE ~(pc'[t] = "provider" /\ at'[t] = f /\ f \in jar'[by'[f]].flows)
        <4>1. stage[f] = "issued" \/ \E u \in Tabs : pc[u] = "provider" /\ at[u] = f
          BY <2>1, <3>2
        <4>2. f \in 1..minted
          <5>1. stage[f] = "issued" => f <= minted
            BY <1>2 DEF KeepInv, Codes, Flows
          <5> QED
            BY <1>2, <1>3, <4>1, <5>1 DEF Awaiting, Flows
        <4>3. Live(f) /\ by'[f] = by[f] /\ (Outrun(f) => Outrun(f)')
          BY <2>1, <4>2, FlowsStay
        <4>4. f \in jar[by[f]].flows \/ Outrun(f)
          BY <4>1, <4>3 DEF InJar
        <4> QED
          BY <2>1, <4>2, <4>3, <4>4
      <3> QED
        BY <3>1, <3>2
    <2> QED
      BY <2>1 DEF InJar
  <1>5. InRequest'
    <2>1. ASSUME NEW u \in Tabs, NEW f \in Flows, u # t,
                 pc'[u] = "callback" /\ at'[u] = f /\ by'[f] = BrowserOf[u] /\ Live(f)'
          PROVE  f \in sent'[u].flows \/ Outrun(f)'
      <3>1. pc[u] = "callback" /\ at[u] = f /\ f \in 1..minted /\ sent'[u] = sent[u]
        BY <1>3, <2>1
      <3>2. Live(f) /\ by'[f] = by[f] /\ (Outrun(f) => Outrun(f)')
        BY <2>1, <3>1, FlowsStay
      <3> QED
        BY <2>1, <3>1, <3>2 DEF InRequest
    <2> QED
      BY <2>1 DEF InRequest
  <1>6. ClearedLate'
    <2>1. ASSUME NEW u \in Tabs, u # t, NEW f \in reply'[u].clear
          PROVE  f \in 1..minted' /\ (Live(f)' /\ by'[f] = BrowserOf[u] => Outrun(f)')
      <3>1. f \in reply[u].clear /\ f \in 1..minted /\ (Live(f) /\ by[f] = BrowserOf[u] => Outrun(f))
        BY <2>1 DEF ClearedLate
      <3> QED
        BY <3>1, FlowsStay
    <2> QED
      BY <2>1 DEF ClearedLate
  <1>7. Brought'
    <2>1. ASSUME NEW u \in Tabs, u # t, Awaiting(u)'
          PROVE  /\ by'[at'[u]] = BrowserOf[u]
                 /\ pc'[u] = "answered" => at'[u] \in reply'[u].set \ reply'[u].clear
      <3>1. Awaiting(u) /\ at'[u] = at[u] /\ at[u] \in 1..minted
        BY <1>3, <2>1 DEF Awaiting
      <3>2. by'[at[u]] = by[at[u]]
        BY <3>1, FlowsStay
      <3> QED
        BY <2>1, <3>1, <3>2 DEF Brought
    <2>2. ASSUME NEW u \in Tabs, Awaiting(u)'
          PROVE  /\ by'[at'[u]] = BrowserOf[u]
                 /\ pc'[u] = "answered" => at'[u] \in reply'[u].set \ reply'[u].clear
      BY <2>1, <2>2
    <2> QED
      BY <2>2 DEF Brought
  <1>8. OpenedOnce'
    <2>1. ASSUME NEW u \in Tabs, u # t, Opened(u)' PROVE stage'[at'[u]] \in {"opened", "spent"}
      <3>1. Opened(u) /\ at'[u] = at[u] /\ at[u] \in Flows
        BY <1>2, <1>3, <2>1 DEF Opened, Flows
      <3>2. stage[at[u]] \in {"opened", "spent"}
        BY <3>1 DEF OpenedOnce
      <3>3. stage'[at[u]] \notin {"begun", "issued"}
        BY <3>1, <3>2, Onward
      <3>4. stage' \in [Flows -> {"begun", "issued", "opened", "spent"}]
        BY <1>1 DEF KeepInv, SignInInv, TypeOK
      <3> QED
        BY <3>1, <3>3, <3>4
    <2> QED
      BY <2>1 DEF OpenedOnce
  <1> QED
    BY <1>1, <1>4, <1>5, <1>6, <1>7, <1>8

\* What a login clears is outrun: the request carries as many newer flow cookies as are
\* kept beside the new one (prune_flow_cookies).
LEMMA PrunedLate ==
    ASSUME PerSecond = 1, SurviveInv, NEW t \in Tabs, Login(t), NEW f \in Pruned(t)
    PROVE  f \in 1..minted /\ by[f] = BrowserOf[t] /\ (Live(f)' => Outrun(f)')
  <1> DEFINE b == BrowserOf[t]
             held == {g \in sent[t].flows : SealedHere(g)}
             newer == Newer(f, held)
  <1> USE Constants
  <1>1. minted \in 0..MaxFlows /\ by \in [Flows -> Browsers] /\ restarted \in Nat
    BY DEF SurviveInv, KeepInv, SignInInv, TypeOK
  <1>2. /\ minted' = minted + 1 /\ by' = [by EXCEPT ![minted + 1] = b] /\ restarted' = restarted
        /\ minted + 1 \in Flows
    BY <1>1 DEF Login
  <1>3. \A g \in sent[t].flows : g \in 1..minted /\ by[g] = b
    BY DEF SurviveInv, KeepInv, SignInInv, OwnCookies, OwnFlows
  <1>4. f \in sent[t].flows
    BY DEF Pruned
  <1>5. ASSUME Live(f)' PROVE Outrun(f)'
    <2>1. f \in held
      BY <1>2, <1>4, <1>5 DEF Live, SealedHere
    <2>2. ~(Cardinality(newer) < MaxFlowCookies - 1)
      BY <2>1 DEF Pruned, Kept
    <2>3. \A g \in Int : Issued(g) = g - 1
      BY DEF Issued
    <2>4. \A g \in newer : g \in 1..minted /\ by[g] = b /\ g > f
      <3>1. ASSUME NEW g \in newer PROVE g \in 1..minted /\ by[g] = b /\ g > f
        <4>1. /\ g \in sent[t].flows
              /\ Issued(g) > Issued(f) \/ (Issued(g) = Issued(f) /\ g < f)
          BY <3>1 DEF Newer
        <4>2. g \in 1..minted /\ by[g] = b /\ f \in 1..minted
          BY <1>3, <1>4, <4>1
        <4>3. Issued(g) = g - 1 /\ Issued(f) = f - 1
          BY <1>1, <2>3, <4>2
        <4> QED
          BY <1>1, <4>1, <4>2, <4>3
      <3> QED
        BY <3>1
    <2>5. newer \cup {minted + 1} \subseteq Followers(f)' /\ Followers(f)' \subseteq (f + 1)..(minted + 1)
      BY <1>1, <1>2, <1>3, <1>4, <2>4 DEF Followers
    <2>6. f + 1 \in Int /\ minted + 1 \in Int
      BY <1>1, <1>3, <1>4
    <2>7. IsFiniteSet((f + 1)..(minted + 1))
      BY <2>6, FS_Interval
    <2>8. IsFiniteSet(Followers(f)')
      BY <2>5, <2>7, FS_Subset
    <2>9. Cardinality(newer \cup {minted + 1}) <= Cardinality(Followers(f)')
      BY <2>5, <2>8, FS_Subset
    <2>10. IsFiniteSet(newer)
      <3>1. newer \subseteq Followers(f)'
        BY <2>5
      <3> QED
        BY <2>8, <3>1, FS_Subset
    <2>11. minted + 1 \notin newer
      BY <1>1, <2>4
    <2>12. Cardinality(newer \cup {minted + 1}) = Cardinality(newer) + 1
      BY <2>10, <2>11, FS_AddElement
    <2>13. Cardinality(newer) \in Nat /\ Cardinality(Followers(f)') \in Nat
      BY <2>8, <2>10, FS_CardinalityType
    <2> QED
      BY <2>2, <2>9, <2>12, <2>13, BoundsAssumption DEF Outrun
  <1> QED
    BY <1>3, <1>4, <1>5

LEMMA LoginSurvives ==
    ASSUME PerSecond = 1, SurviveInv, NEW t \in Tabs, Login(t), [Next]_vars
    PROVE  SurviveInv'
  <1> DEFINE f == minted + 1
             r == [Plain EXCEPT !.clear = Pruned(t), !.set = {f}, !.go = "provider"]
  <1> USE Constants
  <1>1. /\ f \in Flows /\ minted' = f /\ minted \in Nat /\ by' = [by EXCEPT ![f] = BrowserOf[t]]
        /\ at' = [at EXCEPT ![t] = f] /\ reply' = [reply EXCEPT ![t] = r]
        /\ sent' = [sent EXCEPT ![t] = EmptyJar] /\ pc' = [pc EXCEPT ![t] = "answered"]
        /\ UNCHANGED <<stage, jar>>
    BY DEF Login, Respond, Goto, SurviveInv, KeepInv, SignInInv, TypeOK
  <1>2. r.clear = Pruned(t) /\ r.set = {f}
    BY DEF Plain
  <1>3. /\ \A u \in Tabs \ {t} : UNCHANGED <<pc[u], at[u], sent[u], reply[u]>>
        /\ pc'[t] = "answered" /\ at'[t] = f /\ reply'[t] = r /\ by'[f] = BrowserOf[t]
    BY <1>1 DEF SurviveInv, KeepInv, SignInInv, TypeOK
  <1>4. ~Opened(t)'
    BY <1>3 DEF Opened
  <1>5. \A g \in Pruned(t) : g \in 1..minted' /\ g # f /\ (Live(g)' => Outrun(g)')
    BY <1>1, PrunedLate
  <1>6. /\ \A g \in 1..minted : Live(g)' /\ g \in jar[by[g]].flows => g \in jar'[by[g]].flows \/ Outrun(g)'
        /\ \A g \in Flows : stage'[g] = "issued" => stage[g] = "issued" \/ (pc[t] = "provider" /\ at[t] = g)
        /\ pc'[t] # "provider" /\ pc'[t] # "callback"
    BY <1>1, <1>3
  <1>7. \A g \in reply'[t].clear : g \in 1..minted' /\ (Live(g)' /\ by'[g] = BrowserOf[t] => Outrun(g)')
    BY <1>2, <1>3, <1>5
  <1>8. by'[at'[t]] = BrowserOf[t] /\ at'[t] \in reply'[t].set \ reply'[t].clear
    BY <1>2, <1>3, <1>5
  <1> QED
    BY <1>3, <1>4, <1>6, <1>7, <1>8, Survives

\* An answer of another handler clears the flow of its callback at most.
LEMMA RespondSurvives ==
    ASSUME SurviveInv, [Next]_vars, NEW t \in Tabs, NEW r, Respond(t, r), r.go # "provider",
           UNCHANGED <<minted, jar, at>>,
           \A f \in Flows : stage'[f] = "issued" => stage[f] = "issued",
           \A f \in r.clear : f \in 1..minted /\ (Live(f) /\ Live(f)' /\ by[f] = BrowserOf[t] => Outrun(f))
    PROVE  SurviveInv'
  <1> USE Constants
  <1>1. /\ \A u \in Tabs \ {t} : UNCHANGED <<pc[u], at[u], sent[u], reply[u]>>
        /\ pc'[t] = "answered" /\ reply'[t] = r
    BY DEF Respond, Goto, SurviveInv, KeepInv, SignInInv, TypeOK
  <1>2. ~Awaiting(t)' /\ ~Opened(t)'
    BY <1>1 DEF Awaiting, Opened
  <1>3. \A f \in r.clear : f \in 1..minted' /\ (Live(f)' /\ by'[f] = BrowserOf[t] => Outrun(f)')
    BY FlowsStay DEF SurviveInv
  <1>4. \A f \in 1..minted : Live(f)' /\ f \in jar[by[f]].flows => f \in jar'[by[f]].flows
    OBVIOUS
  <1> QED
    BY <1>1, <1>2, <1>3, <1>4, Survives

\* A callback that carries no cookie for its flow is of another browser, or late.
LEMMA UnknownLate ==
    ASSUME SurviveInv, NEW t \in Tabs, FlowUnknown(t)
    PROVE  at[t] \in 1..minted /\ (Live(at[t]) /\ by[at[t]] = BrowserOf[t] => Outrun(at[t]))
  <1> USE Constants
  <1>1. pc[t] = "callback" /\ at[t] \in 1..minted /\ at[t] \in Flows
    BY DEF FlowUnknown, SurviveInv, KeepInv, SignInInv, TypeOK, Placed
  <1> QED
    BY <1>1 DEF FlowUnknown, Opens, Live, SurviveInv, InRequest

LEMMA AnswersSurvive ==
    ASSUME SurviveInv, [Next]_vars, NEW t \in Tabs,
           \/ LoginUnavailable(t) \/ FlowUnknown(t) \/ CallbackFails(t) \/ CallbackRefused(t)
           \/ Retire(t) \/ Logout(t)
    PROVE  SurviveInv'
  <1> USE Constants DEF server, request
  <1>1. /\ Plain.clear = {} /\ Plain.go # "provider"
        /\ [Plain EXCEPT !.session = None].clear = {} /\ [Plain EXCEPT !.session = None].go # "provider"
        /\ [Plain EXCEPT !.clear = {at[t]}].clear = {at[t]} /\ [Plain EXCEPT !.clear = {at[t]}].go # "provider"
        /\ SignedInReply(t).clear = {at[t]} /\ SignedInReply(t).go # "provider"
        /\ \A opened \in BOOLEAN : /\ RestartOrRefuse(t, opened).clear = {at[t]}
                                   /\ RestartOrRefuse(t, opened).go # "provider"
    BY DEF Plain, SignedInReply, RestartOrRefuse
  <1>2. ASSUME Opened(t) PROVE at[t] \in 1..minted /\ ~Live(at[t])
    BY <1>2 DEF SurviveInv, KeepInv, SignInInv, Placed, OpenedOnce, Live
  <1>3. CASE LoginUnavailable(t)
    BY <1>1, <1>3, RespondSurvives DEF LoginUnavailable
  <1>4. CASE FlowUnknown(t)
    BY <1>1, <1>4, UnknownLate, RespondSurvives DEF FlowUnknown
  <1>5. CASE CallbackFails(t)
    <2>1. Opened(t)
      BY <1>5 DEF CallbackFails, Opened
    <2>2. \A f \in Flows : stage'[f] = "issued" => stage[f] = "issued"
      BY <1>5 DEF CallbackFails, Reaches, SurviveInv, KeepInv, SignInInv, TypeOK
    <2> QED
      BY <1>1, <1>2, <1>5, <2>1, <2>2, RespondSurvives DEF CallbackFails
  <1>6. CASE CallbackRefused(t)
    <2>1. Opened(t)
      BY <1>6 DEF CallbackRefused, Opened
    <2> QED
      BY <1>1, <1>2, <1>6, <2>1, RespondSurvives DEF CallbackRefused
  <1>7. CASE Retire(t)
    <2>1. Opened(t)
      BY <1>7 DEF Retire, Opened
    <2> QED
      BY <1>1, <1>2, <1>7, <2>1, RespondSurvives DEF Retire
  <1>8. CASE Logout(t)
    BY <1>1, <1>8, RespondSurvives DEF Logout
  <1> QED
    BY <1>3, <1>4, <1>5, <1>6, <1>7, <1>8

\* A request for a callback of a flow under way carries its cookie.
LEMMA RequestSurvives ==
    ASSUME SurviveInv, [Next]_vars, NEW t \in Tabs, NEW step \in {"login", "callback", "logout"},
           Request(t, step, jar[BrowserOf[t]]), UNCHANGED <<minted, jar, reply>>,
           \A u \in Tabs \ {t} : at'[u] = at[u],
           \A f \in Flows : stage'[f] = "issued" => stage[f] = "issued" \/ (pc[t] = "provider" /\ at[t] = f),
           step = "callback" => /\ at'[t] \in 1..minted
                                /\ stage[at'[t]] # "begun" \/ (pc[t] = "provider" /\ at[t] = at'[t])
    PROVE  SurviveInv'
  <1> USE Constants
  <1>1. /\ \A u \in Tabs \ {t} : UNCHANGED <<pc[u], at[u], sent[u], reply[u]>>
        /\ pc'[t] = step /\ sent'[t] = jar[BrowserOf[t]]
    BY DEF Request, Goto, SurviveInv, KeepInv, SignInInv, TypeOK
  <1>2. ~Awaiting(t)' /\ ~Opened(t)' /\ pc'[t] # "provider"
    BY <1>1 DEF Awaiting, Opened
  <1>3. ASSUME NEW f \in Flows, pc'[t] = "callback" /\ at'[t] = f /\ by'[f] = BrowserOf[t] /\ Live(f)'
        PROVE  f \in sent'[t].flows \/ Outrun(f)'
    <2>1. f \in 1..minted
      BY <1>1, <1>3
    <2>2. Live(f) /\ by[f] = BrowserOf[t] /\ (Outrun(f) => Outrun(f)')
      BY <1>3, <2>1, FlowsStay DEF SurviveInv
    <2>3. stage[f] = "issued" \/ (pc[t] = "provider" /\ at[t] = f)
      BY <1>1, <1>3, <2>2 DEF Live
    <2>4. f \in jar[by[f]].flows \/ Outrun(f)
      BY <2>2, <2>3 DEF SurviveInv, InJar
    <2> QED
      BY <1>1, <2>2, <2>4
  <1>4. \A f \in reply'[t].clear : f \in 1..minted' /\ (Live(f)' /\ by'[f] = BrowserOf[t] => Outrun(f)')
    BY FlowsStay DEF SurviveInv, ClearedLate
  <1>5. \A f \in 1..minted : Live(f)' /\ f \in jar[by[f]].flows => f \in jar'[by[f]].flows
    OBVIOUS
  <1> QED
    BY <1>1, <1>2, <1>3, <1>4, <1>5, Survives

\* A callback goes on with a flow that is under way no more.
LEMMA MoveSurvives ==
    ASSUME SurviveInv, [Next]_vars, NEW t \in Tabs, OpenFlow(t) \/ Exchange(t) \/ Insert(t)
    PROVE  SurviveInv'
  <1> USE Constants DEF server, request
  <1>1. /\ UNCHANGED <<minted, by, jar, at, sent, reply>> /\ pc[t] \in {"callback", "exchange", "verify"}
        /\ \/ pc' = [pc EXCEPT ![t] = "exchange"]
           \/ pc' = [pc EXCEPT ![t] = "verify"]
           \/ pc' = [pc EXCEPT ![t] = "retire"]
    BY DEF OpenFlow, Exchange, Insert, Goto
  <1>2. /\ \A u \in Tabs \ {t} : UNCHANGED <<pc[u], at[u], sent[u], reply[u]>>
        /\ pc'[t] \in {"exchange", "verify", "retire"}
    BY <1>1 DEF SurviveInv, KeepInv, SignInInv, TypeOK
  <1>3. at[t] \in Flows /\ stage[at[t]] \in {"issued", "opened", "spent"}
    BY <1>1 DEF Opened, SurviveInv, KeepInv, SignInInv, TypeOK, Placed, Codes
  <1>4. stage \in [Flows -> {"begun", "issued", "opened", "spent"}]
    BY DEF SurviveInv, KeepInv, SignInInv, TypeOK
  <1>5. /\ \/ stage' = stage /\ stage[at[t]] # "issued"
           \/ stage' = [stage EXCEPT ![at[t]] = "opened"]
           \/ stage' = [stage EXCEPT ![at[t]] = "spent"]
    <2>1. Insert(t) => stage[at[t]] # "issued"
      BY DEF Insert, Opened, SurviveInv, OpenedOnce
    <2> QED
      BY <2>1 DEF OpenFlow, Exchange, Insert, Reaches
  <1>6. /\ stage'[at'[t]] \in {"opened", "spent"}
        /\ \A f \in Flows : stage'[f] = "issued" => stage[f] = "issued"
    BY <1>1, <1>3, <1>4, <1>5
  <1>7. ~Awaiting(t)' /\ pc'[t] # "provider" /\ pc'[t] # "callback"
    BY <1>2 DEF Awaiting
  <1>8. \A f \in reply'[t].clear : f \in 1..minted' /\ (Live(f)' /\ by'[f] = BrowserOf[t] => Outrun(f)')
    BY <1>1, FlowsStay DEF SurviveInv, ClearedLate
  <1>9. \A f \in 1..minted : Live(f)' /\ f \in jar[by[f]].flows => f \in jar'[by[f]].flows
    BY <1>1
  <1> QED
    BY <1>2, <1>6, <1>7, <1>8, <1>9, Survives

LEMMA RestsSurvive ==
    ASSUME SurviveInv, [Next]_vars, NEW t \in Tabs, Rests(t), UNCHANGED stage,
           \A f \in 1..minted : Live(f)' /\ f \in jar[by[f]].flows => f \in jar'[by[f]].flows \/ Outrun(f)'
    PROVE  SurviveInv'
  <1> USE Constants
  <1>1. /\ \A u \in Tabs \ {t} : UNCHANGED <<pc[u], at[u], sent[u], reply[u]>>
        /\ pc'[t] = "idle" /\ reply'[t] = Plain
    BY DEF Rests, Goto, SurviveInv, KeepInv, SignInInv, TypeOK
  <1>2. ~Awaiting(t)' /\ ~Opened(t)' /\ Plain.clear = {}
    BY <1>1 DEF Awaiting, Opened, Plain
  <1> QED
    BY <1>1, <1>2, Survives

\* An answer that arrives brings its flow's cookie, and clears none under way.
LEMMA DeliverSurvives ==
    ASSUME SurviveInv, [Next]_vars, NEW t \in Tabs, Deliver(t)
    PROVE  SurviveInv'
  <1> DEFINE b == BrowserOf[t]
             r == reply[t]
             cookies == After(jar[b], r)
  <1> USE Constants
  <1>1. /\ pc[t] = "answered" /\ b \in Browsers /\ r \in Reply /\ jar \in [Browsers -> Jar]
        /\ jar' = [jar EXCEPT ![b] = cookies] /\ by \in [Flows -> Browsers] /\ minted \in 0..MaxFlows
        /\ UNCHANGED <<minted, by, stage>>
    BY DEF Deliver, server, SurviveInv, KeepInv, SignInInv, TypeOK
  <1>2. /\ jar'[b] = cookies /\ \A c \in Browsers \ {b} : jar'[c] = jar[c]
        /\ cookies.flows = (jar[b].flows \cup r.set) \ r.clear
    BY <1>1 DEF After
  <1>3. ASSUME NEW f \in 1..minted, Live(f)', f \in jar[by[f]].flows
        PROVE  f \in jar'[by[f]].flows \/ Outrun(f)'
    <2>1. Live(f) /\ by[f] \in Browsers /\ (Outrun(f) => Outrun(f)')
      BY <1>1, <1>3, FlowsStay DEF SurviveInv
    <2>2. CASE by[f] # b
      BY <1>2, <1>3, <2>1, <2>2
    <2>3. CASE by[f] = b /\ f \notin r.clear
      BY <1>2, <1>3, <2>3
    <2>4. CASE by[f] = b /\ f \in r.clear
      BY <2>1, <2>4 DEF SurviveInv, ClearedLate
    <2> QED
      BY <2>2, <2>3, <2>4
  <1>4. CASE Rests(t)
    BY <1>1, <1>3, <1>4, RestsSurvive
  <1>5. CASE /\ r.go = "login" /\ sent' = [sent EXCEPT ![t] = cookies] /\ pc' = [pc EXCEPT ![t] = "login"]
             /\ reply' = [reply EXCEPT ![t] = Plain] /\ UNCHANGED at
    <2>1. /\ \A u \in Tabs \ {t} : UNCHANGED <<pc[u], at[u], sent[u], reply[u]>>
          /\ pc'[t] = "login" /\ reply'[t] = Plain
      BY <1>5 DEF SurviveInv, KeepInv, SignInInv, TypeOK
    <2>2. ~Awaiting(t)' /\ ~Opened(t)' /\ Plain.clear = {}
      BY <2>1 DEF Awaiting, Opened, Plain
    <2> QED
      BY <1>1, <1>3, <2>1, <2>2, Survives
  <1>6. CASE /\ r.go = "provider" /\ pc' = [pc EXCEPT ![t] = "provider"]
             /\ reply' = [reply EXCEPT ![t] = Plain] /\ UNCHANGED <<at, sent>>
    <2>1. /\ \A u \in Tabs \ {t} : UNCHANGED <<pc[u], at[u], sent[u], reply[u]>>
          /\ pc'[t] = "provider" /\ reply'[t] = Plain
      BY <1>6 DEF SurviveInv, KeepInv, SignInInv, TypeOK
    <2>2. Awaiting(t)
      BY <1>1, <1>6 DEF Awaiting
    <2>3. at[t] \in Flows /\ by[at[t]] = b /\ at[t] \in r.set \ r.clear
      BY <1>1, <2>2 DEF SurviveInv, Brought, KeepInv, SignInInv, TypeOK, Placed
    <2>4. at'[t] \in Flows /\ by'[at'[t]] = b /\ at'[t] \in jar'[by'[at'[t]]].flows
      BY <1>1, <1>2, <1>6, <2>3
    <2>5. ~Opened(t)' /\ Plain.clear = {}
      BY <2>1 DEF Opened, Plain
    <2> QED
      BY <1>1, <1>3, <2>1, <2>4, <2>5, Survives
  <1> QED
    BY <1>4, <1>5, <1>6 DEF Deliver, Request, Goto, request

\* A flow cookie expires with its flow.
LEMMA FaultSurvives ==
    ASSUME SurviveInv, [Next]_vars,
           \/ Restart \/ FlowAges \/ UNCHANGED vars
           \/ \E b \in Browsers : FlowCookieExpires(b) \/ MarkerExpires(b)
           \/ \E s \in Flows : SessionEnds(s)
    PROVE  SurviveInv'
  <1> USE Constants DEF SurviveInv
  <1>1. KeepInv'
    BY KeepStep
  <1>2. UNCHANGED <<minted, by, stage, pc, at, sent, reply>>
    BY DEF Restart, FlowAges, FlowCookieExpires, MarkerExpires, SessionEnds, server, request, vars
  <1>3. minted \in 0..MaxFlows /\ jar \in [Browsers -> Jar] /\ by \in [Flows -> Browsers] /\ aged \in Nat
    BY DEF KeepInv, SignInInv, TypeOK
  <1>4. ASSUME NEW f \in Flows, Live(f)' PROVE f \in 1..minted /\ Live(f) /\ (Outrun(f) => Outrun(f)')
    <2>1. f \in 1..minted
      BY <1>2, <1>4 DEF Live
    <2> QED
      BY <1>4, <2>1, FlowsStay
  <1>5. ASSUME NEW f \in Flows, Live(f)', f \in jar[by[f]].flows PROVE f \in jar'[by[f]].flows
    <2>1. CASE UNCHANGED jar
      BY <1>5, <2>1
    <2>2. ASSUME NEW b \in Browsers, FlowCookieExpires(b) PROVE f \in jar'[by[f]].flows
      <3>1. PICK g \in jar[b].flows : g <= aged /\ jar' = [jar EXCEPT ![b].flows = @ \ {g}]
        BY <2>2 DEF FlowCookieExpires
      <3>2. f > aged
        BY <1>4, <1>5 DEF Live, Young
      <3>3. g # f
        BY <1>3, <3>1, <3>2
      <3>4. by[f] \in Browsers
        BY <1>3
      <3> QED
        BY <1>3, <1>5, <3>1, <3>3, <3>4
    <2>3. ASSUME NEW b \in Browsers, MarkerExpires(b) PROVE f \in jar'[by[f]].flows
      <3>1. jar' = [jar EXCEPT ![b].retry = FALSE] /\ by[f] \in Browsers
        BY <1>3, <2>3 DEF MarkerExpires
      <3> QED
        BY <1>3, <1>5, <3>1 DEF Jar
    <2> QED
      BY <2>1, <2>2, <2>3 DEF Restart, FlowAges, SessionEnds, vars
  <1>6. InJar'
    BY <1>2, <1>4, <1>5 DEF InJar
  <1>7. InRequest'
    BY <1>2, <1>4 DEF InRequest
  <1>8. ClearedLate'
    <2>1. ASSUME NEW t \in Tabs, NEW f \in reply'[t].clear
          PROVE  f \in 1..minted' /\ (Live(f)' /\ by'[f] = BrowserOf[t] => Outrun(f)')
      <3>1. f \in 1..minted /\ f \in Flows /\ (Live(f) /\ by[f] = BrowserOf[t] => Outrun(f))
        BY <1>2, <1>3, <2>1 DEF ClearedLate
      <3> QED
        BY <1>2, <1>4, <3>1
    <2> QED
      BY <2>1 DEF ClearedLate
  <1>9. Brought' /\ OpenedOnce'
    BY <1>2 DEF Brought, OpenedOnce, Awaiting, Opened
  <1> QED
    BY <1>1, <1>6, <1>7, <1>8, <1>9

LEMMA SurviveStep == ASSUME PerSecond = 1 PROVE SurviveInv /\ [Next]_vars => SurviveInv'
  <1> SUFFICES ASSUME SurviveInv, [Next]_vars PROVE SurviveInv'
    OBVIOUS
  <1> USE Constants DEF server, request
  <1>1. ASSUME NEW t \in Tabs, Login(t) PROVE SurviveInv'
    BY <1>1, LoginSurvives
  <1>2. ASSUME NEW t \in Tabs, \/ LoginUnavailable(t) \/ FlowUnknown(t) \/ CallbackFails(t)
                               \/ CallbackRefused(t) \/ Retire(t) \/ Logout(t)
        PROVE  SurviveInv'
    BY <1>2, AnswersSurvive
  <1>3. ASSUME NEW t \in Tabs, OpenFlow(t) \/ Exchange(t) \/ Insert(t) PROVE SurviveInv'
    BY <1>3, MoveSurvives
  <1>4. ASSUME NEW t \in Tabs, Ask(t) \/ SignOut(t) PROVE SurviveInv'
    BY <1>4, RequestSurvives DEF Ask, SignOut
  <1>5. ASSUME NEW t \in Tabs, SignsIn(t) PROVE SurviveInv'
    <2>1. /\ pc[t] = "provider" /\ at[t] \in 1..minted /\ at' = at
          /\ stage' = [stage EXCEPT ![at[t]] = "issued"] /\ stage \in [Flows -> {"begun", "issued", "opened", "spent"}]
      BY <1>5 DEF SignsIn, Reaches, Awaiting, SurviveInv, KeepInv, SignInInv, TypeOK, Placed
    <2>2. \A f \in Flows : stage'[f] = "issued" => stage[f] = "issued" \/ (pc[t] = "provider" /\ at[t] = f)
      BY <2>1
    <2> QED
      BY <1>5, <2>1, <2>2, RequestSurvives DEF SignsIn
  <1>6. ASSUME NEW t \in Tabs, NEW f \in Flows, OpensAgain(t, f) PROVE SurviveInv'
    <2>1. at'[t] = f /\ f \in 1..minted /\ stage[f] # "begun" /\ \A u \in Tabs \ {t} : at'[u] = at[u]
      BY <1>6 DEF OpensAgain, SurviveInv, KeepInv, SignInInv, TypeOK
    <2> QED
      BY <1>6, <2>1, RequestSurvives DEF OpensAgain
  <1>7. ASSUME NEW t \in Tabs, GivesUp(t) \/ Close(t) PROVE SurviveInv'
    BY <1>7, RestsSurvive DEF GivesUp, Close
  <1>8. ASSUME NEW t \in Tabs, Deliver(t) PROVE SurviveInv'
    BY <1>8, DeliverSurvives
  <1>9. CASE \/ Restart \/ FlowAges \/ UNCHANGED vars
             \/ \E b \in Browsers : FlowCookieExpires(b) \/ MarkerExpires(b)
             \/ \E s \in Flows : SessionEnds(s)
    BY <1>9, FaultSurvives
  <1> QED
    BY <1>1, <1>2, <1>3, <1>4, <1>5, <1>6, <1>7, <1>8, <1>9 DEF Next, Handler

\* No flood of sign-ins takes one under way: where a callback finds no cookie for a good
\* flow of its own browser, as many newer ones were begun there as count
\* (prune_flow_cookies).  Issue times are distinct here; within one second the order is
\* that of the Cookie header, and the property does not hold.
THEOREM FloodsPass == ASSUME PerSecond = 1 PROVE Spec => SignInSurvives
  <1> DEFINE Late(t) ==
               LET f == at[t]
                   b == BrowserOf[t]
               IN  \/ by[f] # b \/ ~SealedHere(f) \/ ~Young(f) \/ stage[f] # "issued"
                   \/ Cardinality({g \in (f + 1)..minted : by[g] = b}) >= MaxFlowCookies
  <1>1. Spec => []SurviveInv
    BY SurviveInit, SurviveStep, PTL DEF Spec
  <1>2. ASSUME SurviveInv, NEW t \in Tabs, FlowUnknown(t) PROVE Late(t)
    <2>1. at[t] \in 1..minted /\ (Live(at[t]) /\ by[at[t]] = BrowserOf[t] => Outrun(at[t]))
      BY <1>2, UnknownLate
    <2> QED
      BY <2>1 DEF Live, Outrun, Followers
  <1>3. SurviveInv /\ [Next]_vars => [\A t \in Tabs : FlowUnknown(t) => Late(t)]_vars
    BY <1>2
  <1> QED
    BY <1>1, <1>3, PTL DEF Spec, SignInSurvives
-----------------------------------------------------------------------------
\* Each session is in its browser's jar, about to be handed out, or on its way there,
\* as long as no browser is engaged twice and no such answer is lost.
RequestIsCurrent == \A t \in Tabs :
    /\ pc[t] # "answered" => reply[t].session = Keep
    /\ Engaged(t) /\ pc[t] # "answered" => sent[t].session = jar[BrowserOf[t]].session

HandsOut(t, s) == (pc[t] = "retire" /\ at[t] = s) \/ reply[t].session = s
Accounted == \A s \in sessions :
    jar[by[s]].session = s \/ \E t \in Tabs : BrowserOf[t] = by[s] /\ HandsOut(t, s)

OldOneGone == \A t \in Tabs, s \in sessions :
    reply[t].session # Keep /\ by[s] = BrowserOf[t] => s = reply[t].session

LiveInv == SignInInv /\ RequestIsCurrent /\ Accounted /\ OldOneGone

LEMMA LiveInit == Init => LiveInv
  <1> SUFFICES ASSUME Init PROVE LiveInv
    OBVIOUS
  <1>1. SignInInv
    BY InitInv
  <1>2. RequestIsCurrent /\ Accounted /\ OldOneGone
    BY DEF Init, RequestIsCurrent, Accounted, OldOneGone, Engaged, Plain, Handling
  <1> QED
    BY <1>1, <1>2 DEF LiveInv

\* What a step leaves of a tab that it does not concern, and of one that it neither
\* hands a session nor brings one.
Untouched(u) ==
    /\ UNCHANGED <<pc[u], at[u], reply[u].session>>
    /\ Engaged(u) => UNCHANGED sent[u].session
Plainly(t) ==
    /\ reply[t].session \in {None, Keep} /\ reply'[t].session = Keep
    /\ pc[t] # "retire" /\ pc'[t] # "retire"
    /\ Engaged(t)' /\ pc'[t] # "answered" => sent'[t].session = jar[BrowserOf[t]].session

\* A step that hands no session out, brings none and changes nobody's.
LEMMA NoSessionMoves ==
    ASSUME LiveInv, SignInInv', NEW moved \in SUBSET Tabs,
           sessions' \subseteq sessions, \A s \in sessions : by'[s] = by[s],
           \A b \in Browsers : jar'[b].session = jar[b].session,
           \A u \in Tabs \ moved : Untouched(u), \A t \in moved : Plainly(t)
    PROVE  LiveInv'
  <1> USE Constants DEF Untouched, Plainly
  <1>1. \A t \in Tabs : BrowserOf[t] \in Browsers
    OBVIOUS
  <1>2. \A u \in Tabs \ moved : Engaged(u)' = Engaged(u) /\ \A s : HandsOut(u, s)' = HandsOut(u, s)
    BY DEF Engaged, HandsOut
  <1>3. \A s \in sessions : s \in 1..minted /\ by[s] \in Browsers
    BY DEF LiveInv, SignInInv, TypeOK
  <1>4. RequestIsCurrent'
    BY <1>1, <1>2 DEF LiveInv, RequestIsCurrent
  <1>5. Accounted'
    <2> SUFFICES ASSUME NEW s \in sessions', jar[by[s]].session # s
                 PROVE  \E t \in Tabs : BrowserOf[t] = by'[s] /\ HandsOut(t, s)'
      BY <1>3 DEF Accounted
    <2>1. PICK t \in Tabs : BrowserOf[t] = by[s] /\ HandsOut(t, s)
      BY DEF LiveInv, Accounted
    <2>2. t \notin moved
      BY <1>3, <2>1 DEF HandsOut
    <2> QED
      BY <1>2, <2>1, <2>2
  <1>6. OldOneGone'
    BY DEF LiveInv, OldOneGone
  <1> QED
    BY <1>4, <1>5, <1>6 DEF LiveInv

\* An answer without a session.
LEMMA PlainAnswer ==
    ASSUME LiveInv, SignInInv', NEW t \in Tabs, NEW r \in Reply, Respond(t, r), r.session = Keep,
           pc[t] \in {"login", "callback", "exchange", "verify"},
           \A u \in Tabs \ {t} : at'[u] = at[u],
           \A s \in sessions : by'[s] = by[s], UNCHANGED <<sessions, jar>>
    PROVE  LiveInv'
  <1> USE Constants
  <1>1. /\ reply' = [reply EXCEPT ![t] = r] /\ sent' = [sent EXCEPT ![t] = EmptyJar]
        /\ pc' = [pc EXCEPT ![t] = "answered"]
    BY DEF Respond, Goto
  <1>2. reply[t].session = Keep
    BY DEF LiveInv, RequestIsCurrent
  <1>3. /\ pc'[t] = "answered" /\ reply'[t] = r
        /\ \A u \in Tabs \ {t} : UNCHANGED <<pc[u], at[u], reply[u], sent[u]>>
    BY <1>1 DEF LiveInv, SignInInv, TypeOK
  <1>4. Plainly(t) /\ \A u \in Tabs \ {t} : Untouched(u)
    BY <1>2, <1>3 DEF Plainly, Untouched, Engaged
  <1>5. \A x \in {t} : Plainly(x)
    BY <1>4
  <1>6. {t} \in SUBSET Tabs
    OBVIOUS
  <1> QED
    BY <1>4, <1>5, <1>6, NoSessionMoves

\* A request, with the cookies of its browser.
LEMMA FreshRequest ==
    ASSUME LiveInv, SignInInv', NEW t \in Tabs, NEW step \in {"login", "callback", "logout"},
           Request(t, step, jar[BrowserOf[t]]), pc[t] \in {"idle", "provider"},
           \A u \in Tabs \ {t} : at'[u] = at[u],
           UNCHANGED <<by, sessions, jar, reply>>
    PROVE  LiveInv'
  <1> USE Constants
  <1>1. sent' = [sent EXCEPT ![t] = jar[BrowserOf[t]]] /\ pc' = [pc EXCEPT ![t] = step]
    BY DEF Request, Goto
  <1>2. reply[t].session = Keep
    BY DEF LiveInv, RequestIsCurrent
  <1>3. /\ pc'[t] = step /\ sent'[t] = jar[BrowserOf[t]] /\ reply'[t] = reply[t]
        /\ \A u \in Tabs \ {t} : UNCHANGED <<pc[u], at[u], reply[u], sent[u]>>
    BY <1>1 DEF LiveInv, SignInInv, TypeOK
  <1>4. Plainly(t) /\ \A u \in Tabs \ {t} : Untouched(u)
    BY <1>2, <1>3 DEF Plainly, Untouched, Engaged
  <1>5. \A x \in {t} : Plainly(x)
    BY <1>4
  <1>6. {t} \in SUBSET Tabs
    OBVIOUS
  <1> QED
    BY <1>4, <1>5, <1>6, NoSessionMoves

\* A tab comes to rest without the session of an answer.
LEMMA RestsPlainly ==
    ASSUME LiveInv, SignInInv', NEW t \in Tabs, Rests(t), pc[t] # "retire",
           reply[t].session \in {None, Keep}, UNCHANGED <<by, sessions, jar>>
    PROVE  LiveInv'
  <1> USE Constants
  <1>1. /\ pc' = [pc EXCEPT ![t] = "idle"] /\ at' = [at EXCEPT ![t] = 0]
        /\ sent' = [sent EXCEPT ![t] = EmptyJar] /\ reply' = [reply EXCEPT ![t] = Plain]
    BY DEF Rests, Goto
  <1>2. /\ pc'[t] = "idle" /\ reply'[t] = Plain /\ Plain.session = Keep
        /\ \A u \in Tabs \ {t} : UNCHANGED <<pc[u], at[u], reply[u], sent[u]>>
    BY <1>1 DEF LiveInv, SignInInv, TypeOK, Plain
  <1>3. ~Engaged(t)'
    BY <1>2 DEF Engaged
  <1>4. Plainly(t) /\ \A u \in Tabs \ {t} : Untouched(u)
    BY <1>2, <1>3 DEF Plainly, Untouched, Engaged
  <1>5. \A x \in {t} : Plainly(x)
    BY <1>4
  <1>6. {t} \in SUBSET Tabs
    OBVIOUS
  <1> QED
    BY <1>4, <1>5, <1>6, NoSessionMoves

\* A callback moves on between its awaits.
LEMMA CallbackMoves ==
    ASSUME LiveInv, SignInInv', NEW t \in Tabs, OpenFlow(t) \/ Exchange(t)
    PROVE  LiveInv'
  <1> USE Constants DEF request
  <1>1. /\ pc[t] \in {"callback", "exchange"}
        /\ UNCHANGED <<by, jar, at, sent, reply, sessions>>
        /\ \E step \in {"exchange", "verify"} : pc' = [pc EXCEPT ![t] = step]
    BY DEF OpenFlow, Exchange, UntilReplaced, Goto
  <1>2. reply[t].session = Keep /\ sent[t].session = jar[BrowserOf[t]].session
    BY <1>1 DEF LiveInv, RequestIsCurrent, Engaged
  <1>3. pc'[t] \in {"exchange", "verify"} /\ \A u \in Tabs \ {t} : UNCHANGED pc[u]
    BY <1>1 DEF LiveInv, SignInInv, TypeOK
  <1>4. Plainly(t) /\ \A u \in Tabs \ {t} : Untouched(u)
    BY <1>1, <1>2, <1>3 DEF Plainly, Untouched
  <1>5. \A x \in {t} : Plainly(x)
    BY <1>4
  <1>6. {t} \in SUBSET Tabs
    OBVIOUS
  <1> QED
    BY <1>1, <1>4, <1>5, <1>6, NoSessionMoves

\* The new session is about to be handed out by the one tab that is engaged.
LEMMA InsertAccounts ==
    ASSUME LiveInv, SignInInv', NEW t \in Tabs, Insert(t), OneAtATime
    PROVE  LiveInv'
  <1> USE Constants DEF server, request
  <1>1. /\ pc[t] = "verify" /\ sessions' = sessions \cup {at[t]} /\ pc' = [pc EXCEPT ![t] = "retire"]
        /\ UNCHANGED <<by, jar, at, sent, reply>>
    BY DEF Insert, Goto
  <1>2. by[at[t]] = BrowserOf[t] /\ Engaged(t)
    BY <1>1 DEF LiveInv, SignInInv, OwnCookies, OwnFlows, Opened, Engaged
  <1>3. pc'[t] = "retire" /\ \A u \in Tabs \ {t} : UNCHANGED pc[u]
    BY <1>1 DEF LiveInv, SignInInv, TypeOK
  <1>4. \A u \in Tabs : BrowserOf[u] = BrowserOf[t] /\ Engaged(u) => u = t
    BY <1>2 DEF OneAtATime
  <1>5. RequestIsCurrent'
    BY <1>1, <1>2, <1>3 DEF LiveInv, RequestIsCurrent, Engaged
  <1>6. HandsOut(t, at[t])' /\ \A u \in Tabs, s \in sessions : HandsOut(u, s) => HandsOut(u, s)'
    BY <1>1, <1>3 DEF HandsOut
  <1>7. Accounted'
    BY <1>1, <1>2, <1>6 DEF LiveInv, Accounted
  <1>8. \A u \in Tabs : reply[u].session # Keep => Engaged(u)
    BY DEF Engaged
  <1>9. reply[t].session = Keep
    BY <1>1 DEF LiveInv, RequestIsCurrent
  <1>10. OldOneGone'
    BY <1>1, <1>2, <1>4, <1>8, <1>9 DEF LiveInv, OldOneGone
  <1> QED
    BY <1>5, <1>7, <1>10 DEF LiveInv

\* The answer that brings a session, or ends one, leaves its browser no other: what the
\* browser held was sent with the request and is gone.
LEMMA SessionAnswer ==
    ASSUME LiveInv, SignInInv', NEW t \in Tabs, OneAtATime, NEW r \in Reply, Respond(t, r),
           \/ pc[t] = "retire" /\ r.session = at[t]
           \/ pc[t] = "logout" /\ r.session = None,
           sessions' = sessions \ {sent[t].session}, UNCHANGED <<by, jar, at>>
    PROVE  LiveInv'
  <1> USE Constants
  <1>1. /\ reply' = [reply EXCEPT ![t] = r] /\ sent' = [sent EXCEPT ![t] = EmptyJar]
        /\ pc' = [pc EXCEPT ![t] = "answered"]
    BY DEF Respond, Goto
  <1>2. /\ pc'[t] = "answered" /\ reply'[t] = r
        /\ \A u \in Tabs \ {t} : UNCHANGED <<pc[u], at[u], reply[u], sent[u]>>
    BY <1>1 DEF LiveInv, SignInInv, TypeOK
  <1>3. Engaged(t) /\ reply[t].session = Keep /\ sent[t].session = jar[BrowserOf[t]].session
    BY DEF Engaged, LiveInv, RequestIsCurrent
  <1>4. ASSUME NEW u \in Tabs, Engaged(u), BrowserOf[u] = BrowserOf[t] PROVE u = t
    BY <1>3, <1>4 DEF OneAtATime
  <1>5. \A u \in Tabs, s \in sessions : HandsOut(u, s) => Engaged(u)
    BY DEF HandsOut, Engaged, LiveInv, SignInInv, TypeOK
  <1>6. ASSUME NEW s \in sessions', by[s] = BrowserOf[t]
        PROVE  s = r.session
    <2>1. s \in sessions /\ s # jar[by[s]].session
      BY <1>3, <1>6
    <2>2. PICK u \in Tabs : BrowserOf[u] = by[s] /\ HandsOut(u, s)
      BY <2>1 DEF LiveInv, Accounted
    <2>3. u = t
      BY <1>4, <1>5, <1>6, <2>1, <2>2
    <2>4. s \in 1..minted
      BY <2>1 DEF LiveInv, SignInInv, TypeOK
    <2> QED
      BY <1>3, <2>2, <2>3, <2>4 DEF HandsOut
  <1>7. RequestIsCurrent'
    BY <1>2 DEF LiveInv, RequestIsCurrent, Engaged
  <1>8. Accounted'
    <2> SUFFICES ASSUME NEW s \in sessions', jar[by[s]].session # s
                 PROVE  \E u \in Tabs : BrowserOf[u] = by[s] /\ HandsOut(u, s)'
      BY DEF Accounted
    <2>1. CASE by[s] = BrowserOf[t]
      BY <1>2, <1>6, <2>1 DEF HandsOut
    <2>2. CASE by[s] # BrowserOf[t]
      <3>1. PICK u \in Tabs : BrowserOf[u] = by[s] /\ HandsOut(u, s)
        BY DEF LiveInv, Accounted
      <3> QED
        BY <1>2, <2>2, <3>1 DEF HandsOut
    <2> QED
      BY <2>1, <2>2
  <1>9. OldOneGone'
    BY <1>2, <1>6 DEF LiveInv, OldOneGone
  <1> QED
    BY <1>7, <1>8, <1>9 DEF LiveInv

\* What arrives is what the jar holds.
LEMMA DeliverAccounts ==
    ASSUME LiveInv, SignInInv', NEW t \in Tabs, Deliver(t), OneAtATime
    PROVE  LiveInv'
  <1> DEFINE b == BrowserOf[t]
             r == reply[t]
             cookies == After(jar[b], r)
  <1> USE Constants
  <1>1. /\ pc[t] = "answered" /\ r \in Reply /\ UNCHANGED <<by, sessions>>
        /\ jar' = [jar EXCEPT ![b] = cookies]
    BY DEF Deliver, server, LiveInv, SignInInv, TypeOK
  <1>2. cookies.session = IF r.session = Keep THEN jar[b].session ELSE r.session
    BY DEF After
  <1>3. /\ pc'[t] \in {"login", "provider", "idle"} /\ reply'[t] = Plain
        /\ \A u \in Tabs \ {t} : UNCHANGED <<pc[u], at[u], reply[u], sent[u]>>
    BY DEF Deliver, Request, Rests, Goto, request, LiveInv, SignInInv, TypeOK
  <1>4. Plain.session = Keep /\ ~Engaged(t)'
    BY <1>3 DEF Plain, Engaged
  <1>5. /\ jar'[b].session = cookies.session
        /\ \A c \in Browsers \ {b} : jar'[c] = jar[c]
    BY <1>1 DEF LiveInv, SignInInv, TypeOK
  <1>6. CASE r.session = Keep
    <2> HIDE DEF cookies
    <2>1. \A c \in Browsers : jar'[c].session = jar[c].session
      BY <1>2, <1>5, <1>6
    <2>2. Plainly(t) /\ \A u \in Tabs \ {t} : Untouched(u)
      BY <1>1, <1>3, <1>4, <1>6 DEF Plainly, Untouched
    <2>3. \A x \in {t} : Plainly(x)
      BY <2>2
    <2>4. {t} \in SUBSET Tabs
      OBVIOUS
    <2> QED
      BY <1>1, <2>1, <2>2, <2>3, <2>4, NoSessionMoves
  <1>7. CASE r.session # Keep
    <2> HIDE DEF cookies
    <2>1. \A u \in Tabs \ {t} : BrowserOf[u] = b => ~Engaged(u) /\ ~Engaged(u)'
      BY <1>3, <1>7 DEF OneAtATime, Engaged
    <2>2. RequestIsCurrent'
      BY <1>3, <1>4, <1>5, <2>1 DEF LiveInv, RequestIsCurrent, Engaged
    <2>3. Accounted'
      <3> SUFFICES ASSUME NEW s \in sessions, jar'[by[s]].session # s
                   PROVE  \E u \in Tabs : BrowserOf[u] = by[s] /\ HandsOut(u, s)'
        BY <1>1 DEF Accounted
      <3>1. by[s] # b
        BY <1>2, <1>5, <1>7 DEF LiveInv, OldOneGone
      <3>2. by[s] \in Browsers /\ jar[by[s]].session # s
        BY <1>5, <3>1 DEF LiveInv, SignInInv, TypeOK
      <3>3. PICK u \in Tabs : BrowserOf[u] = by[s] /\ HandsOut(u, s)
        BY <3>2 DEF LiveInv, Accounted
      <3> QED
        BY <1>3, <3>1, <3>3 DEF HandsOut
    <2>4. OldOneGone'
      BY <1>1, <1>3, <1>4 DEF LiveInv, OldOneGone
    <2> QED
      BY <2>2, <2>3, <2>4 DEF LiveInv
  <1> QED
    BY <1>6, <1>7

LEMMA FaultAccounts ==
    ASSUME LiveInv, SignInInv',
           \/ Restart \/ FlowAges \/ UNCHANGED vars
           \/ \E b \in Browsers : FlowCookieExpires(b) \/ MarkerExpires(b)
           \/ \E s \in Flows : SessionEnds(s)
    PROVE  LiveInv'
  <1> USE Constants DEF server, request
  <1>1. UNCHANGED <<by, pc, at, sent, reply>> /\ sessions' \subseteq sessions
    BY DEF Restart, FlowAges, vars, FlowCookieExpires, MarkerExpires, SessionEnds
  <1>2. \A c \in Browsers : jar'[c].session = jar[c].session
    <2>1. ASSUME NEW b \in Browsers, NEW f, jar' = [jar EXCEPT ![b].flows = @ \ {f}]
          PROVE  \A c \in Browsers : jar'[c].session = jar[c].session
      BY <2>1 DEF LiveInv, SignInInv, TypeOK, Jar
    <2>2. ASSUME NEW b \in Browsers, MarkerExpires(b)
          PROVE  \A c \in Browsers : jar'[c].session = jar[c].session
      BY <2>2 DEF MarkerExpires, LiveInv, SignInInv, TypeOK, Jar
    <2>3. CASE Restart \/ FlowAges \/ UNCHANGED vars \/ \E s \in Flows : SessionEnds(s)
      BY <2>3 DEF Restart, FlowAges, vars, SessionEnds
    <2> QED
      BY <2>1, <2>2, <2>3 DEF FlowCookieExpires
  <1>3. \A u \in Tabs : Untouched(u)
    BY <1>1 DEF Untouched
  <1>4. \A t \in {} : Plainly(t)
    OBVIOUS
  <1>5. {} \in SUBSET Tabs
    OBVIOUS
  <1> QED
    BY <1>1, <1>2, <1>3, <1>4, <1>5, NoSessionMoves

LEMMA LiveStep ==
    ASSUME LiveInv, [Next]_vars, OneAtATime,
           [\A t \in Tabs : Close(t) => reply[t].session \in {None, Keep}]_vars
    PROVE  LiveInv'
  <1> USE Constants
  <1>0. SignInInv'
    BY StepInv DEF LiveInv
  <1>1. ASSUME NEW t \in Tabs,
               LoginUnavailable(t) \/ Login(t) \/ FlowUnknown(t) \/ CallbackFails(t) \/ CallbackRefused(t)
        PROVE  LiveInv'
    <2> DEFINE first == [Plain EXCEPT !.clear = Pruned(t), !.set = {minted + 1}, !.go = "provider"]
               refusal == [Plain EXCEPT !.clear = {at[t]}]
    <2>1. /\ Plain.session = Keep /\ first.session = Keep /\ refusal.session = Keep
          /\ \A opened \in BOOLEAN : RestartOrRefuse(t, opened).session = Keep
      BY DEF Plain, RestartOrRefuse
    <2>2. /\ pc[t] \in {"login", "callback", "exchange", "verify"} /\ UNCHANGED <<sessions, jar>>
          /\ \/ Respond(t, Plain) \/ Respond(t, first) \/ Respond(t, refusal)
             \/ \E opened \in BOOLEAN : Respond(t, RestartOrRefuse(t, opened))
      BY <1>1 DEF LoginUnavailable, Login, FlowUnknown, CallbackFails, CallbackRefused, server
    <2>3. PICK r : Respond(t, r) /\ r.session = Keep
      BY <2>1, <2>2
    <2>4. r \in Reply
      <3>1. reply' = [reply EXCEPT ![t] = r] /\ reply' \in [Tabs -> Reply]
        BY <1>0, <2>3 DEF Respond, SignInInv, TypeOK
      <3> QED
        BY <3>1 DEF LiveInv, SignInInv, TypeOK
    <2>5. (\A u \in Tabs \ {t} : at'[u] = at[u]) /\ \A s \in sessions : by'[s] = by[s]
      <3>1. CASE Login(t)
        BY <3>1 DEF Login, LiveInv, SignInInv, TypeOK
      <3>2. CASE ~Login(t)
        BY <1>1, <3>2 DEF LoginUnavailable, FlowUnknown, CallbackFails, CallbackRefused, server
      <3> QED
        BY <3>1, <3>2
    <2> QED
      BY <1>0, <2>2, <2>3, <2>4, <2>5, PlainAnswer
  <1>2. ASSUME NEW t \in Tabs, OpenFlow(t) \/ Exchange(t) PROVE LiveInv'
    BY <1>0, <1>2, CallbackMoves
  <1>3. ASSUME NEW t \in Tabs, Insert(t) PROVE LiveInv'
    BY <1>0, <1>3, InsertAccounts
  <1>4. ASSUME NEW t \in Tabs, Retire(t) PROVE LiveInv'
    <2>1. SignedInReply(t).session = at[t] /\ SignedInReply(t) \in Reply
      <3>1. at[t] \in Flows
        BY <1>4 DEF Retire, Opened, LiveInv, SignInInv, TypeOK, Placed
      <3> QED
        BY <3>1, Answers DEF SignedInReply, Plain, LiveInv, SignInInv
    <2>2. /\ pc[t] = "retire" /\ Respond(t, SignedInReply(t)) /\ sessions' = sessions \ {sent[t].session}
          /\ UNCHANGED <<by, jar, at>>
      BY <1>4 DEF Retire, Retired, server
    <2> QED
      BY <1>0, <2>1, <2>2, SessionAnswer
  <1>5. ASSUME NEW t \in Tabs, Logout(t) PROVE LiveInv'
    <2> DEFINE r == [Plain EXCEPT !.session = None]
    <2>1. r.session = None /\ r \in Reply
      BY DEF Plain, Reply
    <2>2. /\ pc[t] = "logout" /\ Respond(t, r) /\ sessions' = sessions \ {sent[t].session}
          /\ UNCHANGED <<by, jar, at>>
      BY <1>5 DEF Logout, server
    <2> QED
      BY <1>0, <2>1, <2>2, SessionAnswer
  <1>6. ASSUME NEW t \in Tabs, Ask(t) \/ SignsIn(t) \/ SignOut(t) \/ \E f \in Flows : OpensAgain(t, f)
        PROVE  LiveInv'
    <2>1. \A u \in Tabs \ {t} : at'[u] = at[u]
      BY <1>6 DEF Ask, SignsIn, SignOut, OpensAgain, LiveInv, SignInInv, TypeOK
    <2>2. /\ pc[t] \in {"idle", "provider"} /\ UNCHANGED <<by, sessions, jar, reply>>
          /\ \E step \in {"login", "callback", "logout"} : Request(t, step, jar[BrowserOf[t]])
      BY <1>6 DEF Ask, SignsIn, SignOut, OpensAgain, server
    <2> QED
      BY <1>0, <2>1, <2>2, FreshRequest
  <1>7. ASSUME NEW t \in Tabs, GivesUp(t) \/ Close(t) PROVE LiveInv'
    <2>1. Rests(t) /\ pc[t] # "retire" /\ UNCHANGED <<by, sessions, jar>>
      BY <1>7 DEF GivesUp, Close, Handling, server
    <2>2. CASE GivesUp(t)
      BY <1>0, <2>1, <2>2, RestsPlainly DEF GivesUp, LiveInv, RequestIsCurrent
    <2>3. CASE Close(t) /\ vars' # vars
      BY <1>0, <2>1, <2>3, RestsPlainly
    <2>4. CASE UNCHANGED vars
      BY <1>0, <2>4, FaultAccounts
    <2> QED
      BY <1>7, <2>2, <2>3, <2>4
  <1>8. ASSUME NEW t \in Tabs, Deliver(t) PROVE LiveInv'
    BY <1>0, <1>8, DeliverAccounts
  <1>9. CASE \/ Restart \/ FlowAges \/ UNCHANGED vars
             \/ \E b \in Browsers : FlowCookieExpires(b) \/ MarkerExpires(b)
             \/ \E s \in Flows : SessionEnds(s)
    BY <1>0, <1>9, FaultAccounts
  <1> QED
    BY <1>1, <1>2, <1>3, <1>4, <1>5, <1>6, <1>7, <1>8, <1>9 DEF Next, Handler

\* A sign-in replaces the session its browser had: at rest a browser has no session on
\* the server but the one it holds (callback inserts the new one, then removes the old),
\* unless it finishes two sign-ins at once or the answer that brings a session is lost.
THEOREM ReplacedNotAdded == Spec /\ []OneAtATime /\ SessionsArrive => []OneLiveSession
  <1>1. LiveInv => OneLiveSession
    <2> SUFFICES ASSUME LiveInv, NEW b \in Browsers, \A t \in TabsOf(b) : pc[t] = "idle",
                        NEW s \in sessions, by[s] = b
                 PROVE  jar[b].session = s
      BY DEF OneLiveSession
    <2>1. s \in 1..minted
      BY DEF LiveInv, SignInInv, TypeOK
    <2>2. ASSUME NEW t \in Tabs, BrowserOf[t] = b PROVE ~HandsOut(t, s)
      BY <2>1, <2>2, Constants DEF TabsOf, HandsOut, LiveInv, RequestIsCurrent
    <2> QED
      BY <2>2 DEF LiveInv, Accounted
  <1>2. /\ LiveInv /\ [Next]_vars /\ OneAtATime
        /\ [\A t \in Tabs : Close(t) => reply[t].session \in {None, Keep}]_vars
        => LiveInv'
    BY LiveStep
  <1> QED
    BY <1>1, <1>2, LiveInit, PTL DEF Spec, SessionsArrive
-----------------------------------------------------------------------------
(***************************************************************************)
(* The cap on flow cookies.  A login in progress will clear the cookies its *)
(* request carried and does not keep (Doomed).  Whichever of the logins in   *)
(* progress one looks at, what they will leave in the jar, and one more for  *)
(* each of them, fits: it does where a login is sent, since the cookies it   *)
(* keeps alone are one less than the cap, and an answer that arrives takes   *)
(* its own place.                                                            *)
(***************************************************************************)
Doomed(t) == IF pc[t] = "login" THEN Pruned(t) ELSE reply[t].clear
Left(b, T) == jar[b].flows \ UNION {Doomed(t) : t \in T}

RoomIn(b, n) ==
    \A T \in SUBSET StartingIn(b) : Cardinality(Left(b, T)) + Cardinality(T) < MaxFlowCookies + n
Begins == \A t \in Tabs :
    reply[t].set # {} => reply[t].go = "provider" /\ \E f \in Flows : reply[t].set = {f}

LEMMA FlowsFinite == IsFiniteSet(Flows)
  BY Constants, FS_Interval

\* Of the cookies a login keeps there are one less than the cap: the cookies are totally
\* ordered, so no two of them have equally many newer ones.
LEMMA KeptFew ==
    ASSUME NEW held \in SUBSET Flows
    PROVE  IsFiniteSet(Kept(held)) /\ Cardinality(Kept(held)) < MaxFlowCookies
  <1> DEFINE K == Kept(held)
             rank == [f \in K |-> Cardinality(Newer(f, held))]
             Places == 0..MaxFlowCookies - 2
  <1>1. MaxFlowCookies \in Nat \ {0} /\ PerSecond \in Nat \ {0} /\ Flows = 1..MaxFlows /\ MaxFlows \in Nat
    BY BoundsAssumption, Constants
  <1>2. IsFiniteSet(held) /\ IsFiniteSet(K) /\ K \subseteq held
    <2>1. K \subseteq held
      BY DEF Kept
    <2> QED
      BY <2>1, FlowsFinite, FS_Subset
  <1>3. \A f \in held : Issued(f) \in Int /\ f \in Int
    BY <1>1 DEF Issued
  <1>4. ASSUME NEW f \in held
        PROVE  IsFiniteSet(Newer(f, held)) /\ Cardinality(Newer(f, held)) \in Nat
    <2>1. Newer(f, held) \subseteq held
      BY DEF Newer
    <2> QED
      BY <1>2, <2>1, FS_Subset, FS_CardinalityType
  <1>5. ASSUME NEW f \in held, NEW g \in Newer(f, held)
        PROVE  Cardinality(Newer(g, held)) < Cardinality(Newer(f, held))
    <2>1. g \in held /\ g \notin Newer(g, held)
      BY <1>3, <1>5 DEF Newer
    <2>2. Newer(g, held) \subseteq Newer(f, held)
      BY <1>3, <1>5, <2>1 DEF Newer
    <2>3. Newer(g, held) \subseteq Newer(f, held) \ {g}
      BY <2>1, <2>2
    <2>4. /\ IsFiniteSet(Newer(f, held) \ {g})
          /\ Cardinality(Newer(f, held) \ {g}) = Cardinality(Newer(f, held)) - 1
      BY <1>4, <1>5, FS_RemoveElement
    <2>5. Cardinality(Newer(g, held)) <= Cardinality(Newer(f, held) \ {g})
      BY <2>3, <2>4, FS_Subset
    <2> QED
      BY <1>4, <2>1, <2>4, <2>5
  <1>6. ASSUME NEW f \in held, NEW g \in held, f # g
        PROVE  f \in Newer(g, held) \/ g \in Newer(f, held)
    BY <1>3, <1>6 DEF Newer
  <1>7. rank \in [K -> Places]
    <2>1. ASSUME NEW f \in K PROVE Cardinality(Newer(f, held)) \in Places
      <3>1. f \in held /\ Cardinality(Newer(f, held)) < MaxFlowCookies - 1
        BY DEF Kept
      <3> QED
        BY <1>1, <1>4, <3>1
    <2> QED
      BY <2>1
  <1>8. \A f, g \in K : f # g => rank[f] # rank[g]
    <2> SUFFICES ASSUME NEW f \in K, NEW g \in K, f # g PROVE rank[f] # rank[g]
      OBVIOUS
    <2>1. f \in held /\ g \in held
      BY <1>2
    <2>2. /\ Cardinality(Newer(f, held)) \in Nat /\ Cardinality(Newer(g, held)) \in Nat
          /\ \/ Cardinality(Newer(f, held)) < Cardinality(Newer(g, held))
             \/ Cardinality(Newer(g, held)) < Cardinality(Newer(f, held))
      BY <1>4, <1>5, <1>6, <2>1
    <2> QED
      BY <2>2
  <1>9. IsFiniteSet(Places) /\ Cardinality(Places) = MaxFlowCookies - 1
    <2>1. 0 \in Int /\ MaxFlowCookies - 2 \in Int
      BY <1>1
    <2>2. /\ IsFiniteSet(Places)
          /\ Cardinality(Places) = IF 0 > MaxFlowCookies - 2 THEN 0 ELSE MaxFlowCookies - 2 - 0 + 1
      BY <2>1, FS_Interval
    <2> QED
      BY <1>1, <2>2
  <1>10. Cardinality(K) \in Nat /\ Cardinality(Places) \in Nat
    BY <1>2, <1>9, FS_CardinalityType
  <1>11. ~(Cardinality(Places) < Cardinality(K))
    <2> HIDE DEF K, rank, Places
    <2> QED
      BY <1>2, <1>7, <1>8, <1>9, <1>10, FS_PigeonHole
  <1> QED
    BY <1>1, <1>2, <1>9, <1>10, <1>11

\* Of some logins in progress: fewer cookies left, and the same logins, fit as well.
LEMMA FewerFit ==
    ASSUME TypeOK, NEW b \in Browsers, NEW n \in Nat, RoomIn(b, n),
           NEW T \in SUBSET StartingIn(b), NEW S \in SUBSET Left(b, T)
    PROVE  /\ IsFiniteSet(S) /\ Cardinality(S) \in Nat
           /\ IsFiniteSet(T) /\ Cardinality(T) \in Nat
           /\ Cardinality(S) + Cardinality(T) < MaxFlowCookies + n
  <1>1. IsFiniteSet(T)
    <2>1. T \subseteq Tabs
      BY DEF StartingIn, TabsOf
    <2> QED
      BY <2>1, TabsAssumption, FS_Subset
  <1>2. IsFiniteSet(Left(b, T))
    <2>1. Left(b, T) \subseteq Flows
      BY DEF Left, TypeOK, Jar
    <2> QED
      BY <2>1, FlowsFinite, FS_Subset
  <1>3. IsFiniteSet(S) /\ Cardinality(S) <= Cardinality(Left(b, T))
    BY <1>2, FS_Subset
  <1>4. Cardinality(S) \in Nat /\ Cardinality(T) \in Nat /\ Cardinality(Left(b, T)) \in Nat
    BY <1>1, <1>2, <1>3, FS_CardinalityType
  <1>5. Cardinality(Left(b, T)) + Cardinality(T) < MaxFlowCookies + n
    BY DEF RoomIn
  <1>6. MaxFlowCookies \in Nat
    BY BoundsAssumption
  <1> QED
    BY <1>1, <1>3, <1>4, <1>5, <1>6

Steady(u) == Starting(u)' => Starting(u) /\ Doomed(u)' = Doomed(u)

\* Where no login begins and no cookie arrives.
LEMMA RoomKept ==
    ASSUME TypeOK, NEW b \in Browsers, NEW n \in Nat, RoomIn(b, n),
           jar'[b].flows \subseteq jar[b].flows, \A u \in TabsOf(b) : Steady(u)
    PROVE  RoomIn(b, n)'
  <1> SUFFICES ASSUME NEW T \in SUBSET StartingIn(b)'
               PROVE  Cardinality(Left(b, T)') + Cardinality(T) < MaxFlowCookies + n
    BY DEF RoomIn
  <1>1. T \in SUBSET StartingIn(b) /\ \A u \in T : Doomed(u)' = Doomed(u)
    BY DEF StartingIn, TabsOf, Steady
  <1>2. Left(b, T)' \subseteq Left(b, T)
    BY <1>1 DEF Left
  <1> QED
    BY <1>1, <1>2, FewerFit

\* Where a tab sends a login.
LEMMA RoomForLogin ==
    ASSUME TypeOK, TypeOK', NEW b \in Browsers, NEW n \in Nat, RoomIn(b, n),
           NEW t \in TabsOf(b), \A u \in TabsOf(b) \ {t} : Steady(u),
           jar'[b].flows \subseteq jar[b].flows,
           Cardinality(jar'[b].flows \ Doomed(t)') < MaxFlowCookies,
           Cardinality(StartingIn(b)') <= n
    PROVE  RoomIn(b, n)'
  <1> SUFFICES ASSUME NEW T \in SUBSET StartingIn(b)'
               PROVE  Cardinality(Left(b, T)') + Cardinality(T) < MaxFlowCookies + n
    BY DEF RoomIn
  <1>1. CASE t \notin T
    <2>1. T \in SUBSET StartingIn(b) /\ \A u \in T : Doomed(u)' = Doomed(u)
      BY <1>1 DEF StartingIn, TabsOf, Steady
    <2>2. Left(b, T)' \subseteq Left(b, T)
      BY <2>1 DEF Left
    <2> QED
      BY <2>1, <2>2, FewerFit
  <1>2. CASE t \in T
    <2> DEFINE R == jar'[b].flows \ Doomed(t)'
    <2>1. IsFiniteSet(jar'[b].flows)
      <3>1. jar'[b].flows \subseteq Flows
        BY DEF TypeOK, Jar
      <3> QED
        BY <3>1, FlowsFinite, FS_Subset
    <2>2. IsFiniteSet(R) /\ R \subseteq jar'[b].flows
      BY <2>1, FS_Subset
    <2>3. Left(b, T)' \subseteq R
      BY <1>2 DEF Left
    <2>4. IsFiniteSet(Left(b, T)') /\ Cardinality(Left(b, T)') <= Cardinality(R)
      BY <2>2, <2>3, FS_Subset
    <2>5. IsFiniteSet(StartingIn(b)')
      <3>1. StartingIn(b)' \subseteq Tabs
        BY DEF StartingIn, TabsOf
      <3> QED
        BY <3>1, TabsAssumption, FS_Subset
    <2>6. IsFiniteSet(T) /\ Cardinality(T) <= Cardinality(StartingIn(b)')
      BY <2>5, FS_Subset
    <2>7. /\ Cardinality(Left(b, T)') \in Nat /\ Cardinality(R) \in Nat
          /\ Cardinality(T) \in Nat /\ Cardinality(StartingIn(b)') \in Nat
      BY <2>2, <2>4, <2>5, <2>6, FS_CardinalityType
    <2>8. MaxFlowCookies \in Nat /\ Cardinality(R) < MaxFlowCookies
      BY BoundsAssumption
    <2> HIDE DEF R
    <2> QED
      BY <2>4, <2>6, <2>7, <2>8
  <1> QED
    BY <1>1, <1>2

\* Where the answer to a login arrives: what it clears is cleared, its cookie takes the
\* place that was kept for it.
LEMMA RoomForAnswer ==
    ASSUME TypeOK, NEW b \in Browsers, NEW n \in Nat, RoomIn(b, n),
           NEW t \in TabsOf(b), Starting(t), ~Starting(t)', \A u \in TabsOf(b) \ {t} : Steady(u),
           NEW f, jar'[b].flows \subseteq (jar[b].flows \ Doomed(t)) \cup {f}
    PROVE  RoomIn(b, n)'
  <1> SUFFICES ASSUME NEW T \in SUBSET StartingIn(b)'
               PROVE  Cardinality(Left(b, T)') + Cardinality(T) < MaxFlowCookies + n
    BY DEF RoomIn
  <1> DEFINE S == Left(b, T)' \ {f}
  <1>1. t \notin T /\ T \in SUBSET StartingIn(b) /\ \A u \in T : Doomed(u)' = Doomed(u)
    BY DEF StartingIn, TabsOf, Steady
  <1>2. T \cup {t} \in SUBSET StartingIn(b)
    BY <1>1 DEF StartingIn
  <1>3. S \in SUBSET Left(b, T \cup {t})
    BY <1>1 DEF Left
  <1>4. /\ IsFiniteSet(S) /\ Cardinality(S) \in Nat /\ IsFiniteSet(T \cup {t})
        /\ Cardinality(S) + Cardinality(T \cup {t}) < MaxFlowCookies + n
    <2> HIDE DEF S
    <2> QED
      BY <1>2, <1>3, FewerFit
  <1>5. IsFiniteSet(T) /\ Cardinality(T) \in Nat /\ Cardinality(T \cup {t}) = Cardinality(T) + 1
    <2>1. IsFiniteSet(T)
      BY <1>4, FS_Subset
    <2> QED
      BY <1>1, <2>1, FS_AddElement, FS_CardinalityType
  <1>6. Cardinality(Left(b, T)') <= Cardinality(S) + 1 /\ Cardinality(Left(b, T)') \in Nat
    <2>1. IsFiniteSet(S \cup {f}) /\ Cardinality(S \cup {f}) = Cardinality(S) + 1
      <3>1. f \notin S
        OBVIOUS
      <3> HIDE DEF S
      <3> QED
        BY <1>4, <3>1, FS_AddElement
    <2>2. Left(b, T)' \subseteq S \cup {f}
      OBVIOUS
    <2>3. IsFiniteSet(Left(b, T)') /\ Cardinality(Left(b, T)') <= Cardinality(S \cup {f})
      BY <2>1, <2>2, FS_Subset
    <2> QED
      BY <2>1, <2>3, FS_CardinalityType
  <1>7. MaxFlowCookies \in Nat
    BY BoundsAssumption
  <1> HIDE DEF S
  <1> QED
    BY <1>4, <1>5, <1>6, <1>7

\* A tab that stays where it is, or moves on from an answer, starts nothing.
LEMMA StaysSteady ==
    ASSUME NEW u \in Tabs, UNCHANGED <<pc[u], reply[u], sent[u]>>,
           restarted' = restarted \/ pc[u] # "login"
    PROVE  Steady(u)
  BY DEF Steady, Starting, Doomed, Pruned, SealedHere

\* What a tab does on its own, the answer to its login included, brings no cookie and
\* starts no login.
LEMMA NoLoginBegins ==
    ASSUME SignInInv, Begins, NEW t \in Tabs,
           \/ Handler(t) \/ SignsIn(t) \/ GivesUp(t) \/ SignOut(t) \/ Close(t)
           \/ \E f \in Flows : OpensAgain(t, f)
    PROVE  /\ jar' = jar /\ Begins'
           /\ \A u \in Tabs : Steady(u)
  <1> USE Constants DEF server, request
  <1>1. jar' = jar /\ restarted' = restarted
    BY DEF Handler, LoginUnavailable, Login, FlowUnknown, OpenFlow, Exchange, CallbackFails,
           CallbackRefused, Insert, Retire, Logout, SignsIn, GivesUp, SignOut, Close, OpensAgain
  <1>2. pc \in [Tabs -> Handling \cup {"idle", "answered", "provider", "retire"}]
        /\ reply \in [Tabs -> Reply] /\ sent \in [Tabs -> Jar]
    BY DEF SignInInv, TypeOK
  <1>3. Plain.set = {}
    BY DEF Plain
  <1>4. ASSUME NEW r, Respond(t, r) PROVE
          /\ \A u \in Tabs \ {t} : UNCHANGED <<pc[u], reply[u], sent[u]>>
          /\ pc'[t] = "answered" /\ reply'[t] = r
    BY <1>2, <1>4 DEF Respond, Goto
  <1>5. ASSUME Rests(t) PROVE
          /\ \A u \in Tabs \ {t} : UNCHANGED <<pc[u], reply[u], sent[u]>>
          /\ pc'[t] = "idle" /\ reply'[t] = Plain
    BY <1>2, <1>5 DEF Rests, Goto
  <1>6. /\ RestartOrRefuse(t, TRUE).set = {} /\ RestartOrRefuse(t, FALSE).set = {}
        /\ SignedInReply(t).set = {} /\ [Plain EXCEPT !.session = None].set = {}
        /\ [Plain EXCEPT !.clear = {at[t]}].set = {}
    BY <1>3 DEF RestartOrRefuse, SignedInReply, Plain
  <1>7. /\ \A u \in Tabs \ {t} : UNCHANGED <<pc[u], reply[u], sent[u]>>
        /\ \/ pc'[t] # "login" /\ reply'[t].set = {}
           \/ pc[t] # "login" /\ pc'[t] # "login" /\ reply'[t] = reply[t]
           \/ /\ pc[t] = "login" /\ pc'[t] = "answered" /\ reply'[t].clear = Pruned(t)
              /\ reply'[t].go = "provider" /\ \E f \in Flows : reply'[t].set = {f}
    <2>1. CASE Login(t)
      <3> DEFINE r == [Plain EXCEPT !.clear = Pruned(t), !.set = {minted + 1}, !.go = "provider"]
      <3>1. Respond(t, r) /\ pc[t] = "login" /\ minted + 1 \in Flows
        BY <2>1 DEF Login, SignInInv, TypeOK
      <3>2. r.set = {minted + 1} /\ r.clear = Pruned(t) /\ r.go = "provider"
        BY DEF Plain
      <3> QED
        BY <1>4, <3>1, <3>2
    <2>2. CASE LoginUnavailable(t) \/ FlowUnknown(t) \/ CallbackFails(t) \/ CallbackRefused(t)
               \/ Retire(t) \/ Logout(t)
      <3>1. \E r : Respond(t, r) /\ r.set = {}
        BY <1>3, <1>6, <2>2
           DEF LoginUnavailable, FlowUnknown, CallbackFails, CallbackRefused, Retire, Logout
      <3> QED
        BY <1>4, <3>1
    <2>3. CASE OpenFlow(t) \/ Exchange(t) \/ Insert(t)
      <3>1. /\ \E step \in {"exchange", "verify", "retire"} : pc' = [pc EXCEPT ![t] = step]
            /\ pc[t] # "login" /\ UNCHANGED <<reply, sent>>
        BY <2>3 DEF OpenFlow, Exchange, Insert, Goto
      <3> QED
        BY <1>2, <3>1
    <2>4. CASE SignsIn(t) \/ SignOut(t) \/ \E f \in Flows : OpensAgain(t, f)
      <3>1. /\ \E step \in {"callback", "logout"} : pc' = [pc EXCEPT ![t] = step]
            /\ \E cookies : sent' = [sent EXCEPT ![t] = cookies]
            /\ pc[t] # "login" /\ reply' = reply
        BY <2>4 DEF SignsIn, SignOut, OpensAgain, Request, Goto
      <3> QED
        BY <1>2, <3>1
    <2>5. CASE GivesUp(t) \/ Close(t)
      <3>1. Rests(t)
        BY <2>5 DEF GivesUp, Close
      <3> QED
        BY <1>3, <1>5, <3>1
    <2> QED
      BY <2>1, <2>2, <2>3, <2>4, <2>5 DEF Handler
  <1>8. Steady(t)
    BY <1>7 DEF Steady, Starting, Doomed
  <1>9. \A u \in Tabs : Steady(u)
    BY <1>1, <1>7, <1>8, StaysSteady
  <1>10. Begins'
    BY <1>7 DEF Begins
  <1> QED
    BY <1>1, <1>9, <1>10

\* A login that is sent leaves what it keeps.
LEMMA SentLogin ==
    ASSUME NEW t \in Tabs, NEW cookies \in Jar, sent'[t] = cookies, pc'[t] = "login"
    PROVE  Cardinality(cookies.flows \ Doomed(t)') < MaxFlowCookies
  <1> DEFINE held == {f \in cookies.flows : SealedHere(f)'}
  <1>1. held \in SUBSET Flows
    BY DEF Jar
  <1>2. cookies.flows \ Doomed(t)' = Kept(held)
    <2>1. Doomed(t)' = cookies.flows \ Kept(held)
      BY DEF Doomed, Pruned
    <2>2. Kept(held) \subseteq cookies.flows
      BY DEF Kept
    <2> QED
      BY <2>1, <2>2
  <1> QED
    BY <1>1, <1>2, KeptFew

\* Tabs have room for the cookies of every login in progress; at most n[b] tabs of a
\* browser b have one at a time.
Roomy(n) == SignInInv /\ Begins /\ \A b \in Browsers : RoomIn(b, n[b])

LEMMA AskLeavesRoom ==
    ASSUME SignInInv, SignInInv', Begins, NEW t \in Tabs, Ask(t),
           NEW b \in Browsers, NEW n \in Nat, RoomIn(b, n), Cardinality(StartingIn(b)') <= n
    PROVE  Begins' /\ RoomIn(b, n)'
  <1> USE Constants DEF server
  <1>1. /\ jar' = jar /\ reply' = reply /\ restarted' = restarted
        /\ pc' = [pc EXCEPT ![t] = "login"] /\ sent' = [sent EXCEPT ![t] = jar[BrowserOf[t]]]
    BY DEF Ask, Request, Goto
  <1>2. /\ TypeOK /\ TypeOK'
        /\ pc \in [Tabs -> Handling \cup {"idle", "answered", "provider", "retire"}]
        /\ sent \in [Tabs -> Jar] /\ jar \in [Browsers -> Jar]
    BY DEF SignInInv, TypeOK
  <1>3. Begins'
    BY <1>1 DEF Begins
  <1>4. \A u \in Tabs \ {t} : Steady(u)
    <2> SUFFICES ASSUME NEW u \in Tabs \ {t} PROVE Steady(u)
      OBVIOUS
    <2>1. UNCHANGED <<pc[u], reply[u], sent[u]>>
      BY <1>1, <1>2
    <2> QED
      BY <1>1, <2>1, StaysSteady
  <1>5. CASE t \in TabsOf(b)
    <2>1. BrowserOf[t] = b /\ jar[b] \in Jar /\ jar'[b] = jar[b]
      BY <1>1, <1>2, <1>5 DEF TabsOf
    <2>2. sent'[t] = jar[b] /\ pc'[t] = "login"
      BY <1>1, <1>2, <2>1
    <2>3. Cardinality(jar[b].flows \ Doomed(t)') < MaxFlowCookies
      BY <2>1, <2>2, SentLogin
    <2> QED
      BY <1>2, <1>3, <1>4, <1>5, <2>1, <2>3, RoomForLogin DEF TabsOf
  <1>6. CASE t \notin TabsOf(b)
    BY <1>1, <1>2, <1>3, <1>4, <1>6, RoomKept DEF TabsOf
  <1> QED
    BY <1>5, <1>6

LEMMA DeliverLeavesRoom ==
    ASSUME SignInInv, SignInInv', Begins, NEW t \in Tabs, Deliver(t),
           NEW b \in Browsers, NEW n \in Nat, RoomIn(b, n), Cardinality(StartingIn(b)') <= n
    PROVE  Begins' /\ RoomIn(b, n)'
  <1> USE Constants
  <1> DEFINE r == reply[t]
             own == BrowserOf[t]
             cookies == After(jar[own], r)
  <1>1. /\ TypeOK /\ TypeOK'
        /\ pc \in [Tabs -> Handling \cup {"idle", "answered", "provider", "retire"}]
        /\ sent \in [Tabs -> Jar] /\ reply \in [Tabs -> Reply]
        /\ jar \in [Browsers -> Jar] /\ jar' \in [Browsers -> Jar] /\ own \in Browsers
    BY DEF SignInInv, TypeOK
  <1>2. /\ pc[t] = "answered" /\ restarted' = restarted
        /\ jar' = [jar EXCEPT ![own] = cookies] /\ reply' = [reply EXCEPT ![t] = Plain]
    BY DEF Deliver, Rests, server
  <1>3. \/ /\ r.go = "login" /\ pc' = [pc EXCEPT ![t] = "login"]
           /\ sent' = [sent EXCEPT ![t] = cookies]
        \/ r.go = "provider" /\ pc' = [pc EXCEPT ![t] = "provider"] /\ sent' = sent
        \/ /\ r.go \in {"page", "stop"} /\ pc' = [pc EXCEPT ![t] = "idle"]
           /\ sent' = [sent EXCEPT ![t] = EmptyJar]
    BY DEF Deliver, Request, Rests, Goto, request
  <1>4. jar'[own] = cookies /\ cookies \in Jar /\ \A c \in Browsers \ {own} : jar'[c] = jar[c]
    BY <1>1, <1>2
  <1>5. cookies.flows = (jar[own].flows \cup r.set) \ r.clear
    BY DEF After
  <1> HIDE DEF cookies
  <1>6. \A u \in Tabs \ {t} : UNCHANGED <<pc[u], reply[u], sent[u]>>
    BY <1>1, <1>2, <1>3
  <1>7. \A u \in Tabs \ {t} : Steady(u)
    BY <1>2, <1>6, StaysSteady
  <1>8. reply'[t].set = {}
    BY <1>1, <1>2 DEF Plain
  <1>9. Begins'
    BY <1>6, <1>8 DEF Begins
  <1>10. CASE t \notin TabsOf(b)
    <2>1. jar'[b] = jar[b]
      BY <1>4, <1>10 DEF TabsOf
    <2> QED
      BY <1>1, <1>7, <1>9, <1>10, <2>1, RoomKept DEF TabsOf
  <1>11. CASE t \in TabsOf(b) /\ r.go = "login"
    <2>1. own = b /\ r.set = {}
      BY <1>11 DEF TabsOf, Begins
    <2>2. sent'[t] = cookies /\ pc'[t] = "login"
      BY <1>1, <1>3, <1>11
    <2>3. Cardinality(cookies.flows \ Doomed(t)') < MaxFlowCookies
      BY <1>4, <2>2, SentLogin
    <2>4. jar'[b].flows \subseteq jar[b].flows
      BY <1>4, <1>5, <2>1
    <2>5. Cardinality(jar'[b].flows \ Doomed(t)') < MaxFlowCookies
      BY <1>4, <2>1, <2>3
    <2>6. \A u \in TabsOf(b) \ {t} : Steady(u)
      BY <1>7 DEF TabsOf
    <2> QED
      BY <1>1, <1>9, <1>11, <2>4, <2>5, <2>6, RoomForLogin
  <1>12. CASE t \in TabsOf(b) /\ r.go # "login"
    <2>1. own = b /\ pc'[t] # "login"
      BY <1>1, <1>3, <1>12 DEF TabsOf
    <2>2. ~Starting(t)'
      BY <1>8, <2>1 DEF Starting
    <2>3. CASE r.set = {}
      <3>1. jar'[b].flows \subseteq jar[b].flows
        BY <1>4, <1>5, <2>1, <2>3
      <3>2. \A u \in TabsOf(b) : Steady(u)
        BY <1>7, <2>2 DEF TabsOf, Steady
      <3> QED
        BY <1>1, <1>9, <3>1, <3>2, RoomKept
    <2>4. CASE r.set # {}
      <3>1. PICK f \in Flows : r.set = {f}
        BY <2>4 DEF Begins
      <3>2. Starting(t) /\ Doomed(t) = r.clear
        BY <1>2, <2>4 DEF Starting, Doomed
      <3>3. jar'[b].flows \subseteq (jar[b].flows \ Doomed(t)) \cup {f}
        BY <1>4, <1>5, <2>1, <3>1, <3>2
      <3>4. \A u \in TabsOf(b) \ {t} : Steady(u)
        BY <1>7 DEF TabsOf
      <3> QED
        BY <1>1, <1>9, <1>12, <2>2, <3>2, <3>3, <3>4, RoomForAnswer
    <2> QED
      BY <2>3, <2>4
  <1> QED
    BY <1>10, <1>11, <1>12

\* What expires or is lost makes no login, and makes room.
LEMMA FaultLeavesRoom ==
    ASSUME SignInInv, Begins,
           \/ Restart \/ FlowAges \/ (\E c \in Browsers : FlowCookieExpires(c) \/ MarkerExpires(c))
           \/ (\E s \in Flows : SessionEnds(s)) \/ UNCHANGED vars,
           NEW b \in Browsers, NEW n \in Nat, RoomIn(b, n)
    PROVE  Begins' /\ RoomIn(b, n)'
  <1>1. /\ UNCHANGED <<pc, sent, reply>>
        /\ restarted' = restarted \/ \A t \in Tabs : pc[t] # "login"
    BY DEF Restart, FlowAges, FlowCookieExpires, MarkerExpires, SessionEnds, vars, server, request, Handling
  <1>2. TypeOK /\ jar \in [Browsers -> Jar]
    BY DEF SignInInv, TypeOK
  <1>3. jar'[b].flows \subseteq jar[b].flows
    <2>1. ASSUME NEW c \in Browsers, FlowCookieExpires(c) PROVE jar'[b].flows \subseteq jar[b].flows
      BY <1>2, <2>1 DEF FlowCookieExpires, Jar
    <2>2. ASSUME NEW c \in Browsers, MarkerExpires(c) PROVE jar'[b].flows \subseteq jar[b].flows
      BY <1>2, <2>2 DEF MarkerExpires, Jar
    <2>3. CASE Restart \/ FlowAges \/ (\E s \in Flows : SessionEnds(s)) \/ UNCHANGED vars
      BY <2>3 DEF Restart, FlowAges, SessionEnds, vars
    <2> QED
      BY <2>1, <2>2, <2>3
  <1>4. \A u \in Tabs : Steady(u)
    BY <1>1, StaysSteady
  <1>5. Begins'
    BY <1>1 DEF Begins
  <1> QED
    BY <1>2, <1>3, <1>4, <1>5, RoomKept DEF TabsOf

LEMMA RoomStep ==
    ASSUME NEW n \in [Browsers -> Nat], Roomy(n), [Next]_vars,
           \A b \in Browsers : Cardinality(StartingIn(b)') <= n[b]
    PROVE  Roomy(n)'
  <1>1. SignInInv /\ SignInInv' /\ Begins
    BY StepInv DEF Roomy
  <1>2. ASSUME NEW b \in Browsers PROVE Begins' /\ RoomIn(b, n[b])'
    <2>1. n[b] \in Nat /\ RoomIn(b, n[b]) /\ Cardinality(StartingIn(b)') <= n[b]
      BY DEF Roomy
    <2>2. ASSUME NEW t \in Tabs, Ask(t) PROVE Begins' /\ RoomIn(b, n[b])'
      BY <1>1, <2>1, <2>2, AskLeavesRoom
    <2>3. ASSUME NEW t \in Tabs, Deliver(t) PROVE Begins' /\ RoomIn(b, n[b])'
      BY <1>1, <2>1, <2>3, DeliverLeavesRoom
    <2>4. ASSUME NEW t \in Tabs,
                 \/ Handler(t) \/ SignsIn(t) \/ GivesUp(t) \/ SignOut(t) \/ Close(t)
                 \/ \E f \in Flows : OpensAgain(t, f)
          PROVE  Begins' /\ RoomIn(b, n[b])'
      <3>1. jar' = jar /\ Begins' /\ \A u \in TabsOf(b) : Steady(u)
        BY <1>1, <2>4, NoLoginBegins DEF TabsOf
      <3>2. TypeOK
        BY <1>1 DEF SignInInv
      <3> QED
        BY <2>1, <3>1, <3>2, RoomKept
    <2>5. CASE \/ Restart \/ FlowAges \/ (\E c \in Browsers : FlowCookieExpires(c) \/ MarkerExpires(c))
               \/ (\E s \in Flows : SessionEnds(s)) \/ UNCHANGED vars
      BY <1>1, <2>1, <2>5, FaultLeavesRoom
    <2> QED
      BY <2>2, <2>3, <2>4, <2>5 DEF Next
  <1>3. Browsers # {}
    BY BrowsersAssumption
  <1> QED
    BY <1>1, <1>2, <1>3 DEF Roomy

LEMMA RoomInit ==
    ASSUME NEW n \in [Browsers -> Nat], Init
    PROVE  Roomy(n)
  <1>1. SignInInv
    BY InitInv
  <1>2. \A t \in Tabs : reply[t].set = {} /\ pc[t] # "login"
    BY DEF Init, Plain
  <1>3. Begins
    BY <1>2 DEF Begins
  <1>4. ASSUME NEW b \in Browsers PROVE RoomIn(b, n[b])
    <2>1. StartingIn(b) = {} /\ jar[b].flows = {}
      BY <1>2 DEF StartingIn, TabsOf, Starting, Init, EmptyJar
    <2>2. ASSUME NEW T \in SUBSET StartingIn(b) PROVE Left(b, T) = {} /\ T = {}
      BY <2>1 DEF Left
    <2>3. MaxFlowCookies \in Nat \ {0} /\ n[b] \in Nat /\ Cardinality({}) = 0
      BY BoundsAssumption, FS_EmptySet
    <2> QED
      BY <2>2, <2>3 DEF RoomIn
  <1> QED
    BY <1>1, <1>3, <1>4 DEF Roomy

\* Nobody's logins in progress: what is in the jar now fits.
LEMMA RoomNow ==
    ASSUME NEW n \in [Browsers -> Nat], Roomy(n), NEW b \in Browsers
    PROVE  Cardinality(jar[b].flows) \in Nat /\ Cardinality(jar[b].flows) < MaxFlowCookies + n[b]
  <1>1. TypeOK /\ RoomIn(b, n[b]) /\ n[b] \in Nat
    BY DEF Roomy, SignInInv
  <1>2. {} \in SUBSET StartingIn(b) /\ jar[b].flows \in SUBSET Left(b, {})
    BY DEF Left
  <1>3. /\ Cardinality(jar[b].flows) \in Nat
        /\ Cardinality(jar[b].flows) + Cardinality({}) < MaxFlowCookies + n[b]
    BY <1>1, <1>2, FewerFit
  <1> QED
    BY <1>3, FS_EmptySet

\* However many tabs start sign-ins, and in whatever order the answers arrive, each tab
\* costs its browser one flow cookie at most beside what the pruning keeps
\* (handlers.rs:116-118, prune_flow_cookies).
THEOREM EachTabOneCookie == Spec => []FlowCookiesBounded
  <1> DEFINE n == [b \in Browsers |-> Cardinality(TabsOf(b))]
  <1>1. \A b \in Browsers : IsFiniteSet(TabsOf(b)) /\ Cardinality(TabsOf(b)) \in Nat
    <2> SUFFICES ASSUME NEW b \in Browsers
                 PROVE  IsFiniteSet(TabsOf(b)) /\ Cardinality(TabsOf(b)) \in Nat
      OBVIOUS
    <2>1. TabsOf(b) \subseteq Tabs
      BY DEF TabsOf
    <2> QED
      BY <2>1, TabsAssumption, FS_Subset, FS_CardinalityType
  <1>2. n \in [Browsers -> Nat] /\ \A b \in Browsers : n[b] = Cardinality(TabsOf(b))
    BY <1>1
  <1> HIDE DEF n
  <1>3. \A b \in Browsers : Cardinality(StartingIn(b)') <= n[b]
    <2> SUFFICES ASSUME NEW b \in Browsers PROVE Cardinality(StartingIn(b)') <= n[b]
      OBVIOUS
    <2>1. StartingIn(b)' \subseteq TabsOf(b)
      BY DEF StartingIn, TabsOf
    <2> QED
      BY <1>1, <1>2, <2>1, FS_Subset
  <1>4. Init => Roomy(n)
    BY <1>2, RoomInit
  <1>5. Roomy(n) /\ [Next]_vars => Roomy(n)'
    BY <1>2, <1>3, RoomStep
  <1>6. Roomy(n) => FlowCookiesBounded
    BY <1>2, RoomNow DEF FlowCookiesBounded
  <1> QED
    BY <1>4, <1>5, <1>6, PTL DEF Spec

\* The README's "at most five such cookies" (README.md:172) of a browser whose tabs
\* start their sign-ins one after the other: the cap fails only where a second login
\* is sent before the first is answered.
THEOREM FiveInTurn == Spec /\ []StartsInTurn => []FlowCookiesCapped
  <1> DEFINE n == [b \in Browsers |-> 1]
  <1>1. n \in [Browsers -> Nat] /\ \A b \in Browsers : n[b] = 1
    OBVIOUS
  <1> HIDE DEF n
  <1>2. StartsInTurn' => \A b \in Browsers : Cardinality(StartingIn(b)') <= n[b]
    <2> SUFFICES ASSUME StartsInTurn', NEW b \in Browsers PROVE Cardinality(StartingIn(b)') <= 1
      BY <1>1
    <2>1. CASE StartingIn(b)' = {}
      BY <2>1, FS_EmptySet
    <2>2. CASE StartingIn(b)' # {}
      <3>1. PICK t : t \in StartingIn(b)'
        BY <2>2
      <3>2. StartingIn(b)' = {t}
        BY <3>1 DEF StartsInTurn
      <3>3. Cardinality({t}) = 1
        BY FS_Singleton
      <3> QED
        BY <3>2, <3>3
    <2> QED
      BY <2>1, <2>2
  <1>3. Init => Roomy(n)
    BY <1>1, RoomInit
  <1>4. Roomy(n) /\ [Next]_vars /\ StartsInTurn' => Roomy(n)'
    BY <1>1, <1>2, RoomStep
  <1>5. Roomy(n) => FlowCookiesCapped
    <2> SUFFICES ASSUME Roomy(n), NEW b \in Browsers
                 PROVE  Cardinality(jar[b].flows) <= MaxFlowCookies
      BY DEF FlowCookiesCapped
    <2> QED
      BY <1>1, RoomNow, BoundsAssumption
  <1> QED
    BY <1>3, <1>4, <1>5, PTL DEF Spec
=============================================================================
