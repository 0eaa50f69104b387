-------------------------- MODULE Identity_proofs ---------------------------
(***************************************************************************)
(* Who a request is answered as, proved for every set of tokens,           *)
(* assertions and calls, and every configuration with_options accepts.     *)
(***************************************************************************)
EXTENDS Identity, TLAPS

Accepted(c) == c \in Configurations /\ ~Refused(c)

FromBrowser(r) ==
  \E page \in DOMAIN FetchSite, use \in {"document", "frame", "resource"}, safe \in BOOLEAN,
     vintage \in {"old", "early", "full"}, route \in {"api", "logout"} :
    /\ page = "user" => use = "document" /\ safe
    /\ route = "logout" => ~safe
    /\ \E origin \in Origins(page, safe, vintage) :
         r = [route |-> route, page |-> page, use |-> use, safe |-> safe, vintage |-> vintage,
              headers |-> BrowserHeaders(page, use, safe, vintage, origin)]

FromProgram(r) == r.page = "none" /\ r.route = "api"

(* What an answer 200 rests on: one of the four paths, taken in order. *)
ByItsAssertion ==
  /\ answer.by = "assertion"
  /\ Asserted
  /\ Vouched(request.headers["x-bff-assertion"])
  /\ answer.user = request.headers["x-bff-assertion"].of

ByItsSession ==
  /\ answer.by = "session"
  /\ ~Asserted
  /\ request.headers["authorization"] = Absent
  /\ answer.user \in Persons /\ answer.user.at = config.login
  /\ OwnDoing(request)

ByItsBearer ==
  /\ answer.by = "bearer"
  /\ ~Asserted
  /\ Valid(request.headers["authorization"])
  /\ answer.user = request.headers["authorization"].of

Founded ==
  \/ config.dev /\ answer.by = "dev"
  \/ ~config.dev /\ (ByItsAssertion \/ ByItsSession \/ ByItsBearer)

(* What a peer's token that was handed on rests on. *)
ForItsUser(t) ==
  /\ answer.status = 200
  /\ t.of.sub = answer.user.sub
  /\ \E i \in DOMAIN config.peers : ValidFor(t, config.peers[i].audience)

(* The inductive invariant. *)
Configured == config = Off \/ Accepted(config)
Serving == request # NoRequest => config # Off
SessionIsLogins == session # Nobody => config # Off /\ session \in Persons /\ session.at = config.login
Sent == request # NoRequest => FromBrowser(request) \/ FromProgram(request)
Judged == request # NoRequest /\ answer.status = 200 => Founded
Handed == request # NoRequest /\ ~config.dev /\ forwarded.token \in Tokens => ForItsUser(forwarded.token)

IdentityInv == Configured /\ Serving /\ SessionIsLogins /\ Sent /\ Judged /\ Handed

---------------------------------------------------------------------------
LEMMA InitInv == Init => IdentityInv
  BY DEF Init, IdentityInv, Configured, Serving, SessionIsLogins, Sent, Judged, Handed

(* A step that leaves a request and its answer alone leaves what they rest on. *)
LEMMA Unmoved ==
  ASSUME Judged, Handed, UNCHANGED <<config, request, answer, forwarded>>
  PROVE  Judged' /\ Handed'
  BY DEF Judged, Handed, Founded, ByItsAssertion, ByItsSession, ByItsBearer, Asserted, Vouched,
         OwnDoing, Valid, ValidFor, ForItsUser

(* The four paths found what they answer. *)
LEMMA PathsFound ==
  ASSUME IdentityInv, Authenticate
  PROVE  IdentityInv'
  <1>1. /\ UNCHANGED <<config, session, request, forwarded>>
        /\ request # NoRequest /\ answer.status = 0
    BY DEF Authenticate, AsDev, ByAssertion, BySession, ByBearer, Decide, Undecided, Waiting
  <1>2. Configured' /\ Serving' /\ SessionIsLogins' /\ Sent'
    BY <1>1 DEF IdentityInv, Configured, Serving, SessionIsLogins, Sent
  <1>3. Handed'
    BY <1>1 DEF IdentityInv, Handed, ForItsUser
  <1>4. Judged'
    <2>1. SUFFICES ASSUME answer'.status = 200 PROVE Founded'
      BY DEF Judged
    <2>2. CASE AsDev
      BY <1>1, <2>2 DEF AsDev, Decide, Founded
    <2>3. CASE ByAssertion
      <3>1. /\ ~config.dev /\ Asserted
            /\ Vouched(request.headers["x-bff-assertion"])
            /\ answer' = [status |-> 200, user |-> request.headers["x-bff-assertion"].of, by |-> "assertion"]
        BY <2>1, <2>3 DEF ByAssertion, Decide
      <3> QED
        BY <1>1, <3>1 DEF Founded, ByItsAssertion, Asserted, Vouched
    <2>4. CASE BySession
      <3>1. /\ ~config.dev /\ ~Asserted /\ Ambient /\ OwnDoing(request)
            /\ answer' = [status |-> 200, user |-> session, by |-> "session"]
        BY <2>1, <2>4 DEF BySession, Decide
      <3>2. session # Nobody
        BY <3>1 DEF Ambient, SignedIn
      <3> QED
        BY <1>1, <3>1, <3>2 DEF Founded, ByItsSession, Asserted, Ambient, OwnDoing, IdentityInv, SessionIsLogins
    <2>5. CASE ByBearer
      <3>1. /\ ~config.dev /\ ~Asserted
            /\ Valid(request.headers["authorization"])
            /\ answer' = [status |-> 200, user |-> request.headers["authorization"].of, by |-> "bearer"]
        BY <2>1, <2>5 DEF ByBearer, Decide
      <3> QED
        BY <1>1, <3>1 DEF Founded, ByItsBearer, Asserted, Valid, ValidFor
    <2> QED
      BY <2>2, <2>3, <2>4, <2>5 DEF Authenticate
  <1> QED
    BY <1>2, <1>3, <1>4 DEF IdentityInv

(* A name belongs to one peer, which is the one peer_token finds. *)
LEMMA FirstNamed ==
  ASSUME Accepted(config), NEW name, Named(name) # {}
  PROVE  \E i \in DOMAIN config.peers :
           /\ PeerNamed(name) = config.peers[i]
           /\ config.peers[i].name = name
           /\ \A j \in Named(name) : j = i
  <1>1. config.peers \in Seq(Peers)
    BY ConfigurationsAssumption DEF Accepted
  <1>2. PICK i \in DOMAIN config.peers : config.peers[i].name = name
    BY DEF Named
  <1>3. \A j \in Named(name) : j = i
    <2>1. SUFFICES ASSUME NEW j \in Named(name), j # i PROVE FALSE
      OBVIOUS
    <2>2. /\ j \in DOMAIN config.peers /\ config.peers[j].name = name
          /\ DOMAIN config.peers = 1..Len(config.peers) /\ Len(config.peers) \in Nat
      BY <1>1 DEF Named
    <2>3. j \in 1..(i - 1) \/ i \in 1..(j - 1)
      BY <1>2, <2>1, <2>2
    <2> QED
      BY <1>2, <2>2, <2>3 DEF Accepted, Refused, BadPeer
  <1>4. i \in Named(name)
    BY <1>2 DEF Named
  <1>5. i <= i
    BY <1>1, <1>2
  <1>6. \A k \in Named(name) : k = i /\ \A j \in Named(name) : k <= j
    BY <1>3, <1>4, <1>5
  <1>7. (CHOOSE k \in Named(name) : \A j \in Named(name) : k <= j) = i
    BY <1>4, <1>6
  <1> QED
    BY <1>2, <1>3, <1>7 DEF PeerNamed

(* What peer_token hands on was validated for that peer and that user. *)
LEMMA InspectFound ==
  ASSUME ~config.dev, NEW t, NEW peer, Inspect(t, peer).token \in Tokens
  PROVE  /\ Inspect(t, peer).token = t
         /\ ValidFor(t, peer.audience)
         /\ t.of.sub = answer.user.sub
  <1>1. Absent \notin Tokens
    BY IdentityAssumption
  <1>2. t \notin {Absent, Garbled}
    BY <1>1 DEF Inspect
  <1> QED
    BY <1>1, <1>2 DEF Inspect

LEMMA HandedOn ==
  ASSUME IdentityInv, NEW name, PeerToken(name)
  PROVE  IdentityInv'
  <1>1. UNCHANGED <<config, session, request, answer>> /\ answer.status = 200
    BY DEF PeerToken
  <1>2. Configured' /\ Serving' /\ SessionIsLogins' /\ Sent'
    BY <1>1 DEF IdentityInv, Configured, Serving, SessionIsLogins, Sent
  <1>3. Judged'
    BY <1>1 DEF IdentityInv, Judged, Founded, ByItsAssertion, ByItsSession, ByItsBearer, Asserted,
                Vouched, OwnDoing, Valid, ValidFor
  <1>4. Handed'
    <2>1. SUFFICES ASSUME ~config.dev, forwarded'.token \in Tokens PROVE ForItsUser(forwarded.token)'
      BY <1>1 DEF Handed
    <2>2. Accepted(config)
      BY DEF IdentityInv, Configured, Serving, PeerToken
    <2>3. Absent \notin Tokens
      BY IdentityAssumption
    <2>4. /\ Named(name) # {}
          /\ forwarded' = Inspect(Header(PeerNamed(name).header), PeerNamed(name))
      BY <2>1, <2>3 DEF PeerToken
    <2>5. PICK i \in DOMAIN config.peers : PeerNamed(name) = config.peers[i]
      BY <2>2, <2>4, FirstNamed
    <2>6. /\ ValidFor(forwarded'.token, config.peers[i].audience)
          /\ forwarded'.token.of.sub = answer.user.sub
      BY <2>1, <2>4, <2>5, InspectFound
    <2> QED
      BY <1>1, <2>5, <2>6 DEF ForItsUser, ValidFor
  <1> QED
    BY <1>2, <1>3, <1>4 DEF IdentityInv

(* A new request carries what a browser or a program sends. *)
LEMMA Begun ==
  ASSUME IdentityInv, NEW r, Begin(r), FromBrowser(r) \/ FromProgram(r)
  PROVE  IdentityInv'
  <1>1. Absent \notin Tokens
    BY IdentityAssumption
  <1> QED
    BY <1>1 DEF Begin, IdentityInv, Configured, Serving, SessionIsLogins, Sent, Judged, Handed, Waiting,
                NotAsked, FromBrowser, FromProgram

LEMMA StepInv == IdentityInv /\ [Next]_vars => IdentityInv'
  <1> SUFFICES ASSUME IdentityInv, [Next]_vars PROVE IdentityInv'
    OBVIOUS
  <1> USE DEF IdentityInv
  <1>1. ASSUME NEW c \in Configurations, WithOptions(c) PROVE IdentityInv'
    <2>1. request = NoRequest /\ session = Nobody
      BY <1>1 DEF WithOptions, Serving, SessionIsLogins
    <2> QED
      BY <1>1, <2>1 DEF WithOptions, Configured, Accepted, Serving, SessionIsLogins, Sent, Judged, Handed
  <1>2. ASSUME NEW p \in Persons, SignIn(p) PROVE IdentityInv'
    BY <1>2 DEF SignIn, Configured, Serving, SessionIsLogins, Sent, Judged, Handed
  <1>3. CASE SessionEnds
    BY <1>3, Unmoved DEF SessionEnds, Configured, Serving, SessionIsLogins, Sent
  <1>4. CASE BrowserSends
    BY <1>4, Begun DEF BrowserSends, FromBrowser
  <1>5. CASE ClientSends
    BY <1>5, Begun DEF ClientSends, FromProgram
  <1>6. CASE Authenticate
    BY <1>6, PathsFound
  <1>7. ASSUME NEW name, PeerToken(name) PROVE IdentityInv'
    BY <1>7, HandedOn
  <1>8. CASE Logout \/ NoRoute
    <2>1. /\ UNCHANGED <<config, request, forwarded>>
          /\ answer.status = 0 /\ answer'.status # 200
          /\ session' \in {session, Nobody}
      BY <1>8 DEF Logout, NoRoute, Decide, Waiting
    <2> QED
      BY <2>1 DEF Configured, Serving, SessionIsLogins, Sent, Judged, Handed, ForItsUser
  <1>9. CASE Done
    BY <1>9 DEF Done, Configured, Serving, SessionIsLogins, Sent, Judged, Handed
  <1>10. CASE UNCHANGED vars
    BY <1>10, Unmoved DEF vars, Configured, Serving, SessionIsLogins, Sent
  <1> QED
    BY <1>1, <1>2, <1>3, <1>4, <1>5, <1>6, <1>7, <1>8, <1>9, <1>10 DEF Next

(* Every answer rests on one path of the extractor, and every peer's token *)
(* handed on was validated for that peer and for the user (auth.rs).       *)
THEOREM IdentityHolds == Spec => []IdentityInv
  <1> QED
    BY InitInv, StepInv, PTL DEF Spec
---------------------------------------------------------------------------
(* What the headers of a browser say of the page that made the request. *)

LEMMA BrowserTells ==
  ASSUME NEW r, FromBrowser(r)
  PROVE  /\ r.page \in {"own", "sibling", "foreign", "user"}
         /\ r.use \in {"document", "frame", "resource"}
         /\ r.safe \in BOOLEAN /\ r.vintage \in {"old", "early", "full"}
         /\ r.page = "user" => r.use = "document" /\ r.safe
         /\ r.route = "logout" => ~r.safe
         /\ r.headers["authorization"] = Absent /\ r.headers["x-bff-assertion"] = Absent
         /\ r.headers["origin"] \in Origins(r.page, r.safe, r.vintage)
         /\ r.headers["sec-fetch-site"] = IF r.vintage = "old" THEN Absent ELSE FetchSite[r.page]
         /\ r.headers["sec-fetch-mode"] = IF r.vintage = "old" THEN Absent
                                          ELSE IF r.use = "resource" THEN "cors" ELSE "navigate"
         /\ r.headers["sec-fetch-dest"] = IF r.vintage # "full" THEN Absent ELSE r.use
  <1>1. PICK page \in DOMAIN FetchSite, use \in {"document", "frame", "resource"}, safe \in BOOLEAN,
             vintage \in {"old", "early", "full"}, route \in {"api", "logout"} :
          /\ page = "user" => use = "document" /\ safe
          /\ route = "logout" => ~safe
          /\ \E origin \in Origins(page, safe, vintage) :
               r = [route |-> route, page |-> page, use |-> use, safe |-> safe, vintage |-> vintage,
                    headers |-> BrowserHeaders(page, use, safe, vintage, origin)]
    BY DEF FromBrowser
  <1>2. PICK origin \in Origins(page, safe, vintage) :
          r = [route |-> route, page |-> page, use |-> use, safe |-> safe, vintage |-> vintage,
               headers |-> BrowserHeaders(page, use, safe, vintage, origin)]
    BY <1>1
  <1>3. page \in {"own", "sibling", "foreign", "user"}
    BY DEF FetchSite
  <1>4. r.headers = BrowserHeaders(page, use, safe, vintage, origin)
    BY <1>2
  <1>5. /\ r.headers["authorization"] = Absent /\ r.headers["x-bff-assertion"] = Absent
        /\ r.headers["origin"] = origin
        /\ r.headers["sec-fetch-site"] = IF vintage = "old" THEN Absent ELSE FetchSite[page]
        /\ r.headers["sec-fetch-mode"] = IF vintage = "old" THEN Absent
                                         ELSE IF use = "resource" THEN "cors" ELSE "navigate"
        /\ r.headers["sec-fetch-dest"] = IF vintage # "full" THEN Absent ELSE use
    BY <1>4 DEF BrowserHeaders, Bare, CredentialHeaders
  <1> QED
    BY <1>1, <1>2, <1>3, <1>5

(* Only the service's own page passes the check of writes. *)
LEMMA WritesAreOwn ==
  ASSUME NEW r, FromBrowser(r), ~r.safe
  PROVE  SameOrigin(r.headers) => r.page = "own"
  <1>1. /\ Absent \notin Words
        /\ {"own", "null", "same-origin"} \subseteq Words
    BY IdentityAssumption DEF Words
  <1>2. r.page # "user"
    BY BrowserTells
  <1>3. r.headers["origin"] = "own" => r.page = "own"
    BY <1>1, BrowserTells DEF Origins
  <1>4. r.headers["sec-fetch-site"] = "same-origin" => r.page = "own"
    BY <1>1, BrowserTells DEF FetchSite
  <1> QED
    BY <1>3, <1>4 DEF SameOrigin

(* A read for another page passes only without evidence. *)
LEMMA ReadsNeedNoEvidence ==
  ASSUME NEW r, FromBrowser(r), r.page \notin {"own", "user"}, ~EmbeddedByAnotherSite(r.headers)
  PROVE  \/ r.use = "document"
         \/ r.vintage = "old"
         \/ r.vintage = "early" /\ r.use = "frame"
  <1>1. SUFFICES ASSUME r.vintage # "old" PROVE r.use = "document" \/ (r.vintage = "early" /\ r.use = "frame")
    OBVIOUS
  <1>2. r.headers["sec-fetch-site"] \in {"same-site", "cross-site"}
    BY <1>1, BrowserTells DEF FetchSite
  <1>3. TopLevel(r.headers)
    BY <1>2 DEF EmbeddedByAnotherSite
  <1>4. r.use # "resource"
    BY <1>1, <1>3, BrowserTells DEF TopLevel
  <1>5. r.vintage = "full" => r.use \in {Absent, "document"}
    BY <1>3, BrowserTells DEF TopLevel
  <1>6. r.vintage = "full" => r.use = "document"
    <2>1. Absent # "frame"
      BY IdentityAssumption DEF Words
    <2>2. r.use \in {"document", "frame"}
      BY <1>4, BrowserTells
    <2> QED
      BY <1>5, <2>1, <2>2
  <1>7. r.vintage \in {"early", "full"} /\ r.use \in {"document", "frame"}
    BY <1>1, <1>4, BrowserTells
  <1> QED
    BY <1>6, <1>7

(* The cookie speaks for its user only on a page of the service, on a visit *)
(* to it, or where the browser gives no evidence (login/mod.rs).            *)
THEOREM CookieNeedsOwnPage == Spec => []AmbientNeedsOwnPage
  <1>1. IdentityInv => AmbientNeedsOwnPage
    <2>1. SUFFICES ASSUME IdentityInv, Browsed(request), answer.by = "session", answer.status = 200,
                          request.page \notin {"own", "user"}
                   PROVE  /\ request.safe
                          /\ \/ request.use = "document"
                             \/ request.vintage = "old"
                             \/ request.vintage = "early" /\ request.use = "frame"
      BY DEF AmbientNeedsOwnPage
    <2>2. FromBrowser(request)
      BY <2>1 DEF IdentityInv, Sent, Browsed, FromProgram
    <2>3. OwnDoing(request)
      BY <2>1 DEF IdentityInv, Judged, Founded, Browsed, ByItsAssertion, ByItsSession, ByItsBearer
    <2>4. request.safe
      BY <2>1, <2>2, <2>3, WritesAreOwn DEF OwnDoing
    <2> QED
      BY <2>1, <2>2, <2>3, <2>4, ReadsNeedNoEvidence DEF OwnDoing
  <1> QED
    BY <1>1, IdentityHolds, PTL

(* A credential named is judged alone, and answers for its own user. *)
THEOREM NothingFallsThrough == Spec => []NoFallThrough
  <1>1. IdentityInv => NoFallThrough
    <2>1. SUFFICES ASSUME IdentityInv, request # NoRequest, answer.status = 200, ~config.dev,
                          Strongest(request.headers) # Absent
                   PROVE  /\ Strongest(request.headers) \in Tokens \cup Assertions
                          /\ answer.user = Strongest(request.headers).of
      BY DEF NoFallThrough
    <2>2. ByItsAssertion \/ ByItsSession \/ ByItsBearer
      BY <2>1 DEF IdentityInv, Judged, Founded
    <2> QED
      BY <2>1, <2>2 DEF ByItsAssertion, ByItsSession, ByItsBearer, Asserted, Strongest, Vouched, Valid, ValidFor
  <1> QED
    BY <1>1, IdentityHolds, PTL

(* A token handed on for a peer is refused as a bearer (JwksStore::validate). *)
THEOREM PeerTokensStayPeers == Spec => []PeerTokenIsNoCredential
  <1>1. IdentityInv => PeerTokenIsNoCredential
    BY DEF IdentityInv, Handed, ForItsUser, PeerTokenIsNoCredential, Valid, ValidFor
  <1> QED
    BY <1>1, IdentityHolds, PTL

(* Comparing subjects is comparing persons, since with_options lets peers  *)
(* in beside one provider only and front ends sign in there too.           *)
THEOREM PeersArePersons == Spec => []PeerIsTheUser
  <1>1. ASSUME IdentityInv, request # NoRequest, ~config.dev, forwarded.token \in Tokens
        PROVE  answer.user = forwarded.token.of
    <2> DEFINE t == forwarded.token
    <2>1. /\ answer.status = 200
          /\ t.of.sub = answer.user.sub
          /\ t.of \in Persons /\ t.of.at = config.issuer /\ config.issuer \in Providers
      BY <1>1, IdentityAssumption DEF IdentityInv, Handed, ForItsUser, ValidFor, Persons
    <2>2. Accepted(config)
      BY <1>1 DEF IdentityInv, Configured, Serving
    <2>3. config.peers # <<>>
      BY <1>1 DEF IdentityInv, Handed, ForItsUser
    <2>4. answer.user \in Persons /\ answer.user.at = config.issuer
      <3>1. CASE ByItsAssertion
        BY <2>1, <2>2, <3>1, IdentityAssumption, ConfigurationsAssumption
           DEF ByItsAssertion, Asserted, Vouched, Accepted
      <3>2. CASE ByItsSession
        BY <2>2, <2>3, <3>2 DEF ByItsSession, Accepted, Refused, TwoProviders, Persons
      <3>3. CASE ByItsBearer
        BY <3>3, IdentityAssumption DEF ByItsBearer, Valid, ValidFor
      <3> QED
        BY <1>1, <2>1, <3>1, <3>2, <3>3 DEF IdentityInv, Judged, Founded
    <2> QED
      BY <2>1, <2>4 DEF Persons
  <1>2. IdentityInv => PeerIsTheUser
    BY <1>1 DEF PeerIsTheUser
  <1> QED
    BY <1>2, IdentityHolds, PTL

(* Only the service's own page ends its user's session (POST /auth/logout). *)
THEOREM SignOutIsOwn == Spec => OnlyOwnPageSignsOut
  <1>1. ASSUME IdentityInv, Logout, session # session' PROVE request.page = "own"
    <2>1. /\ request # NoRequest /\ request.route = "logout"
          /\ session # Nobody /\ MaySignOut(request.headers)
      BY <1>1 DEF Logout
    <2>2. FromBrowser(request)
      BY <1>1, <2>1 DEF IdentityInv, Sent, FromProgram
    <2>3. config.login # DevLogin
      BY <1>1, <2>1, IdentityAssumption DEF IdentityInv, SessionIsLogins, Persons
    <2> QED
      BY <2>1, <2>2, <2>3, WritesAreOwn, BrowserTells DEF MaySignOut
  <1>2. IdentityInv /\ [Next]_vars => [Logout /\ session # session' => request.page = "own"]_vars
    BY <1>1
  <1> QED
    BY <1>2, IdentityHolds, PTL DEF Spec, OnlyOwnPageSignsOut

(* Whoever the page names is who the API answers (GET /auth/me). *)
THEOREM PageAndApi == Spec => PageAndApiAgree
  <1>1. ASSUME IdentityInv, Authenticate, config # Off, config.login # NoLogin, request.page = "own",
               request.headers["origin"] # "null"
        PROVE  answer'.user = Me(request.headers)
    <2>1. request # NoRequest /\ Accepted(config)
      BY <1>1 DEF Authenticate, AsDev, ByAssertion, BySession, ByBearer, Undecided, IdentityInv, Configured
    <2>2. config.dev <=> config.login = DevLogin
      BY <1>1, <2>1, ConfigurationsAssumption DEF Accepted, Refused, LoginMismatched
    <2>3. FromBrowser(request)
      BY <1>1, <2>1 DEF IdentityInv, Sent, FromProgram
    <2>4. /\ request.headers["authorization"] = Absent
          /\ request.headers["x-bff-assertion"] = Absent
      BY <2>3, BrowserTells
    <2>5. CASE AsDev
      BY <2>2, <2>5 DEF AsDev, Decide, Me
    <2>6. ~ByAssertion
      BY <2>4 DEF ByAssertion, Asserted
    <2>7. CASE BySession
      <3>1. OwnDoing(request)
        <4>1. request.headers["sec-fetch-site"] \in {Absent, "same-origin"}
          BY <1>1, <2>3, BrowserTells DEF FetchSite
        <4>2. ~EmbeddedByAnotherSite(request.headers)
          BY <4>1, IdentityAssumption DEF EmbeddedByAnotherSite, Words
        <4>3. ~request.safe => SameOrigin(request.headers)
          <5>1. ASSUME ~request.safe, request.headers["origin"] # "own"
                PROVE  /\ request.headers["origin"] = Absent
                       /\ request.vintage # "old"
            BY <1>1, <2>3, <5>1, BrowserTells DEF Origins
          <5>2. request.vintage # "old" => request.headers["sec-fetch-site"] = "same-origin"
            BY <1>1, <2>3, BrowserTells DEF FetchSite
          <5> QED
            BY <5>1, <5>2 DEF SameOrigin
        <4>4. request.safe \in BOOLEAN
          BY <2>3, BrowserTells
        <4> QED
          BY <4>2, <4>3, <4>4 DEF OwnDoing
      <3>2. answer'.user = session /\ ~config.dev /\ Ambient
        BY <2>7, <3>1 DEF BySession, Decide
      <3> QED
        BY <2>2, <3>2 DEF Ambient, Me, SignedIn
    <2>8. CASE ByBearer
      <3>1. ~Valid(Absent)
        BY IdentityAssumption DEF Valid, ValidFor
      <3>2. answer'.user = Nobody /\ ~config.dev /\ ~Ambient
        BY <2>4, <2>8, <3>1 DEF ByBearer, Decide
      <3> QED
        BY <1>1, <2>2, <2>4, <3>2 DEF Ambient, Me
    <2> QED
      BY <1>1, <2>5, <2>6, <2>7, <2>8 DEF Authenticate
  <1>2. IdentityInv /\ [Next]_vars =>
          [config # Off /\ Authenticate /\ config.login # NoLogin /\ request.page = "own"
             /\ request.headers["origin"] # "null" => answer'.user = Me(request.headers)]_vars
    BY <1>1
  <1> QED
    BY <1>2, IdentityHolds, PTL DEF Spec, PageAndApiAgree

(* No accepted configuration refuses a token for this service alone, or a  *)
(* peer's token of the same person (with_options, validate, peer_token).   *)
THEOREM NobodyIsShutOut == Spec => UsersAreServed
  <1>1. ASSUME IdentityInv, [Next]_vars, Accepted(config) PROVE OrdinaryAdmitted
    <2>1. SUFFICES ASSUME Undecided, ~config.dev, Plain(request.headers),
                          Ordinary(request.headers["authorization"]), answer' # answer
                   PROVE  answer'.status = 200
      BY DEF OrdinaryAdmitted
    <2> DEFINE t == request.headers["authorization"]
    <2>2. ~Asserted
      BY <2>1 DEF Plain, Asserted
    <2>3. t # Absent /\ t \in Tokens
      BY <2>1, IdentityAssumption DEF Ordinary
    <2>4. Valid(t)
      <3>1. ValidFor(t, config.audience)
        BY <2>1 DEF Ordinary, ValidFor
      <3>2. \A i \in DOMAIN config.peers : config.peers[i].audience # config.audience
        BY <1>1 DEF Accepted, Refused, BadPeer
      <3> QED
        BY <2>1, <3>1, <3>2 DEF Ordinary, Valid
    <2>5. ByBearer
      <3>1. request # NoRequest /\ request.route = "api" /\ answer = Waiting
        BY <2>1 DEF Undecided
      <3>2. /\ ~\E c \in Configurations : WithOptions(c)
            /\ ~\E p \in Persons : SignIn(p)
            /\ ~SessionEnds
        BY <2>1 DEF WithOptions, SignIn, SessionEnds
      <3>3. ~BrowserSends /\ ~ClientSends
        <4>1. \A r : ~Begin(r)
          BY <3>1 DEF Begin
        <4> QED
          BY <4>1 DEF BrowserSends, ClientSends
      <3>4. ~(\E name \in PeerNames : PeerToken(name)) /\ ~Logout /\ ~NoRoute /\ ~Done
        BY <2>1, <3>1 DEF PeerToken, Logout, NoRoute, Done
      <3>5. ~UNCHANGED vars
        BY <2>1 DEF vars
      <3>6. Authenticate
        BY <1>1, <3>2, <3>3, <3>4, <3>5 DEF Next
      <3> QED
        BY <2>1, <2>2, <2>3, <3>6 DEF Authenticate, AsDev, ByAssertion, BySession, Ambient
    <2> QED
      BY <2>4, <2>5 DEF ByBearer, Decide
  <1>2. ASSUME IdentityInv, Accepted(config), NEW i \in DOMAIN config.peers
        PROVE  PeerAccepted(config.peers[i])
    <2> DEFINE peer == config.peers[i]
               t == Header(peer.header)
    <2>1. SUFFICES ASSUME PeerToken(peer.name), ~config.dev, t \in Tokens, t.fresh, t.of = answer.user,
                          answer.user.at = config.issuer, peer.audience \in t.aud
                   PROVE  forwarded'.token = t
      BY DEF PeerAccepted
    <2>2. i \in Named(peer.name)
      BY DEF Named
    <2>3. PeerNamed(peer.name) = peer
      BY <1>2, <2>2, FirstNamed
    <2>4. t \notin {Absent, Garbled}
      BY <2>1, IdentityAssumption
    <2>5. forwarded' = Inspect(t, peer)
      BY <2>1, <2>2, <2>3 DEF PeerToken
    <2> QED
      BY <2>1, <2>4, <2>5 DEF Inspect, ValidFor
  <1>3. IdentityInv /\ [Next]_vars =>
          [config # Off => /\ OrdinaryAdmitted
                           /\ \A i \in DOMAIN config.peers : PeerAccepted(config.peers[i])]_vars
    BY <1>1, <1>2 DEF IdentityInv, Configured
  <1> QED
    BY <1>3, IdentityHolds, PTL DEF Spec, UsersAreServed
=============================================================================
