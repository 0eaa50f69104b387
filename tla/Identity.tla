------------------------------ MODULE Identity ------------------------------
(***************************************************************************)
(* Who a request is answered as: JwksStore::with_options, the extractor    *)
(* AuthenticatedUser with its four paths (dev mode, a front end's          *)
(* assertion, a browser session, a bearer token), the token an upstream    *)
(* forwards for a peer, and the two browser routes that read the session   *)
(* cookie (POST /auth/logout, GET /auth/me).                               *)
(*                                                                         *)
(* A request carries the truth about its origin (the page that made it,    *)
(* for what use, by how old a browser) beside the headers the service      *)
(* sees; the code reads the headers only, the properties speak of the      *)
(* truth.  Signatures are taken as sound: a token or an assertion is the   *)
(* record of what it says.  A person is somebody at a provider; a subject  *)
(* names a person only together with the provider, and the code compares   *)
(* subjects alone.                                                         *)
(***************************************************************************)
EXTENDS Integers, Sequences

CONSTANTS
  Providers,       \* issuers; two of them may use the same subject
  Subjects,
  Tokens,          \* provider tokens: whose (of), for whom (aud), is exp ahead
  Assertions,      \* front ends' assertions: see Mint
  Configurations,  \* what with_options may be called with
  Calls,           \* what programs put in the headers of a request
  Absent,          \* no such header
  Opaque,          \* a header that is text, and nothing the service knows
  Garbled,         \* a header that is not text
  SessionCookie,   \* the session cookie of the browser looked at
  NoLogin,         \* no sign-in configured
  DevLogin,        \* a sign-in with dev_no_auth
  DevUser,         \* the stub user "dev"
  Nobody,
  Off,             \* no service yet
  NoRequest

Leeway == 60  \* seconds the JWT library still accepts after exp

Persons == [at : Providers, sub : Subjects]

Words == {"own", "sibling", "foreign", "user", "null", "same-origin", "same-site", "cross-site", "none",
          "document", "frame", "resource", "navigate", "cors"}

ASSUME IdentityAssumption ==
  /\ Tokens \subseteq [of : Persons, aud : SUBSET STRING, fresh : BOOLEAN]
  /\ Assertions \subseteq [by : STRING, of : Persons, aud : STRING, left : Int]
  /\ \A v \in {Absent, Opaque, Garbled} : v \notin Tokens \cup Assertions
  /\ {Nobody, DevUser} \cap Persons = {}
  /\ {NoLogin, DevLogin} \cap Providers = {}
  /\ Absent \notin {Opaque, Garbled, SessionCookie} \cup Words

Peers == [name : STRING, header : STRING, audience : STRING]

(* A front end signs its users in where the service's tokens come from:    *)
(* nothing in the code checks it (bff.rs).                                 *)
ASSUME ConfigurationsAssumption ==
  /\ Configurations \subseteq
       [dev : BOOLEAN, issuer : STRING, audience : STRING, login : {NoLogin, DevLogin} \cup Providers,
        bff : {Off} \cup [by : STRING, audience : STRING], peers : Seq(Peers)]
  /\ Off \notin Configurations
  /\ \A c \in Configurations, a \in Assertions :
       c.bff # Off /\ c.bff.by = a.by /\ c.issuer \in Providers => a.of.at = c.issuer

VARIABLES
  config,     \* the store's settings, Off before it is built
  session,    \* who is behind the browser's cookie, Nobody when none is live
  request,    \* the request being answered
  answer,     \* what the extractor, or /auth/logout, answered it
  forwarded   \* what peer_token returned for it

vars == <<config, session, request, answer, forwarded>>

---------------------------------------------------------------------------
(* Building the store *)

CredentialHeaders == {"authorization", "cookie", "x-bff-assertion"}

(* mutant: a real sign-in beside a store in dev mode is let through *)
DevLoginOutsideDev(c) == c.login = DevLogin /\ ~c.dev

(* The login must be in dev mode when the store is, and never otherwise. *)
LoginMismatched(c) == c.login # NoLogin /\ (c.login = DevLogin) # c.dev

(* mutant: the providers are not compared *)
ProvidersUnchecked(c) == FALSE

(* peer_token compares subjects: those of sessions must be the issuer's. *)
TwoProviders(c) == c.peers # <<>> /\ c.login \in Providers /\ c.login # c.issuer

(* mutant: a name may come twice *)
BadAlone(c, i) ==
  c.peers[i].audience \in {"", c.audience} \/ c.peers[i].header \in CredentialHeaders

BadPeer(c, i) ==
  LET peer == c.peers[i] IN
    \/ peer.audience \in {"", c.audience}
    \/ \E j \in 1..(i - 1) : \/ c.peers[j].name = peer.name
                             \/ c.peers[j].header = peer.header
    \/ peer.header \in CredentialHeaders

Refused(c) ==
  \/ LoginMismatched(c)
  \/ TwoProviders(c)
  \/ \E i \in DOMAIN c.peers : BadPeer(c, i)

WithOptions(c) ==
  /\ config = Off
  /\ ~Refused(c)
  /\ config' = c
  /\ UNCHANGED <<session, request, answer, forwarded>>

---------------------------------------------------------------------------
(* Credentials *)

(* A front end vouches for p to aud for ttl seconds; left is what remains. *)
Mint(by, p, aud, ttl) == [by |-> by, of |-> p, aud |-> aud, left |-> ttl]

(* BffTrust::verify: signed by the trusted front end, for this service,    *)
(* not expired (the library grants its leeway).                            *)
Vouched(a) ==
  /\ a \in Assertions
  /\ a.by = config.bff.by
  /\ a.aud = config.bff.audience
  /\ a.left >= -Leeway

(* JwksStore::validate_for, the key found: see JwksStore for the key.      *)
ValidFor(t, audience) ==
  /\ t \in Tokens
  /\ t.of.at = config.issuer
  /\ audience \in t.aud
  /\ t.fresh

(* mutant: a token also issued for a peer will do *)
ValidHere(t) == ValidFor(t, config.audience)

(* JwksStore::validate: a token also issued for a peer is no credential.   *)
Valid(t) ==
  /\ ValidFor(t, config.audience)
  /\ \A i \in DOMAIN config.peers : config.peers[i].audience \notin t.aud

(* same_origin *)
SameOrigin(h) ==
  \/ h["origin"] = "own"
  \/ h["origin"] = Absent /\ h["sec-fetch-site"] = "same-origin"

(* mutant: every navigation counts as top-level, a frame's too *)
Navigates(h) == h["sec-fetch-mode"] = "navigate"

(* embedded_by_another_site: refuses on evidence only.                     *)
TopLevel(h) ==
  /\ h["sec-fetch-mode"] = "navigate"
  /\ h["sec-fetch-dest"] \in {Absent, "document"}

EmbeddedByAnotherSite(h) ==
  h["sec-fetch-site"] \in {"same-site", "cross-site"} /\ ~TopLevel(h)

(* The live session behind the cookie: cookie::read and SessionStore::get. *)
SignedIn(h) == IF h["cookie"] = SessionCookie THEN session ELSE Nobody

(* GET /auth/me *)
Me(h) == IF config.login = DevLogin THEN DevUser ELSE SignedIn(h)

---------------------------------------------------------------------------
(* Sessions, which the browser may start between requests and lose at any  *)
(* time.  A request under way names the old session, which a sign-in       *)
(* retires: for that request it is SessionEnds.                            *)

(* A callback stored a session and set its cookie (see SignIn). *)
SignIn(p) ==
  /\ config # Off
  /\ request = NoRequest
  /\ config.login = p.at
  /\ session' = p
  /\ UNCHANGED <<config, request, answer, forwarded>>

(* The session expires, is retired or evicted (see SessionStore). *)
SessionEnds ==
  /\ session # Nobody
  /\ session' = Nobody
  /\ UNCHANGED <<config, request, answer, forwarded>>

---------------------------------------------------------------------------
(* Requests *)

Bare == [n \in CredentialHeaders \cup {"origin", "sec-fetch-site", "sec-fetch-mode", "sec-fetch-dest"} |-> Absent]

Waiting == [status |-> 0, user |-> Nobody, by |-> "nothing"]
NotAsked == [status |-> 0, token |-> Absent]

Begin(r) ==
  /\ config # Off
  /\ request = NoRequest
  /\ request' = r
  /\ answer' = Waiting
  /\ forwarded' = NotAsked
  /\ UNCHANGED <<config, session>>

(* What a browser sends for a page.  Vintage: an old browser knows neither *)
(* Fetch Metadata nor SameSite, an early one sends no destination.  Origin *)
(* goes with every write, unless a browser with metadata omits it; a page  *)
(* may have it replaced by "null".                                         *)
FetchSite == [own |-> "same-origin", sibling |-> "same-site", foreign |-> "cross-site", user |-> "none"]

CookieGoes(page, use, safe, vintage) ==
  vintage = "old" \/ page # "foreign" \/ (use = "document" /\ safe)

Origins(page, safe, vintage) ==
  IF safe THEN {Absent} ELSE {page, "null"} \cup (IF vintage = "old" THEN {} ELSE {Absent})

BrowserHeaders(page, use, safe, vintage, origin) ==
  [Bare EXCEPT
    !["origin"] = origin,
    !["cookie"] = IF CookieGoes(page, use, safe, vintage) THEN SessionCookie ELSE Absent,
    !["sec-fetch-site"] = IF vintage = "old" THEN Absent ELSE FetchSite[page],
    !["sec-fetch-mode"] =
      IF vintage = "old" THEN Absent ELSE IF use = "resource" THEN "cors" ELSE "navigate",
    !["sec-fetch-dest"] = IF vintage # "full" THEN Absent ELSE use]

BrowserSends ==
  \E page \in DOMAIN FetchSite, use \in {"document", "frame", "resource"}, safe \in BOOLEAN,
     vintage \in {"old", "early", "full"}, route \in {"api", "logout"} :
    /\ page = "user" => use = "document" /\ safe
    /\ route = "logout" => ~safe
    /\ \E origin \in Origins(page, safe, vintage) :
         Begin([route |-> route, page |-> page, use |-> use, safe |-> safe, vintage |-> vintage,
                headers |-> BrowserHeaders(page, use, safe, vintage, origin)])

(* A program, or an upstream, puts in the headers what it likes. *)
ClientSends ==
  \E h \in Calls :
    Begin([route |-> "api", page |-> "none", use |-> "call", safe |-> TRUE, vintage |-> "none",
           headers |-> [n \in DOMAIN Bare \cup DOMAIN h |->
                          IF n \in DOMAIN h THEN h[n] ELSE Bare[n]]])

---------------------------------------------------------------------------
(* AuthenticatedUser: one action per path, in the extractor's order *)

Undecided == request # NoRequest /\ request.route = "api" /\ answer = Waiting

Decide(status, user, by) ==
  /\ answer' = [status |-> status, user |-> user, by |-> by]
  /\ UNCHANGED <<config, session, request, forwarded>>

AsDev ==
  /\ Undecided
  /\ config.dev
  /\ Decide(200, DevUser, "dev")

(* An assertion that is not text is no assertion: the next path is tried. *)
Asserted == config.bff # Off /\ request.headers["x-bff-assertion"] \notin {Absent, Garbled}

ByAssertion ==
  /\ Undecided
  /\ ~config.dev
  /\ Asserted
  /\ LET a == request.headers["x-bff-assertion"] IN
       \/ Vouched(a) /\ Decide(200, a.of, "assertion")
       \/ ~Vouched(a) /\ Decide(401, Nobody, "assertion")

(* mutant: the session is tried first whatever else the request names *)
CookieFirst == config.login # NoLogin /\ SignedIn(request.headers) # Nobody

(* The cookie is looked at only beside no Authorization at all, and counts *)
(* only with a live session behind it.                                     *)
Ambient ==
  /\ request.headers["authorization"] = Absent
  /\ config.login # NoLogin
  /\ SignedIn(request.headers) # Nobody

(* A write must come from this origin; a read must not be embedded by      *)
(* another site.                                                           *)
OwnDoing(r) ==
  \/ r.safe /\ ~EmbeddedByAnotherSite(r.headers)
  \/ ~r.safe /\ SameOrigin(r.headers)

(* Login::authenticate *)
BySession ==
  /\ Undecided
  /\ ~config.dev
  /\ ~Asserted
  /\ Ambient
  /\ \/ OwnDoing(request) /\ Decide(200, session, "session")
     \/ ~OwnDoing(request) /\ Decide(403, Nobody, "session")

ByBearer ==
  /\ Undecided
  /\ ~config.dev
  /\ ~Asserted
  /\ ~Ambient
  /\ LET t == request.headers["authorization"] IN
       \/ Valid(t) /\ Decide(200, t.of, "bearer")
       \/ ~Valid(t) /\ Decide(401, Nobody, "bearer")

---------------------------------------------------------------------------
(* JwksStore::peer_token, called by the handler of an admitted request *)

Named(name) == {i \in DOMAIN config.peers : config.peers[i].name = name}

(* The first peer of that name. *)
PeerNamed(name) == config.peers[CHOOSE i \in Named(name) : \A j \in Named(name) : i <= j]

Header(name) ==
  IF name \in DOMAIN request.headers THEN request.headers[name] ELSE Absent

Inspect(t, peer) ==
  CASE t = Absent -> [status |-> 200, token |-> Absent]
    [] t = Garbled -> [status |-> 401, token |-> Absent]
    [] t \notin {Absent, Garbled} /\ config.dev -> [status |-> 200, token |-> t]
    [] OTHER -> IF ValidFor(t, peer.audience) /\ t.of.sub = answer.user.sub
                THEN [status |-> 200, token |-> t]
                ELSE [status |-> 401, token |-> Absent]

PeerToken(name) ==
  /\ request # NoRequest
  /\ request.route = "api"
  /\ answer.status = 200
  /\ forwarded' = IF Named(name) = {} THEN [status |-> 500, token |-> Absent]
                  ELSE Inspect(Header(PeerNamed(name).header), PeerNamed(name))
  /\ UNCHANGED <<config, session, request, answer>>

---------------------------------------------------------------------------
(* POST /auth/logout *)

(* mutant: only the metadata is looked at, and only when it is there *)
NotEmbedded(h) == ~EmbeddedByAnotherSite(h)

MaySignOut(h) == config.login = DevLogin \/ SameOrigin(h)

Logout ==
  /\ request # NoRequest
  /\ request.route = "logout"
  /\ answer = Waiting
  /\ config.login # NoLogin
  /\ \/ /\ ~MaySignOut(request.headers)
        /\ answer' = [status |-> 403, user |-> Nobody, by |-> "logout"]
        /\ UNCHANGED session
     \/ /\ MaySignOut(request.headers)
        /\ answer' = [status |-> 204, user |-> Nobody, by |-> "logout"]
        /\ session' = IF request.headers["cookie"] = SessionCookie THEN Nobody ELSE session
  /\ UNCHANGED <<config, request, forwarded>>

(* Without a sign-in there is no such route. *)
NoRoute ==
  /\ request # NoRequest
  /\ request.route = "logout"
  /\ answer = Waiting
  /\ config.login = NoLogin
  /\ Decide(404, Nobody, "nothing")

Done ==
  /\ request # NoRequest
  /\ answer # Waiting
  /\ request' = NoRequest
  /\ answer' = Waiting
  /\ forwarded' = NotAsked
  /\ UNCHANGED <<config, session>>

---------------------------------------------------------------------------

Init ==
  /\ config = Off
  /\ session = Nobody
  /\ request = NoRequest
  /\ answer = Waiting
  /\ forwarded = NotAsked

Authenticate == AsDev \/ ByAssertion \/ BySession \/ ByBearer

PeerNames == UNION {{c.peers[i].name : i \in DOMAIN c.peers} : c \in Configurations} \cup {"unconfigured"}

Next ==
  \/ \E c \in Configurations : WithOptions(c)
  \/ \E p \in Persons : SignIn(p)
  \/ SessionEnds
  \/ BrowserSends
  \/ ClientSends
  \/ Authenticate
  \/ \E name \in PeerNames : PeerToken(name)
  \/ Logout
  \/ NoRoute
  \/ Done

Spec == Init /\ [][Next]_vars
---------------------------------------------------------------------------
(* Properties *)

Browsed(r) == r # NoRequest /\ r.page # "none"

(***************************************************************************)
(* A browser attaches the session cookie for any page.  A request answered *)
(* as the session's user was either made by the service's own page or by   *)
(* the user, or it is a top-level visit that reads; what another page      *)
(* embeds gets through only where the browser gives no evidence: an old    *)
(* browser's read, or an early one's frame, whose destination it does not  *)
(* say.  A write never gets through, whatever the browser.                 *)
(***************************************************************************)
AmbientNeedsOwnPage ==
  Browsed(request) /\ answer.by = "session" /\ answer.status = 200 =>
    \/ request.page \in {"own", "user"}
    \/ /\ request.safe
       /\ \/ request.use = "document"
          \/ request.vintage = "old"
          \/ request.vintage = "early" /\ request.use = "frame"

(***************************************************************************)
(* Only the service's own page can sign its user out: no other page's      *)
(* request to /auth/logout ends the session, with or without metadata.     *)
(***************************************************************************)
OnlyOwnPageSignsOut ==
  [][Logout /\ session # session' => request.page = "own"]_vars

(***************************************************************************)
(* A request that names a credential is judged on the strongest it names   *)
(* and on that alone: an assertion, a token or a cookie further down never *)
(* rescues it and never lends it another identity.  Outside dev mode, the  *)
(* user answered is the one the deciding credential is for.                *)
(***************************************************************************)
Strongest(h) ==
  IF config.bff # Off /\ h["x-bff-assertion"] \notin {Absent, Garbled} THEN h["x-bff-assertion"]
  ELSE h["authorization"]

NoFallThrough ==
  request # NoRequest /\ answer.status = 200 /\ ~config.dev
    /\ Strongest(request.headers) # Absent =>
       /\ Strongest(request.headers) \in Tokens \cup Assertions
       /\ answer.user = Strongest(request.headers).of

(***************************************************************************)
(* The token accepted for a peer on one request is never a credential on   *)
(* the next, so a service it is forwarded to cannot use it here as its     *)
(* user's own.                                                             *)
(***************************************************************************)
PeerTokenIsNoCredential ==
  request # NoRequest /\ ~config.dev /\ forwarded.token \in Tokens => ~Valid(forwarded.token)

(***************************************************************************)
(* A peer's token is accepted only beside the person it is for: not        *)
(* somebody else's, and not that of a namesake at another provider, though *)
(* the code compares subjects alone.                                       *)
(***************************************************************************)
PeerIsTheUser ==
  request # NoRequest /\ ~config.dev /\ forwarded.token \in Tokens =>
    answer.user = forwarded.token.of

(***************************************************************************)
(* No configuration that with_options accepts shuts out its own users: a   *)
(* token for this service alone is admitted, and the same person's token   *)
(* for a peer, in the header that peer was configured with, is accepted    *)
(* under that peer's name.                                                 *)
(***************************************************************************)
Ordinary(t) ==
  t \in Tokens /\ t.fresh /\ t.of.at = config.issuer /\ t.aud = {config.audience}

Plain(h) == config.bff = Off \/ h["x-bff-assertion"] \in {Absent, Garbled}

OrdinaryAdmitted ==
  Undecided /\ ~config.dev /\ Plain(request.headers) /\ Ordinary(request.headers["authorization"])
    /\ answer' # answer => answer'.status = 200

PeerAccepted(peer) ==
  PeerToken(peer.name) /\ ~config.dev /\ Header(peer.header) \in Tokens
    /\ Header(peer.header).fresh /\ Header(peer.header).of = answer.user
    /\ answer.user.at = config.issuer /\ peer.audience \in Header(peer.header).aud =>
       forwarded'.token = Header(peer.header)

UsersAreServed ==
  [][config # Off => /\ OrdinaryAdmitted
                     /\ \A i \in DOMAIN config.peers : PeerAccepted(config.peers[i])]_vars

(***************************************************************************)
(* The page and the API agree on who is signed in: where the service's own *)
(* page asks /auth/me and calls the API with nothing but its cookie and    *)
(* its unaltered origin, the API answers as that user, or refuses where    *)
(* /auth/me names nobody.                                                  *)
(***************************************************************************)
PageAndApiAgree ==
  [][config # Off /\ Authenticate /\ config.login # NoLogin /\ request.page = "own"
       /\ request.headers["origin"] # "null" =>
         answer'.user = Me(request.headers)]_vars
=============================================================================
