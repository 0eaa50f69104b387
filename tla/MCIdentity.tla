----------------------------- MODULE MCIdentity -----------------------------
(* Two providers with the same two subjects, the service "api" with up to  *)
(* two peers, every kind of sign-in, and the configurations with_options   *)
(* has to refuse beside those it accepts.                                  *)
EXTENDS Identity

MCProviders == {"home", "elsewhere"}
MCSubjects == {"ann", "bob"}

Ann == [at |-> "home", sub |-> "ann"]
Bob == [at |-> "home", sub |-> "bob"]
Namesake == [at |-> "elsewhere", sub |-> "ann"]

Token(p, aud, fresh) == [of |-> p, aud |-> aud, fresh |-> fresh]

MCTokens ==
  {Token(Ann, {"api"}, TRUE), Token(Ann, {"api"}, FALSE), Token(Bob, {"api"}, TRUE),
   Token(Namesake, {"api"}, TRUE), Token(Ann, {"mail"}, TRUE), Token(Ann, {"mail", "api"}, TRUE),
   Token(Bob, {"mail"}, TRUE), Token(Namesake, {"mail"}, TRUE), Token(Ann, {"disk"}, TRUE)}

(* The front end signs its users in at home, and mints for ten seconds;    *)
(* one assertion arrives within the leeway after that and one beyond it.   *)
Minted == Mint("front", Ann, "api", 10)

MCAssertions ==
  {Minted, Mint("front", Bob, "api", 10), [Minted EXCEPT !.left = -60], [Minted EXCEPT !.left = -61],
   [Minted EXCEPT !.aud = "mail"], [Minted EXCEPT !.by = "other"]}

Peering(name, header, audience) == [name |-> name, header |-> header, audience |-> audience]
Mail == Peering("mail", "x-mail-token", "mail")

MCPeers ==
  {<<>>, <<Mail>>, <<Mail, Peering("disk", "x-disk-token", "disk")>>,
   <<Peering("mail", "x-mail-token", "api")>>, <<Peering("mail", "x-mail-token", "")>>,
   <<Mail, Peering("mail", "x-disk-token", "disk")>>, <<Mail, Peering("disk", "x-mail-token", "disk")>>,
   <<Peering("mail", "authorization", "mail")>>}

MCConfigurations ==
  [dev : BOOLEAN, issuer : {"home", ""}, audience : {"api"}, login : {NoLogin, DevLogin} \cup MCProviders,
   bff : {Off, [by |-> "front", audience |-> "api"]}, peers : MCPeers]

(* Calls that try the extractor, and calls that bring a peer's token       *)
(* beside credentials that are mostly good.                                *)
Texts == {Absent, Opaque, Garbled}

Call(t, a, c) ==
  [n \in CredentialHeaders |-> CASE n = "authorization" -> t [] n = "x-bff-assertion" -> a [] n = "cookie" -> c]

With(h, n, v) == [k \in DOMAIN h \cup {n} |-> IF k = n THEN v ELSE h[k]]

MCCalls ==
  {Call(t, a, c) : t \in Texts \cup MCTokens, a \in Texts \cup MCAssertions, c \in {Absent, SessionCookie}}
  \cup {With(Call(t, a, c), "x-mail-token", v) :
           t \in {Absent} \cup {u \in MCTokens : u.aud = {"api"} /\ u.fresh}, a \in {Absent, Minted},
           c \in {Absent, SessionCookie}, v \in {Opaque, Garbled} \cup {u \in MCTokens : u.aud # {"api"}}}
  \cup {With(Call(t, Absent, SessionCookie), "x-disk-token", v) :
           t \in {Absent, Token(Ann, {"api"}, TRUE)}, v \in {u \in MCTokens : u.of = Ann}}
=============================================================================
