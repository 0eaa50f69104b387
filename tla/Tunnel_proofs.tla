---------------------------- MODULE Tunnel_proofs ---------------------------
(***************************************************************************)
(* Theorems about the tunnel: its self-heal and its health (Watchdog), and *)
(* the way of a packet through the device and the socket (PacketPath), for *)
(* every set of addresses, all thresholds, and packets of every length and *)
(* any number.  The two specifications share no variable; here they share  *)
(* a module, and the theorems of each stand on their own.                  *)
(***************************************************************************)
EXTENDS Watchdog, PacketPath, FiniteSetTheorems, SequenceTheorems, TLAPS


LEMMA OlderType ==
    ASSUME NEW cap \in Nat, NEW age \in 0..cap
    PROVE  Older(age, cap) \in 0..cap /\ age <= Older(age, cap)
  BY DEF Older, Never

LEMMA OlderHandshake ==
    ASSUME NEW age \in Handshakes
    PROVE  Older(age, Stale) \in Handshakes /\ (~Live(age) => ~Live(Older(age, Stale)))
  BY TimesAssumption DEF Older, Handshakes, Live, Never

\* Type correctness: ages stay within their thresholds and every endpoint the
\* tunnel is aimed at is one a lookup or the configuration gave (forward.rs:566-596).
THEOREM TypeCorrect == Spec => []TypeOK
  <1> USE HostsAssumption, TimesAssumption
  <1>1. Init => TypeOK
    <2> SUFFICES ASSUME Init PROVE TypeOK
      OBVIOUS
    <2>1. 0 \in 0..Stale /\ 0 \in 0..After + 1 /\ 0 \in 0..Backoff
              /\ 0 \in 0..Fresh + 1 /\ Fresh + 1 \in 0..Fresh + 1
      OBVIOUS
    <2> QED
      BY <2>1 DEF Init, TypeOK, Handshakes
  <1>2. TypeOK /\ [Next]_vars => TypeOK'
    <2> SUFFICES ASSUME TypeOK, [Next]_vars PROVE TypeOK'
      OBVIOUS
    <2> USE DEF world, tunnel, task, health, history
    <2>0. 0 \in Handshakes /\ Never \in Handshakes /\ 0 \in 0..After + 1 /\ 0 \in 0..Backoff
              /\ 0 \in 0..Fresh + 1
      BY DEF Handshakes
    <2>1. CASE PublishAge
      BY <2>1 DEF PublishAge, Stores, TypeOK
    <2>2. CASE PublishTime
      BY <2>2 DEF PublishTime, Stores, TypeOK
    <2>3. CASE RecvFails \/ Wakes \/ Dies
      BY <2>3 DEF RecvFails, Wakes, Dies, TypeOK
    <2>4. CASE Resolve
      <3>1. Resolved \subseteq Hosts
        BY DEF Resolved, Fallback, TypeOK
      <3> QED
        BY <2>4, <3>1 DEF Resolve, TypeOK
    <2>5. CASE Bound
      BY <2>5, <2>0 DEF Bound, TypeOK
    <2>6. CASE BindFails
      BY <2>6 DEF BindFails, TypeOK
    <2>7. CASE Handshake \/ Wedge
      BY <2>7, <2>0 DEF Handshake, Wedge, TypeOK
    <2>8. CASE ProbeBegins \/ ProbeEnds
      BY <2>8 DEF ProbeBegins, ProbeEnds, TypeOK
    <2>9. CASE WorldChanges
      <3>1. box' \in Hosts /\ dns' \in {"current", "old", "fails"} /\ net' \in BOOLEAN /\ busy' \in BOOLEAN
        BY <2>9 DEF WorldChanges, TypeOK
      <3> QED
        BY <2>9, <3>1 DEF WorldChanges, TypeOK
    <2>10. CASE Tick
      <3>1. /\ handshake' \in Handshakes
            /\ sick' \in 0..After + 1 /\ built' \in 0..After + 1
            /\ since' \in 0..Fresh + 1 /\ seen' \in 0..Fresh + 1
        BY <2>10, OlderType, OlderHandshake DEF Tick, TypeOK
      <3>2. /\ Older(slept, Backoff) \in 0..Backoff /\ slept \in 0..Backoff
            /\ Older(gone, Fresh + 1) \in 0..Fresh + 1 /\ gone \in 0..Fresh + 1
        BY OlderType DEF TypeOK
      <3>3. slept' \in 0..Backoff /\ gone' \in 0..Fresh + 1
        BY <2>10, <3>2 DEF Tick
      <3> QED
        BY <2>10, <3>1, <3>3 DEF Tick, TypeOK
    <2>11. CASE UNCHANGED vars
      BY <2>11 DEF vars, TypeOK
    <2> QED
      BY <2>1, <2>2, <2>3, <2>4, <2>5, <2>6, <2>7, <2>8, <2>9, <2>10, <2>11
         DEF Next, TaskStep
  <1> QED
    BY <1>1, <1>2, PTL DEF Spec
-----------------------------------------------------------------------------
\* A live published age is no older than its time stamp says, and between the two
\* stores it is brand new.
StampCoversReading ==
    /\ Live(published) => seen <= since
    /\ pc = "stamp" /\ Live(published) => seen = 0
CheckedFresh == probe = "alive" => since < Fresh
StampBeforeDeath == gone <= since /\ (pc # "dead" => gone = 0)

HealthInv == StampCoversReading /\ CheckedFresh /\ StampBeforeDeath

LEMMA HealthStep ==
    ASSUME TypeOK, HealthInv, [Next]_vars
    PROVE  HealthInv'
  <1> USE TimesAssumption
      DEF HealthInv, StampCoversReading, CheckedFresh, StampBeforeDeath,
          world, tunnel, task, health, history
  <1>1. CASE PublishAge
    BY <1>1 DEF PublishAge, Stores, TypeOK
  <1>2. CASE PublishTime
    BY <1>2 DEF PublishTime, Stores, TypeOK
  <1>3. CASE RecvFails \/ Resolve \/ Wakes \/ Dies \/ BindFails
    BY <1>3 DEF RecvFails, Resolve, Wakes, Dies, BindFails
  <1>4. CASE Bound
    BY <1>4 DEF Bound
  <1>5. CASE Handshake \/ Wedge \/ ProbeEnds \/ WorldChanges
    BY <1>5 DEF Handshake, Wedge, ProbeEnds, WorldChanges
  <1>6. CASE ProbeBegins
    BY <1>6 DEF ProbeBegins, Alive
  <1>7. CASE Tick
    <2>1. /\ pc' = pc /\ pc # "stamp" /\ published' = published /\ probe' = "idle"
          /\ since' = Older(since, Fresh + 1) /\ seen' = Older(seen, Fresh + 1)
          /\ gone' = IF pc = "dead" THEN Older(gone, Fresh + 1) ELSE gone
      BY <1>7 DEF Tick
    <2>2. seen <= since => seen' <= since'
      BY <2>1 DEF Older, TypeOK, Never
    <2>3. gone' <= since'
      BY <2>1 DEF Older, TypeOK, Never
    <2> QED
      BY <2>1, <2>2, <2>3
  <1>8. CASE UNCHANGED vars
    BY <1>8 DEF vars
  <1> QED
    BY <1>1, <1>2, <1>3, <1>4, <1>5, <1>6, <1>7, <1>8 DEF Next, TaskStep

LEMMA HealthInvariant == Spec => []HealthInv
  <1>1. Init => HealthInv
    BY TimesAssumption
       DEF Init, HealthInv, StampCoversReading, CheckedFresh, StampBeforeDeath, Live
  <1>2. TypeOK /\ HealthInv /\ [Next]_vars => HealthInv'
    BY HealthStep
  <1> QED
    BY <1>1, <1>2, TypeCorrect, PTL DEF Spec

\* Health never passes off an old reading as a live tunnel (forward.rs:150-167).
THEOREM FossilsNeverPass == Spec => NoFossil
  <1>1. TypeOK /\ HealthInv => (ProbeEnds /\ SaysOk => seen < Fresh)
    BY TimesAssumption
       DEF TypeOK, HealthInv, StampCoversReading, CheckedFresh, ProbeEnds, SaysOk
  <1> QED
    BY <1>1, TypeCorrect, HealthInvariant, PTL DEF NoFossil

\* A stack task dead for HEALTH_FRESH_MS is not taken to be alive (forward.rs:140-148).
THEOREM DeathShows == Spec => DeadIsNoticed
  <1>1. TypeOK /\ HealthInv => (ProbeBegins => gone < Fresh)
    BY TimesAssumption DEF TypeOK, HealthInv, StampBeforeDeath, ProbeBegins, Alive
  <1> QED
    BY <1>1, TypeCorrect, HealthInvariant, PTL DEF DeadIsNoticed
-----------------------------------------------------------------------------
\* Between the watchdog's judgement and the bounce no handshake completes, and no
\* tunnel is older than the time it has been judged by.
StillIll == pc \in {"resolve", "bind"} /\ cause = "watchdog" => ~Live(handshake)
SickSinceBuilt == sick <= built

BounceInv == StillIll /\ SickSinceBuilt

LEMMA BounceStep ==
    ASSUME TypeOK, BounceInv, [Next]_vars
    PROVE  BounceInv'
  <1> USE TimesAssumption
      DEF BounceInv, StillIll, SickSinceBuilt, world, tunnel, task, health, history
  <1>1. CASE PublishAge \/ RecvFails \/ Wakes \/ Dies
    BY <1>1 DEF PublishAge, RecvFails, Wakes, Dies
  <1>2. CASE PublishTime
    BY <1>2 DEF PublishTime, Healthy, TypeOK
  <1>3. CASE Resolve \/ BindFails
    BY <1>3 DEF Resolve, BindFails
  <1>4. CASE Bound
    BY <1>4 DEF Bound
  <1>5. CASE Handshake \/ Wedge
    BY <1>5 DEF Handshake, Wedge
  <1>6. CASE ProbeBegins \/ ProbeEnds \/ WorldChanges
    BY <1>6 DEF ProbeBegins, ProbeEnds, WorldChanges
  <1>7. CASE Tick
    <2>1. /\ UNCHANGED <<pc, cause>>
          /\ handshake' = Older(handshake, Stale)
          /\ sick' = Older(sick, After + 1) /\ built' = Older(built, After + 1)
      BY <1>7 DEF Tick
    <2>2. ~Live(handshake) => ~Live(handshake')
      BY <2>1, OlderHandshake DEF TypeOK
    <2>3. sick' <= built'
      BY <2>1 DEF Older, TypeOK, Never
    <2> QED
      BY <2>1, <2>2, <2>3 DEF Live
  <1>8. CASE UNCHANGED vars
    BY <1>8 DEF vars
  <1> QED
    BY <1>1, <1>2, <1>3, <1>4, <1>5, <1>6, <1>7, <1>8 DEF Next, TaskStep

LEMMA BounceInvariant == Spec => []BounceInv
  <1>1. Init => BounceInv
    BY DEF Init, BounceInv, StillIll, SickSinceBuilt
  <1>2. TypeOK /\ BounceInv /\ [Next]_vars => BounceInv'
    BY BounceStep
  <1> QED
    BY <1>1, <1>2, TypeCorrect, PTL DEF Spec

\* The watchdog's bounce never costs a live session (forward.rs:385-387).
THEOREM LiveIsKept == Spec => LiveTunnelKept
  <1>1. BounceInv => (Bound /\ cause = "watchdog" => ~Live(handshake))
    BY DEF BounceInv, StillIll, Bound
  <1> QED
    BY <1>1, BounceInvariant, PTL DEF LiveTunnelKept

\* Every tunnel has its grace (forward.rs:56-59).
THEOREM GraceIsGiven == Spec => GraceForEveryTunnel
  <1>1. TypeOK /\ BounceInv => (PublishTime /\ pc' = "resolve" => built > After)
    BY TimesAssumption DEF TypeOK, BounceInv, SickSinceBuilt, PublishTime, Overdue
  <1> QED
    BY <1>1, TypeCorrect, BounceInvariant, PTL DEF GraceForEveryTunnel
-----------------------------------------------------------------------------
(***************************************************************************)
(* Induction over the numbers, as a fact about a set: were k not in S, the *)
(* numbers of 0..k that are would map one to one to those of them but 0.   *)
(***************************************************************************)
LEMMA SetInduction ==
    ASSUME NEW S, 0 \in S, \A n \in Nat : n \in S => n + 1 \in S, NEW k \in Nat
    PROVE  k \in S
  <1> SUFFICES ASSUME k \notin S PROVE FALSE
    OBVIOUS
  <1> DEFINE T == {i \in 0..k : i \in S}
             f == [i \in T |-> i + 1]
  <1>1. IsFiniteSet(T)
    <2>1. IsFiniteSet(0..k) /\ T \in SUBSET (0..k)
      BY FS_Interval
    <2> QED
      BY <2>1, FS_Subset
  <1>2. IsFiniteSet(T \ {0}) /\ Cardinality(T \ {0}) = Cardinality(T) - 1
    <2>1. 0 \in T
      OBVIOUS
    <2> HIDE DEF T
    <2> QED
      BY <1>1, <2>1, FS_RemoveElement
  <1>3. Cardinality(T) \in Nat
    BY <1>1, FS_CardinalityType
  <1>4. f \in [T -> T \ {0}]
    <2>1. ASSUME NEW i \in T PROVE i + 1 \in T \ {0}
      <3>1. i \in Nat /\ i \in S /\ i # k /\ i <= k
        OBVIOUS
      <3>2. i + 1 \in S
        BY <3>1
      <3> QED
        BY <3>1, <3>2
    <2> QED
      BY <2>1
  <1>5. \E x, y \in T : x # y /\ f[x] = f[y]
    <2> HIDE DEF T, f
    <2> QED
      BY <1>1, <1>2, <1>3, <1>4, FS_PigeonHole
  <1> QED
    BY <1>5

\* What lies between two places of a row depends on nothing else.
LEMMA SubSeqShifted ==
    ASSUME NEW s, NEW t, NEW m \in Int, NEW n \in Int, NEW k \in Int, NEW l \in Int,
           l - k = n - m, \A j \in m..n : s[j] = t[j + (k - m)] /\ s[j] \in Int
    PROVE  SubSeq(s, m, n) = SubSeq(t, k, l)
  <1>1. CASE n < m
    <2>1. l < k
      BY <1>1
    <2> QED
      BY <1>1, <2>1, SubSeqEmpty
  <1>2. CASE m <= n
    <2> DEFINE u == SubSeq(s, m, n)
               v == SubSeq(t, k, l)
    <2>0. k <= l /\ l - k + 1 = n - m + 1
      BY <1>2
    <2>1. \A j \in k..l : t[j] \in Int
      <3>1. \A j \in k..l : j - (k - m) \in m..n /\ (j - (k - m)) + (k - m) = j
        OBVIOUS
      <3> QED
        BY <3>1
    <2>2. u \in Seq(Int) /\ Len(u) = n - m + 1 /\ \A i \in 1..n - m + 1 : u[i] = s[m + i - 1]
      BY <1>2, SubSeqProperties
    <2>3. v \in Seq(Int) /\ Len(v) = n - m + 1 /\ \A i \in 1..n - m + 1 : v[i] = t[k + i - 1]
      BY <2>0, <2>1, SubSeqProperties
    <2> HIDE DEF u, v
    <2>4. ASSUME NEW i \in 1..n - m + 1 PROVE u[i] = v[i]
      <3>1. m + i - 1 \in m..n /\ k + i - 1 = (m + i - 1) + (k - m)
        OBVIOUS
      <3> QED
        BY <2>2, <2>3, <3>1
    <2> QED
      BY <2>2, <2>3, <2>4, SeqEqual DEF u, v
  <1> QED
    BY <1>1, <1>2

LEMMA SubSeqAgree ==
    ASSUME NEW s, NEW t, NEW m \in Int, NEW n \in Int,
           \A j \in m..n : s[j] = t[j] /\ s[j] \in Int
    PROVE  SubSeq(s, m, n) = SubSeq(t, m, n)
  <1>1. \A j \in m..n : j + (m - m) = j
    OBVIOUS
  <1>2. \A j \in m..n : s[j] = t[j + (m - m)] /\ s[j] \in Int
    BY <1>1
  <1> QED
    BY <1>2, SubSeqShifted

\* A row that is not empty is its first and the rest.
LEMMA HeadAndTail ==
    ASSUME NEW S, NEW s \in Seq(S), s # <<>>
    PROVE  Head(s) \in S /\ Tail(s) \in Seq(S) /\ s = <<Head(s)>> \o Tail(s)
  <1>1. Len(s) \in Nat \ {0} /\ Head(s) = s[1]
    BY EmptySeq
  <1>2. Head(s) \in S /\ Tail(s) = SubSeq(s, 2, Len(s)) /\ Tail(s) \in Seq(S)
    BY HeadTailProperties, TailIsSubSeq
  <1>3. SubSeq(s, 1, Len(s)) = <<s[1]>> \o SubSeq(s, 2, Len(s))
    <2>1. 1 \in 1..Len(s) /\ Len(s) \in 1..Len(s) /\ 1 + 1 = 2
      BY <1>1
    <2> QED
      BY <2>1, SubSeqRecursiveFirst
  <1> QED
    BY <1>1, <1>2, <1>3, SubSeqFull
-----------------------------------------------------------------------------
(***************************************************************************)
(* A token and the packets it stands for.  The packets' ends are the sums  *)
(* of their lengths; the token carries a sequence of packets when its      *)
(* bytes, cut at the ends, are those packets and nothing is left over.     *)
(***************************************************************************)
Tokens == [lengths : Seq(Nat), bytes : Seq(Int), buffer : Seq(Int)]

IsEnds(q, e) ==
    /\ e \in [0..Len(q.lengths) -> 0..Len(q.bytes)]
    /\ e[0] = 0
    /\ \A i \in DOMAIN q.lengths : e[i] = e[i - 1] + q.lengths[i]

CutAt(q, e) == [i \in DOMAIN q.lengths |-> SubSeq(q.bytes, e[i - 1] + 1, e[i])]

InStep(q) == \E e : IsEnds(q, e) /\ e[Len(q.lengths)] = Len(q.bytes)

\* There is one way to cut a token.
LEMMA EndsAreUnique ==
    ASSUME NEW q \in Tokens, NEW e, NEW f, IsEnds(q, e), IsEnds(q, f)
    PROVE  e = f
  <1> DEFINE S == {i \in Nat : i \in 0..Len(q.lengths) => e[i] = f[i]}
  <1>1. Len(q.lengths) \in Nat /\ DOMAIN q.lengths = 1..Len(q.lengths)
    BY DEF Tokens
  <1>2. 0 \in S
    BY DEF IsEnds
  <1>3. ASSUME NEW n \in Nat, n \in S PROVE n + 1 \in S
    <2> SUFFICES ASSUME n + 1 \in 0..Len(q.lengths) PROVE e[n + 1] = f[n + 1]
      BY <1>3
    <2>1. n \in 0..Len(q.lengths) /\ n + 1 \in DOMAIN q.lengths
      BY <1>1
    <2>2. e[n] = f[n]
      BY <1>3, <2>1
    <2>3. (n + 1) - 1 = n
      OBVIOUS
    <2> QED
      BY <2>1, <2>2, <2>3 DEF IsEnds
  <1>4. \A k \in Nat : k \in S
    <2> HIDE DEF S
    <2> QED
      BY <1>2, <1>3, SetInduction
  <1>5. \A i \in 0..Len(q.lengths) : e[i] = f[i]
    BY <1>1, <1>4
  <1> QED
    BY <1>5 DEF IsEnds

LEMMA EndsKnown ==
    ASSUME NEW q \in Tokens, NEW e, IsEnds(q, e)
    PROVE  Ends(q) = e /\ Queued(q) = CutAt(q, e)
  <1>1. IsEnds(q, Ends(q))
    BY DEF IsEnds, Ends
  <1>2. Ends(q) = e
    BY <1>1, EndsAreUnique
  <1> QED
    BY <1>2 DEF Queued, CutAt

\* Ends grow.
LEMMA EndsGrow ==
    ASSUME NEW q \in Tokens, NEW e, IsEnds(q, e),
           NEW i \in 0..Len(q.lengths), NEW j \in i..Len(q.lengths)
    PROVE  e[i] <= e[j]
  <1> DEFINE S == {d \in Nat : i + d \in 0..Len(q.lengths) => e[i] <= e[i + d]}
  <1>1. /\ Len(q.lengths) \in Nat /\ DOMAIN q.lengths = 1..Len(q.lengths)
        /\ \A m \in DOMAIN q.lengths : q.lengths[m] \in Nat
    BY DEF Tokens
  <1>2. \A m \in 0..Len(q.lengths) : e[m] \in Int
    BY DEF IsEnds
  <1>3. 0 \in S
    <2>1. i + 0 = i /\ e[i] \in Int
      BY <1>1, <1>2
    <2> QED
      BY <2>1
  <1>4. ASSUME NEW n \in Nat, n \in S PROVE n + 1 \in S
    <2> SUFFICES ASSUME i + (n + 1) \in 0..Len(q.lengths) PROVE e[i] <= e[i + (n + 1)]
      OBVIOUS
    <2>1. i + n \in 0..Len(q.lengths) /\ i + n + 1 \in DOMAIN q.lengths
      BY <1>1
    <2>2. e[i] <= e[i + n]
      BY <1>4, <2>1
    <2>3. e[i + n + 1] = e[i + n] + q.lengths[i + n + 1]
      BY <2>1, <1>1 DEF IsEnds
    <2>4. /\ i + (n + 1) = i + n + 1 /\ q.lengths[i + n + 1] \in Nat
          /\ e[i] \in Int /\ e[i + n] \in Int
      BY <1>1, <1>2, <2>1
    <2> QED
      BY <2>2, <2>3, <2>4
  <1>5. \A k \in Nat : k \in S
    <2> HIDE DEF S
    <2> QED
      BY <1>3, <1>4, SetInduction
  <1>6. j - i \in Nat /\ j - i \in S
    BY <1>1, <1>5
  <1>7. i + (j - i) = j
    BY <1>1
  <1> QED
    BY <1>1, <1>6, <1>7

LEMMA CutPackets ==
    ASSUME NEW q \in Tokens, NEW e, IsEnds(q, e)
    PROVE  /\ CutAt(q, e) \in Seq(Seq(Int))
           /\ Len(CutAt(q, e)) = Len(q.lengths)
           /\ DOMAIN CutAt(q, e) = 1..Len(q.lengths)
           /\ \A i \in 1..Len(q.lengths) : CutAt(q, e)[i] = SubSeq(q.bytes, e[i - 1] + 1, e[i])
  <1>1. Len(q.lengths) \in Nat /\ DOMAIN q.lengths = 1..Len(q.lengths) /\ q.bytes \in Seq(Int)
    BY DEF Tokens
  <1>2. ASSUME NEW i \in 1..Len(q.lengths)
        PROVE  SubSeq(q.bytes, e[i - 1] + 1, e[i]) \in Seq(Int)
    <2>1. /\ e[i - 1] \in 0..Len(q.bytes) /\ e[i] \in 0..Len(q.bytes)
          /\ Len(q.bytes) \in Nat
      <3>1. i - 1 \in 0..Len(q.lengths) /\ i \in 0..Len(q.lengths) /\ Len(q.bytes) \in Nat
        BY <1>1
      <3> QED
        BY <3>1 DEF IsEnds
    <2>2. \A b \in e[i - 1] + 1..e[i] : q.bytes[b] \in Int
      BY <1>1, <2>1, ElementOfSeq
    <2> QED
      BY <2>1, <2>2, SubSeqProperties
  <1> DEFINE n == Len(q.lengths)
             Cut(i) == SubSeq(q.bytes, e[i - 1] + 1, e[i])
             c == [i \in 1..n |-> Cut(i)]
  <1>3. CutAt(q, e) = c
    BY <1>1 DEF CutAt
  <1>4. n \in Nat /\ \A i \in 1..n : Cut(i) \in Seq(Int)
    BY <1>1, <1>2
  <1>5. c \in Seq(Seq(Int)) /\ Len(c) = n /\ DOMAIN c = 1..n /\ \A i \in 1..n : c[i] = Cut(i)
    <2> HIDE DEF n, Cut
    <2> QED
      BY <1>4
  <1> QED
    BY <1>3, <1>5

\* The row begins empty.
LEMMA NoPackets ==
    Token \in Tokens /\ Queued(Token) = <<>> /\ InStep(Token)
  <1> DEFINE e == [i \in 0..0 |-> 0]
  <1>1. Token \in Tokens
    BY DEF Token, Tokens
  <1>2. IsEnds(Token, e) /\ e[Len(Token.lengths)] = Len(Token.bytes)
    BY DEF Token, IsEnds
  <1>3. CutAt(Token, e) = <<>>
    BY <1>1, <1>2, CutPackets DEF Token
  <1> QED
    BY <1>1, <1>2, <1>3, EndsKnown DEF InStep

\* A token is empty exactly when it carries no packet, be its packets ever so short.
LEMMA EmptyIsEmpty ==
    ASSUME NEW q \in Tokens, InStep(q)
    PROVE  IsEmpty(q) <=> Queued(q) = <<>>
  <1>1. PICK e : IsEnds(q, e)
    BY DEF InStep
  <1>2. Queued(q) \in Seq(Seq(Int)) /\ Len(Queued(q)) = Len(q.lengths)
    BY <1>1, EndsKnown, CutPackets
  <1> QED
    BY <1>2, EmptySeq DEF IsEmpty, Tokens

\* A packet enqueued is the last of the row.
LEMMA EnqueueAppends ==
    ASSUME NEW q \in Tokens, InStep(q), NEW p \in Seq(Int)
    PROVE  /\ Enqueue(q, p) \in Tokens
           /\ InStep(Enqueue(q, p))
           /\ Queued(Enqueue(q, p)) = Append(Queued(q), p)
  <1> DEFINE r == Enqueue(q, p)
             n == Len(q.lengths)
             b == Len(q.bytes)
  <1>1. PICK e : IsEnds(q, e) /\ e[n] = b
    BY DEF InStep
  <1>2. /\ n \in Nat /\ b \in Nat /\ Len(p) \in Nat
        /\ q.lengths \in Seq(Nat) /\ q.bytes \in Seq(Int)
        /\ DOMAIN q.lengths = 1..n
    BY DEF Tokens
  <1>3. /\ r \in Tokens
        /\ r.lengths = Append(q.lengths, Len(p)) /\ r.bytes = q.bytes \o p
        /\ Len(r.lengths) = n + 1 /\ Len(r.bytes) = b + Len(p)
        /\ DOMAIN r.lengths = 1..n + 1
        /\ r.lengths[n + 1] = Len(p) /\ \A i \in 1..n : r.lengths[i] = q.lengths[i]
    <2>1. /\ Append(q.lengths, Len(p)) \in Seq(Nat)
          /\ q.bytes \o p \in Seq(Int) /\ Len(q.bytes \o p) = b + Len(p)
      BY <1>2, ConcatProperties
    <2>2. r.lengths = Append(q.lengths, Len(p)) /\ r.bytes = q.bytes \o p /\ r \in Tokens
      BY <2>1 DEF Enqueue, Tokens
    <2> QED
      BY <1>2, <2>1, <2>2
  <1> DEFINE f == [i \in 0..n + 1 |-> IF i = n + 1 THEN b + Len(p) ELSE e[i]]
  <1>4. \A i \in 0..n : e[i] \in 0..b
    BY <1>1 DEF IsEnds
  <1>5. IsEnds(r, f) /\ f[n + 1] = b + Len(p)
    <2>1. f \in [0..n + 1 -> 0..b + Len(p)] /\ f[0] = 0
      BY <1>1, <1>2, <1>4 DEF IsEnds
    <2>2. ASSUME NEW i \in 1..n + 1 PROVE f[i] = f[i - 1] + r.lengths[i]
      <3>1. CASE i = n + 1
        BY <1>1, <1>2, <1>3, <3>1
      <3>2. CASE i # n + 1
        <4>1. i \in DOMAIN q.lengths /\ i - 1 \in 0..n /\ i - 1 # n + 1
          BY <1>2, <3>2
        <4> QED
          BY <1>1, <1>2, <1>3, <3>2, <4>1 DEF IsEnds
      <3> QED
        BY <3>1, <3>2
    <2>3. f[n + 1] = b + Len(p)
      BY <1>2
    <2> HIDE DEF r, f
    <2> QED
      BY <1>2, <1>3, <2>1, <2>2, <2>3 DEF IsEnds
  <1>6. InStep(r)
    BY <1>3, <1>5 DEF InStep
  <1>7. Queued(r) = CutAt(r, f) /\ Queued(q) = CutAt(q, e)
    BY <1>1, <1>3, <1>5, EndsKnown
  <1>8. CutAt(r, f) = Append(CutAt(q, e), p)
    <2>1. /\ \A j \in 1..b : r.bytes[j] = q.bytes[j] /\ q.bytes[j] \in Int
          /\ \A j \in 1..Len(p) : r.bytes[b + j] = p[j] /\ p[j] \in Int
      <3>1. /\ \A j \in 1..b : q.bytes[j] \in Int
            /\ \A j \in 1..Len(p) : p[j] \in Int
        BY <1>2, ElementOfSeq
      <3>2. \A j \in 1..b + Len(p) : r.bytes[j] = IF j <= b THEN q.bytes[j] ELSE p[j - b]
        BY <1>2, <1>3, ConcatProperties
      <3>3. \A j \in 1..Len(p) : b + j \in 1..b + Len(p) /\ ~(b + j <= b) /\ (b + j) - b = j
        BY <1>2
      <3>4. \A j \in 1..b : j \in 1..b + Len(p) /\ j <= b
        BY <1>2
      <3> HIDE DEF r, n, b
      <3> QED
        BY <3>1, <3>2, <3>3, <3>4
    <2> HIDE DEF r, f
    <2>2. /\ CutAt(r, f) \in Seq(Seq(Int)) /\ Len(CutAt(r, f)) = n + 1
          /\ \A i \in 1..n + 1 : CutAt(r, f)[i] = SubSeq(r.bytes, f[i - 1] + 1, f[i])
      <3>1. /\ CutAt(r, f) \in Seq(Seq(Int)) /\ Len(CutAt(r, f)) = Len(r.lengths)
            /\ \A i \in 1..Len(r.lengths) : CutAt(r, f)[i] = SubSeq(r.bytes, f[i - 1] + 1, f[i])
        <4>1. r \in Tokens /\ IsEnds(r, f)
          BY <1>3, <1>5
        <4> QED
          BY <4>1, CutPackets
      <3> QED
        BY <1>3, <3>1
    <2>3. /\ CutAt(q, e) \in Seq(Seq(Int)) /\ Len(CutAt(q, e)) = n
          /\ \A i \in 1..n : CutAt(q, e)[i] = SubSeq(q.bytes, e[i - 1] + 1, e[i])
      BY <1>1, CutPackets
    <2>4. ASSUME NEW i \in 1..n
          PROVE  CutAt(r, f)[i] = CutAt(q, e)[i]
      <3>1. /\ f[i] = e[i] /\ f[i - 1] = e[i - 1] /\ e[i - 1] \in 0..b /\ e[i] \in 0..b
            /\ i \in 1..n + 1
        BY <1>2, <1>4 DEF f
      <3> DEFINE lo == e[i - 1] + 1
                 hi == e[i]
      <3>2. lo \in Int /\ hi \in Int /\ \A j \in lo..hi : j \in 1..b
        <4>1. lo \in Int /\ hi \in Int /\ 1 <= lo /\ hi <= b /\ b \in Nat
          BY <1>2, <3>1
        <4> HIDE DEF lo, hi, b
        <4> QED
          BY <4>1
      <3>3. SubSeq(r.bytes, lo, hi) = SubSeq(q.bytes, lo, hi)
        <4> HIDE DEF lo, hi
        <4>1. \A j \in lo..hi : r.bytes[j] = q.bytes[j] /\ r.bytes[j] \in Int
          BY <2>1, <3>2
        <4> QED
          BY <3>2, <4>1, SubSeqAgree
      <3> QED
        BY <2>2, <2>3, <3>1, <3>3
    <2>5. CutAt(r, f)[n + 1] = p
      <3>1. f[n + 1] = b + Len(p) /\ f[(n + 1) - 1] = b /\ n + 1 \in 1..n + 1
        BY <1>1, <1>2 DEF f
      <3>2. \A j \in 1..Len(p) : p[j] = r.bytes[j + b] /\ p[j] \in Int
        BY <1>2, <2>1
      <3>3. SubSeq(p, 1, Len(p)) = SubSeq(r.bytes, 1 + b, Len(p) + b)
        <4> HIDE DEF b
        <4>1. 1 \in Int /\ Len(p) \in Int /\ b \in Int
          BY <1>2
        <4> QED
          BY <3>2, <4>1, SubSeqShifted
      <3>4. SubSeq(p, 1, Len(p)) = p
        BY SubSeqFull
      <3>5. 1 + b = b + 1 /\ Len(p) + b = b + Len(p)
        BY <1>2
      <3> QED
        BY <2>2, <3>1, <3>3, <3>4, <3>5
    <2>6. /\ Append(CutAt(q, e), p) \in Seq(Seq(Int))
          /\ Len(Append(CutAt(q, e), p)) = n + 1
          /\ Append(CutAt(q, e), p)[n + 1] = p
          /\ \A i \in 1..n : Append(CutAt(q, e), p)[i] = CutAt(q, e)[i]
      BY <1>2, <2>3
    <2>7. \A i \in 1..n + 1 : CutAt(r, f)[i] = Append(CutAt(q, e), p)[i]
      <3>1. \A i \in 1..n + 1 : i = n + 1 \/ i \in 1..n
        BY <1>2
      <3> QED
        BY <2>4, <2>5, <2>6, <3>1
    <2> QED
      BY <2>2, <2>6, <2>7, SeqEqual
  <1> QED
    BY <1>3, <1>6, <1>7, <1>8

\* What is taken out is the first packet, whole, and the rest stays in order.
LEMMA DequeueTakesFirst ==
    ASSUME NEW q \in Tokens, InStep(q), ~IsEmpty(q)
    PROVE  /\ Queued(q) # <<>>
           /\ Dequeue(q) \in Tokens
           /\ InStep(Dequeue(q))
           /\ Dequeue(q).buffer = Head(Queued(q))
           /\ Queued(Dequeue(q)) = Tail(Queued(q))
  <1> DEFINE r == Dequeue(q)
             n == Len(q.lengths)
             b == Len(q.bytes)
             h == Head(q.lengths)
  <1>1. PICK e : IsEnds(q, e) /\ e[n] = b
    BY DEF InStep
  <1>2. /\ n \in Nat /\ n >= 1 /\ b \in Nat /\ h \in Nat /\ h = q.lengths[1]
        /\ q.lengths \in Seq(Nat) /\ q.lengths # <<>> /\ q.bytes \in Seq(Int)
        /\ DOMAIN q.lengths = 1..n
    <2>1. q.lengths \in Seq(Nat) /\ q.lengths # <<>> /\ q.bytes \in Seq(Int)
      BY DEF Tokens, IsEmpty
    <2>2. n \in Nat \ {0} /\ b \in Nat /\ DOMAIN q.lengths = 1..n
      BY <2>1, EmptySeq
    <2>3. h = q.lengths[1] /\ h \in Nat
      BY <2>1, <2>2, ElementOfSeq
    <2> QED
      BY <2>1, <2>2, <2>3
  <1>3. \A i \in 0..n : e[i] \in 0..b
    BY <1>1 DEF IsEnds
  <1>4. e[0] = 0 /\ e[1] = h /\ h <= b
    <2>1. 1 \in DOMAIN q.lengths /\ 1 - 1 = 0 /\ 1 \in 0..n
      BY <1>2
    <2>2. e[1] = e[0] + q.lengths[1] /\ e[0] = 0
      BY <1>1, <2>1 DEF IsEnds
    <2> QED
      BY <1>2, <1>3, <2>1, <2>2
  <1>5. \A i \in 1..n : h <= e[i]
    <2>1. ASSUME NEW i \in 1..n PROVE e[1] <= e[i]
      <3>1. 1 \in 0..n /\ i \in 1..n
        BY <1>2
      <3> QED
        BY <1>1, <3>1, EndsGrow
    <2> QED
      BY <1>4, <2>1
  <1>6. /\ r.bytes \in Seq(Int) /\ Len(r.bytes) = b - h
        /\ \A j \in 1..b - h : r.bytes[j] = q.bytes[j + h] /\ r.bytes[j] \in Int
    <2>1. \A j \in h + 1..b : j \in 1..b
      BY <1>2
    <2>2. \A j \in h + 1..b : q.bytes[j] \in Int
      BY <1>2, <2>1, ElementOfSeq
    <2>3. r.bytes = SubSeq(q.bytes, h + 1, b)
      BY DEF Dequeue
    <2> DEFINE lo == h + 1
    <2>4. lo \in Int /\ b \in Int
      BY <1>2
    <2>5. /\ SubSeq(q.bytes, lo, b) \in Seq(Int)
          /\ Len(SubSeq(q.bytes, lo, b)) = IF lo <= b THEN b - lo + 1 ELSE 0
          /\ \A j \in 1..b - lo + 1 : SubSeq(q.bytes, lo, b)[j] = q.bytes[lo + j - 1]
      <3> HIDE DEF lo, b
      <3> QED
        BY <2>2, <2>4, SubSeqProperties DEF lo
    <2>6. /\ (IF lo <= b THEN b - lo + 1 ELSE 0) = b - h /\ b - lo + 1 = b - h
          /\ \A j \in 1..b - h : lo + j - 1 = j + h /\ j + h \in h + 1..b
      <3>1. h \in Nat /\ b \in Nat /\ h <= b
        BY <1>2, <1>4
      <3> HIDE DEF b, h
      <3> QED
        BY <3>1
    <2> HIDE DEF r, b, h
    <2> QED
      BY <2>2, <2>3, <2>5, <2>6
  <1>7. /\ r.lengths \in Seq(Nat) /\ Len(r.lengths) = n - 1 /\ DOMAIN r.lengths = 1..n - 1
        /\ \A i \in 1..n - 1 : r.lengths[i] = q.lengths[i + 1]
    <2>1. r.lengths = Tail(q.lengths)
      BY DEF Dequeue
    <2> QED
      BY <1>2, <2>1, HeadTailProperties
  <1>8. r.buffer \in Seq(Int) /\ r.buffer = SubSeq(q.bytes, 1, h)
    <2>1. \A j \in 1..h : j \in 1..b
      BY <1>2, <1>4
    <2>2. \A j \in 1..h : q.bytes[j] \in Int
      BY <1>2, <2>1, ElementOfSeq
    <2>3. r.buffer = SubSeq(q.bytes, 1, h)
      BY DEF Dequeue
    <2>4. 1 \in Int /\ h \in Int
      BY <1>2
    <2>5. SubSeq(q.bytes, 1, h) \in Seq(Int)
      <3> HIDE DEF h
      <3> QED
        BY <2>2, <2>4, SubSeqProperties
    <2> QED
      BY <2>3, <2>5
  <1>9. r \in Tokens
    <2>1. r = [lengths |-> r.lengths, bytes |-> r.bytes, buffer |-> r.buffer]
      BY DEF Dequeue
    <2> HIDE DEF r
    <2> QED
      BY <1>6, <1>7, <1>8, <2>1 DEF Tokens
  <1> DEFINE f == [i \in 0..n - 1 |-> e[i + 1] - h]
  <1>10. IsEnds(r, f) /\ f[n - 1] = b - h
    <2>1. \A i \in 0..n - 1 : i + 1 \in 1..n /\ e[i + 1] - h \in 0..b - h
      <3>1. n \in Nat /\ h \in Nat /\ b \in Nat
        BY <1>2
      <3> HIDE DEF n, h, b
      <3>2. ASSUME NEW i \in 0..n - 1 PROVE i + 1 \in 1..n /\ e[i + 1] \in h..b
        <4>1. i + 1 \in 1..n /\ i + 1 \in 0..n
          BY <3>1
        <4>2. e[i + 1] \in 0..b /\ h <= e[i + 1]
          BY <1>3, <1>5, <4>1
        <4> QED
          BY <3>1, <4>1, <4>2
      <3> QED
        BY <3>1, <3>2
    <2>2. f \in [0..n - 1 -> 0..b - h]
      BY <2>1
    <2>3. f[0] = 0 /\ f[n - 1] = b - h
      <3>1. 0 \in 0..n - 1 /\ n - 1 \in 0..n - 1 /\ (n - 1) + 1 = n /\ 0 + 1 = 1
        BY <1>2
      <3>2. f[0] = e[1] - h /\ f[n - 1] = e[n] - h
        BY <3>1
      <3> QED
        BY <1>1, <1>2, <1>4, <3>2
    <2>4. ASSUME NEW i \in 1..n - 1 PROVE f[i] = f[i - 1] + r.lengths[i]
      <3>1. /\ i + 1 \in DOMAIN q.lengths /\ (i + 1) - 1 = i /\ (i - 1) + 1 = i
            /\ i \in 0..n - 1 /\ i - 1 \in 0..n - 1 /\ i \in 0..n /\ i + 1 \in 0..n
        BY <1>2
      <3>2. f[i] = e[i + 1] - h /\ f[i - 1] = e[i] - h
        BY <3>1
      <3>3. e[i + 1] = e[i] + q.lengths[i + 1]
        BY <1>1, <3>1 DEF IsEnds
      <3>4. r.lengths[i] = q.lengths[i + 1] /\ q.lengths[i + 1] \in Nat
        BY <1>2, <1>7, <3>1, ElementOfSeq
      <3>5. e[i] \in Int /\ e[i + 1] \in Int
        BY <1>3, <3>1
      <3>6. h \in Nat
        BY <1>2
      <3> HIDE DEF f, r, h
      <3> QED
        BY <3>2, <3>3, <3>4, <3>5, <3>6
    <2> HIDE DEF f, r
    <2> QED
      BY <1>6, <1>7, <2>2, <2>3, <2>4 DEF IsEnds
  <1>11. InStep(r)
    <2>1. f[Len(r.lengths)] = Len(r.bytes)
      BY <1>6, <1>7, <1>10
    <2> HIDE DEF f, r
    <2> QED
      BY <1>10, <2>1 DEF InStep
  <1>12. Queued(r) = CutAt(r, f) /\ Queued(q) = CutAt(q, e)
    <2> HIDE DEF f, r
    <2> QED
      BY <1>1, <1>9, <1>10, EndsKnown
  <1>13. /\ CutAt(q, e) \in Seq(Seq(Int)) /\ Len(CutAt(q, e)) = n /\ CutAt(q, e) # <<>>
         /\ \A i \in 1..n : CutAt(q, e)[i] = SubSeq(q.bytes, e[i - 1] + 1, e[i])
    BY <1>1, <1>2, CutPackets
  <1>14. r.buffer = Head(CutAt(q, e))
    <2>1. 1 \in 1..n /\ 1 - 1 = 0 /\ 0 + 1 = 1
      BY <1>2
    <2>2. CutAt(q, e)[1] = SubSeq(q.bytes, 1, h)
      BY <1>4, <1>13, <2>1
    <2>3. Head(CutAt(q, e)) = CutAt(q, e)[1]
      BY <1>13
    <2> QED
      BY <1>8, <2>2, <2>3
  <1>15. CutAt(r, f) = Tail(CutAt(q, e))
    <2>1. /\ CutAt(r, f) \in Seq(Seq(Int)) /\ Len(CutAt(r, f)) = n - 1
          /\ \A i \in 1..n - 1 : CutAt(r, f)[i] = SubSeq(r.bytes, f[i - 1] + 1, f[i])
      <3> HIDE DEF r, f, n
      <3>1. /\ CutAt(r, f) \in Seq(Seq(Int)) /\ Len(CutAt(r, f)) = Len(r.lengths)
            /\ \A i \in 1..Len(r.lengths) : CutAt(r, f)[i] = SubSeq(r.bytes, f[i - 1] + 1, f[i])
        BY <1>9, <1>10, CutPackets
      <3> QED
        BY <1>7, <3>1
    <2>2. /\ Tail(CutAt(q, e)) \in Seq(Seq(Int)) /\ Len(Tail(CutAt(q, e))) = n - 1
          /\ \A i \in 1..n - 1 : Tail(CutAt(q, e))[i] = CutAt(q, e)[i + 1]
      <3> HIDE DEF n
      <3> QED
        BY <1>13, HeadTailProperties
    <2>3. ASSUME NEW i \in 1..n - 1
          PROVE  CutAt(r, f)[i] = CutAt(q, e)[i + 1]
      <3> DEFINE lo == f[i - 1] + 1
                 hi == f[i]
      <3>1. /\ i + 1 \in 1..n /\ (i + 1) - 1 = i /\ (i - 1) + 1 = i
            /\ i \in 0..n - 1 /\ i - 1 \in 0..n - 1 /\ i \in 1..n
        BY <1>2
      <3>2. /\ f[i] = e[i + 1] - h /\ f[i - 1] = e[i] - h
            /\ e[i] \in h..b /\ e[i + 1] \in h..b
        BY <1>2, <1>3, <1>5, <3>1
      <3>3. /\ lo \in Int /\ hi \in Int /\ lo + h = e[i] + 1 /\ hi + h = e[i + 1]
            /\ \A j \in lo..hi : j \in 1..b - h
        <4>1. h \in Nat /\ b \in Nat
          BY <1>2
        <4> HIDE DEF f, h, b
        <4>2. /\ e[i] \in Nat /\ e[i + 1] \in Nat /\ f[i] \in Int /\ f[i - 1] \in Int
              /\ f[i - 1] + h = e[i] /\ f[i] + h = e[i + 1] /\ h <= e[i] /\ e[i + 1] <= b
          BY <3>2, <4>1
        <4>3. lo \in Int /\ hi \in Int /\ lo + h = e[i] + 1 /\ hi + h = e[i + 1]
          BY <4>1, <4>2
        <4> HIDE DEF lo, hi
        <4>4. 1 <= lo /\ hi <= b - h
          BY <4>1, <4>2, <4>3
        <4> QED
          BY <4>1, <4>3, <4>4
      <3>4. SubSeq(r.bytes, lo, hi) = SubSeq(q.bytes, lo + h, hi + h)
        <4>1. h \in Int
          BY <1>2
        <4> HIDE DEF lo, hi, r, h, b
        <4>2. \A j \in lo..hi : r.bytes[j] = q.bytes[j + h] /\ r.bytes[j] \in Int
          BY <1>6, <3>3
        <4> QED
          BY <3>3, <4>1, <4>2, SubSeqShifted
      <3> HIDE DEF f, r, h
      <3> QED
        BY <1>13, <2>1, <3>1, <3>3, <3>4
    <2> HIDE DEF r, f, n
    <2> QED
      BY <2>1, <2>2, <2>3, SeqEqual
  <1> QED
    BY <1>9, <1>11, <1>12, <1>13, <1>14, <1>15

\* The buffer is not part of the row: TxToken::consume enqueues too.
LEMMA TransmittedAppends ==
    ASSUME NEW q \in Tokens, InStep(q), NEW p \in Seq(Int)
    PROVE  /\ Transmitted(q, p) \in Tokens
           /\ InStep(Transmitted(q, p))
           /\ Queued(Transmitted(q, p)) = Append(Queued(q), p)
  <1> DEFINE r == [q EXCEPT !.buffer = p]
  <1>1. r \in Tokens /\ r.lengths = q.lengths /\ r.bytes = q.bytes
    BY DEF Tokens
  <1>2. PICK e : IsEnds(q, e) /\ e[Len(q.lengths)] = Len(q.bytes)
    BY DEF InStep
  <1>3. IsEnds(r, e) /\ e[Len(r.lengths)] = Len(r.bytes) /\ CutAt(r, e) = CutAt(q, e)
    <2> HIDE DEF r
    <2> QED
      BY <1>1, <1>2 DEF IsEnds, CutAt
  <1>4. InStep(r) /\ Queued(r) = Queued(q)
    <2> HIDE DEF r
    <2> QED
      BY <1>1, <1>2, <1>3, EndsKnown DEF InStep
  <1>5. Transmitted(q, p) = Enqueue(r, p)
    BY DEF Transmitted
  <1> HIDE DEF r
  <1> QED
    BY <1>1, <1>4, <1>5, EnqueueAppends
-----------------------------------------------------------------------------
(***************************************************************************)
(* Types.  The packets smoltcp has emitted so far are numbered 1, 2, ...   *)
(***************************************************************************)
Emitted(n) == {Packet(k, l) : k \in 1..n, l \in OutLengths}

CountsOK ==
    /\ spent \in [DOMAIN Limit -> Nat]
    /\ \A b \in DOMAIN Limit : spent[b] <= Limit[b]

DeviceOK ==
    /\ recv \in Tokens /\ InStep(recv) /\ Queued(recv) \in Seq(Inbound)
    /\ send \in Tokens /\ InStep(send) /\ Queued(send) \in Seq(Emitted(spent.out))

TunnelOK ==
    /\ outgoing \in Seq(Emitted(spent.out))
    /\ held \in Seq(Emitted(spent.out))
    /\ inHand \in Emitted(spent.out) \cup {Control}
    /\ socket \in Seq(Inbound \cup {Control})

HistoryOK ==
    /\ delivered \in Seq(Inbound)
    /\ offered \in Seq(Emitted(spent.out))
    /\ wire \in Seq(Emitted(spent.out))

PathType ==
    /\ step \in {"poll", "drain", "send", "select", "flush"}
    /\ session \in BOOLEAN /\ cut \in BOOLEAN
    /\ CountsOK /\ DeviceOK /\ TunnelOK /\ HistoryOK

\* Packets are rows of bytes, and no packet is a handshake message.
LEMMA PacketsAreRows ==
    /\ Inbound \subseteq Seq(Int)
    /\ Control \notin Inbound
    /\ \A n \in Nat : /\ Emitted(n) \subseteq Seq(Int)
                      /\ Control \notin Emitted(n)
                      /\ n <= MaxOut => Emitted(n) \subseteq Outbound
  <1>1. ASSUME NEW n \in Int, NEW l \in Nat PROVE Packet(n, l) \in Seq(Int)
    BY DEF Packet
  <1>2. InLengths \subseteq Nat /\ OutLengths \subseteq Nat /\ Control \notin Seq(Int)
        /\ MaxIn \in Nat /\ MaxOut \in Nat
    BY PacketPathAssumption
  <1>3. Inbound \subseteq Seq(Int)
    BY <1>1, <1>2 DEF Inbound
  <1>4. ASSUME NEW n \in Nat
        PROVE  Emitted(n) \subseteq Seq(Int) /\ (n <= MaxOut => Emitted(n) \subseteq Outbound)
    <2>1. \A k \in 1..n : k \in Int /\ (n <= MaxOut => k \in 1..MaxOut)
      BY <1>2
    <2>2. Emitted(n) \subseteq Seq(Int)
      BY <1>1, <1>2, <2>1 DEF Emitted
    <2>3. n <= MaxOut => Emitted(n) \subseteq Outbound
      BY <2>1 DEF Emitted, Outbound
    <2> QED
      BY <2>2, <2>3
  <1> QED
    BY <1>2, <1>3, <1>4

LEMMA EmittedGrows ==
    ASSUME NEW n \in Nat, NEW m \in Nat, n <= m
    PROVE  /\ Emitted(n) \subseteq Emitted(m)
           /\ \A s \in Seq(Emitted(n)) : s \in Seq(Emitted(m))
  <1>1. Emitted(n) \subseteq Emitted(m)
    BY DEF Emitted
  <1> QED
    BY <1>1, SeqMonotonic

\* What a step counts, it counts once, and nothing else.
LEMMA Counted ==
    ASSUME CountsOK, NEW b \in DOMAIN Limit, Spend(b)
    PROVE  CountsOK' /\ spent'[b] = spent[b] + 1 /\ \A c \in DOMAIN Limit \ {b} : spent'[c] = spent[c]
  <1>1. \A c \in DOMAIN Limit : Limit[c] \in Nat
    BY PacketPathAssumption DEF Limit
  <1>2. DOMAIN Limit = DOMAIN Limit' /\ Limit = Limit'
    BY DEF Limit
  <1> QED
    BY <1>1, <1>2 DEF CountsOK, Spend

LEMMA PathTypeInit == PathInit => PathType
  <1> SUFFICES ASSUME PathInit PROVE PathType
    OBVIOUS
  <1>1. CountsOK
    BY PacketPathAssumption DEF PathInit, CountsOK, Limit
  <1>2. DeviceOK
    BY NoPackets DEF PathInit, DeviceOK
  <1>3. TunnelOK /\ HistoryOK
    BY DEF PathInit, TunnelOK, HistoryOK
  <1> QED
    BY <1>1, <1>2, <1>3 DEF PathInit, PathType

\* smoltcp's side: every token stays in step, whatever is put in and taken out.
LEMMA DeviceStep ==
    ASSUME PathType, [PathNext]_path
    PROVE  CountsOK' /\ spent.out <= spent'.out /\ spent'.out \in Nat /\ DeviceOK'
  <1>1. spent.out \in Nat /\ DOMAIN Limit = {"in", "out", "handshakes", "opens", "faults"}
    BY DEF PathType, CountsOK, Limit
  <1>2. CASE spent' = spent /\ UNCHANGED <<recv, send>>
    BY <1>1, <1>2 DEF PathType, CountsOK, DeviceOK, Limit
  <1>3. CASE (\E b \in DOMAIN Limit \ {"out"} : Spend(b)) /\ UNCHANGED <<recv, send>>
    <2>1. PICK b \in DOMAIN Limit \ {"out"} : Spend(b)
      BY <1>3
    <2>2. CountsOK' /\ spent'.out = spent.out
      BY <1>1, <2>1, Counted DEF PathType
    <2> QED
      BY <1>1, <1>3, <2>2 DEF PathType, DeviceOK
  <1>4. CASE Ingress \/ RecvPacket
    <2>1. spent' = spent /\ send' = send
      BY <1>4 DEF Ingress, RecvPacket
    <2>2. recv' \in Tokens /\ InStep(recv') /\ Queued(recv') \in Seq(Inbound)
      <3>1. CASE Ingress
        <4>1. /\ recv' = Dequeue(recv) /\ ~IsEmpty(recv)
          BY <3>1 DEF Ingress
        <4>2. recv' \in Tokens /\ InStep(recv') /\ Queued(recv') = Tail(Queued(recv))
              /\ Queued(recv) # <<>>
          BY <4>1, DequeueTakesFirst DEF PathType, DeviceOK
        <4> QED
          BY <4>2, HeadTailProperties DEF PathType, DeviceOK
      <3>2. CASE RecvPacket
        <4>1. Head(socket) \in Inbound
          BY <3>2, HeadTailProperties DEF RecvPacket, PathType, TunnelOK
        <4>2. Head(socket) \in Seq(Int)
          BY <4>1, PacketsAreRows
        <4>3. recv' = Enqueue(recv, Head(socket)) \/ recv' = recv
          BY <3>2 DEF RecvPacket
        <4>4. CASE recv' = Enqueue(recv, Head(socket))
          <5>1. recv' \in Tokens /\ InStep(recv') /\ Queued(recv') = Append(Queued(recv), Head(socket))
            BY <4>2, <4>4, EnqueueAppends DEF PathType, DeviceOK
          <5> QED
            BY <4>1, <5>1, AppendProperties DEF PathType, DeviceOK
        <4> QED
          BY <4>3, <4>4 DEF PathType, DeviceOK
      <3> QED
        BY <1>4, <3>1, <3>2
    <2> QED
      BY <1>1, <2>1, <2>2 DEF PathType, CountsOK, DeviceOK, Limit
  <1>5. CASE Egress
    <2>1. CountsOK' /\ spent'.out = spent.out + 1
      BY <1>1, <1>5, Counted DEF Egress, PathType
    <2>2. PICK l \in OutLengths : send' = Transmitted(send, Packet(spent'.out, l))
      BY <1>5 DEF Egress
    <2>3. Packet(spent'.out, l) \in Emitted(spent'.out)
      BY <1>1, <2>1 DEF Emitted
    <2>4. Packet(spent'.out, l) \in Seq(Int)
      BY <1>1, <2>1, <2>3, PacketsAreRows
    <2>5. /\ send' \in Tokens /\ InStep(send')
          /\ Queued(send') = Append(Queued(send), Packet(spent'.out, l))
      BY <2>2, <2>4, TransmittedAppends DEF PathType, DeviceOK
    <2>6. Queued(send) \in Seq(Emitted(spent'.out))
      BY <1>1, <2>1, EmittedGrows DEF PathType, DeviceOK
    <2>7. Queued(send') \in Seq(Emitted(spent'.out))
      BY <2>3, <2>5, <2>6, AppendProperties
    <2>8. recv' = recv
      BY <1>5 DEF Egress
    <2> QED
      BY <1>1, <2>1, <2>5, <2>7, <2>8 DEF PathType, DeviceOK
  <1>6. CASE CopyOut
    <2>1. spent' = spent /\ recv' = recv
      BY <1>6 DEF CopyOut
    <2>2. send' = send \/ (~IsEmpty(send) /\ send' = Dequeue(send))
      BY <1>6 DEF CopyOut, Emptied
    <2>3. CASE ~IsEmpty(send) /\ send' = Dequeue(send)
      <3>1. /\ send' \in Tokens /\ InStep(send') /\ Queued(send') = Tail(Queued(send))
            /\ Queued(send) # <<>>
        BY <2>3, DequeueTakesFirst DEF PathType, DeviceOK
      <3>2. Queued(send') \in Seq(Emitted(spent'.out))
        BY <2>1, <3>1, HeadTailProperties DEF PathType, DeviceOK
      <3> QED
        BY <1>1, <2>1, <3>1, <3>2 DEF PathType, CountsOK, DeviceOK, Limit
    <2> QED
      BY <1>1, <2>1, <2>2, <2>3 DEF PathType, CountsOK, DeviceOK, Limit
  <1>7. CASE SendNext
    <2>1. UNCHANGED <<recv, send>> /\ (spent' = spent \/ Spend("faults"))
      BY <1>7 DEF SendNext
    <2> QED
      BY <1>1, <1>2, <1>3, <2>1
  <1>8. CASE OpenArm \/ Rebuild \/ Arrive
    <2>1. UNCHANGED <<recv, send>> /\ \E b \in {"opens", "faults", "in", "handshakes"} : Spend(b)
      BY <1>8 DEF OpenArm, Rebuild, Arrive
    <2> QED
      BY <1>1, <1>3, <2>1
  <1>9. CASE Polled \/ Sent \/ LaterArm \/ RecvHandshake \/ Flush \/ FlushCut \/ SessionExpires
    <2>1. spent' = spent /\ UNCHANGED <<recv, send>>
      BY <1>9 DEF Polled, Sent, LaterArm, RecvHandshake, Flush, FlushCut, SessionExpires
    <2> QED
      BY <1>2, <2>1
  <1>10. CASE UNCHANGED path
    BY <1>2, <1>10 DEF path
  <1> QED
    BY <1>4, <1>5, <1>6, <1>7, <1>8, <1>9, <1>10 DEF PathNext, LoopStep

\* The tunnel's side and what was seen of it: packets only move, and none is made up.
LEMMA TunnelStep ==
    ASSUME PathType, [PathNext]_path
    PROVE  TunnelOK' /\ HistoryOK'
  <1> DEFINE E == Emitted(spent.out)
             F == Emitted(spent'.out)
  <1>1. /\ spent.out \in Nat /\ spent'.out \in Nat /\ spent.out <= spent'.out
        /\ DeviceOK /\ TunnelOK /\ HistoryOK
    BY DeviceStep DEF PathType, CountsOK, Limit
  <1>2. E \subseteq F /\ \A s \in Seq(E) : s \in Seq(F)
    BY <1>1, EmittedGrows
  <1>3. Control \notin E /\ Control \notin F
    BY <1>1, PacketsAreRows
  <1> HIDE DEF E, F
  <1>4. /\ outgoing \in Seq(F) /\ held \in Seq(F) /\ offered \in Seq(F) /\ wire \in Seq(F)
        /\ inHand \in F \cup {Control} /\ socket \in Seq(Inbound \cup {Control})
        /\ delivered \in Seq(Inbound)
    BY <1>1, <1>2 DEF E, TunnelOK, HistoryOK
  <1>0. /\ \A s \in Seq(F), p \in F : Append(s, p) \in Seq(F)
        /\ \A s \in Seq(F) : s # <<>> => Head(s) \in F /\ Tail(s) \in Seq(F)
        /\ <<>> \in Seq(F)
    BY AppendProperties, HeadTailProperties
  <1> SUFFICES /\ outgoing' \in Seq(F) /\ held' \in Seq(F) /\ offered' \in Seq(F) /\ wire' \in Seq(F)
               /\ inHand' \in F \cup {Control} /\ socket' \in Seq(Inbound \cup {Control})
               /\ delivered' \in Seq(Inbound)
    BY DEF F, TunnelOK, HistoryOK
  <1>5. CASE Ingress
    <2>1. delivered' = Append(delivered, Dequeue(recv).buffer) /\ ~IsEmpty(recv)
          /\ UNCHANGED <<outgoing, held, offered, wire, inHand, socket>>
      BY <1>5 DEF Ingress
    <2>2. Dequeue(recv).buffer \in Inbound
      BY <1>1, <2>1, DequeueTakesFirst, HeadTailProperties DEF DeviceOK
    <2> QED
      BY <1>4, <2>1, <2>2, AppendProperties
  <1>6. CASE CopyOut
    <2>1. /\ \/ ~IsEmpty(send) /\ outgoing' = Append(outgoing, Dequeue(send).buffer)
             \/ outgoing' = outgoing
          /\ UNCHANGED <<held, offered, wire, inHand, socket, delivered>>
      BY <1>6 DEF CopyOut, Emptied
    <2>2. ~IsEmpty(send) => Dequeue(send).buffer \in F
      BY <1>1, <1>2, DequeueTakesFirst, HeadTailProperties DEF DeviceOK, E
    <2> QED
      BY <1>0, <1>4, <2>1, <2>2
  <1>7. CASE SendNext
    <2>1. Head(outgoing) \in F /\ Tail(outgoing) \in Seq(F)
      BY <1>0, <1>4, <1>7 DEF SendNext
    <2>2. /\ offered' = Append(offered, Head(outgoing))
          /\ held' = held \/ held' = Append(held, Head(outgoing))
          /\ wire' = wire \/ wire' = Append(wire, Head(outgoing))
          /\ outgoing' = Tail(outgoing) \/ outgoing' = <<>>
          /\ UNCHANGED <<inHand, socket, delivered>>
      BY <1>7 DEF SendNext, AfterFailure
    <2> QED
      BY <1>0, <1>4, <2>1, <2>2
  <1>8. CASE RecvPacket \/ RecvHandshake
    <2>1. socket # <<>> /\ socket' = Tail(socket) /\ (inHand' = inHand \/ inHand' = Control)
          /\ UNCHANGED <<outgoing, held, offered, wire, delivered>>
      BY <1>8 DEF RecvPacket, RecvHandshake
    <2> QED
      BY <1>4, <2>1, HeadTailProperties
  <1>9. CASE Flush
    <2>1. /\ wire' = wire \/ (inHand # Control /\ wire' = Append(wire, inHand))
          /\ \/ held # <<>> /\ inHand' = Head(held) /\ held' = Tail(held)
             \/ inHand' = Control /\ held' = held
          /\ UNCHANGED <<outgoing, offered, socket, delivered>>
      BY <1>9 DEF Flush
    <2> QED
      BY <1>0, <1>4, <2>1
  <1>10. CASE FlushCut
    BY <1>4, <1>10 DEF FlushCut
  <1>11. CASE Rebuild
    <2>1. (socket' = <<>> \/ socket' = socket) /\ (held' = <<>> \/ held' = held)
          /\ UNCHANGED <<outgoing, offered, wire, inHand, delivered>>
      BY <1>11 DEF Rebuild
    <2> QED
      BY <1>0, <1>4, <2>1, EmptySeq
  <1>12. CASE Arrive
    <2>1. UNCHANGED <<outgoing, held, offered, wire, inHand, delivered>>
      BY <1>12 DEF Arrive
    <2>2. socket' \in Seq(Inbound \cup {Control})
      <3>1. CASE Spend("in") /\ \E l \in InLengths : socket' = Append(socket, Packet(-spent'.in, l))
        <4>1. PICK l \in InLengths : socket' = Append(socket, Packet(-spent'.in, l))
          BY <3>1
        <4>2. spent'.in \in 1..MaxIn
          <5>1. CountsOK /\ "in" \in DOMAIN Limit /\ Limit["in"] = MaxIn
            BY DEF PathType, Limit
          <5>2. spent'["in"] = spent["in"] + 1 /\ spent["in"] < MaxIn /\ spent["in"] \in Nat
            BY <3>1, <5>1, Counted DEF CountsOK, Spend
          <5> QED
            BY <5>2, PacketPathAssumption
        <4>3. Packet(-spent'.in, l) \in Inbound
          BY <4>2 DEF Inbound
        <4> QED
          BY <1>4, <4>1, <4>3, AppendProperties
      <3>2. CASE socket' = Append(socket, Control)
        BY <1>4, <3>2, AppendProperties
      <3> QED
        BY <1>12, <3>1, <3>2 DEF Arrive
    <2> QED
      BY <1>4, <2>1, <2>2
  <1>13. CASE Egress \/ Polled \/ Sent \/ OpenArm \/ LaterArm \/ SessionExpires
    BY <1>4, <1>13 DEF Egress, Polled, Sent, OpenArm, LaterArm, SessionExpires
  <1>14. CASE UNCHANGED path
    BY <1>4, <1>14 DEF path
  <1> QED
    BY <1>5, <1>6, <1>7, <1>8, <1>9, <1>10, <1>11, <1>12, <1>13, <1>14 DEF PathNext, LoopStep

LEMMA PathTypeStep ==
    ASSUME PathType, [PathNext]_path
    PROVE  PathType'
  <1>1. CountsOK' /\ DeviceOK' /\ TunnelOK' /\ HistoryOK'
    BY DeviceStep, TunnelStep
  <1>2. /\ step' \in {"poll", "drain", "send", "select", "flush"}
        /\ session' \in BOOLEAN /\ cut' \in BOOLEAN
    <2>1. /\ step \in {"poll", "drain", "send", "select", "flush"}
          /\ session \in BOOLEAN /\ cut \in BOOLEAN
      BY DEF PathType
    <2> QED
      BY <2>1
         DEF PathNext, LoopStep, path, Ingress, Egress, Polled, CopyOut, SendNext, Sent,
             OpenArm, LaterArm, RecvPacket, RecvHandshake, Flush, FlushCut, Rebuild, Arrive,
             SessionExpires
  <1> QED
    BY <1>1, <1>2 DEF PathType

\* Type correctness of the way of a packet: the device's two rows can always be cut
\* into packets with nothing left over, every packet in them is one that was put in,
\* and what the tunnel holds, sends and gives back are such packets (wg/device.rs:37-152).
THEOREM PathTypeCorrect == PathSpec => []PathType
  <1> QED
    BY PathTypeInit, PathTypeStep, PTL DEF PathSpec
-----------------------------------------------------------------------------
(***************************************************************************)
(* Where things are while the task is at each of its steps.                *)
(***************************************************************************)
NothingUnread == step # "poll" => IsEmpty(recv)
NothingUnsent ==
    /\ step \in {"send", "select", "flush"} => IsEmpty(send)
    /\ step \in {"poll", "select", "flush"} => outgoing = <<>>
InHandWhenFlushing == step # "flush" => inHand = Control

Phases == NothingUnread /\ NothingUnsent /\ InHandWhenFlushing

LEMMA PhasesStep ==
    ASSUME Phases, [PathNext]_path
    PROVE  Phases'
  <1> USE DEF Phases, NothingUnread, NothingUnsent, InHandWhenFlushing
  <1>1. CASE Ingress \/ Egress \/ Polled
    BY <1>1 DEF Ingress, Egress, Polled
  <1>2. CASE CopyOut
    BY <1>2 DEF CopyOut, Emptied
  <1>3. CASE SendNext \/ Sent
    BY <1>3 DEF SendNext, Sent
  <1>4. CASE OpenArm \/ LaterArm \/ RecvPacket \/ Rebuild
    BY <1>4 DEF OpenArm, LaterArm, RecvPacket, Rebuild
  <1>5. CASE RecvHandshake \/ Flush \/ FlushCut
    BY <1>5 DEF RecvHandshake, Flush, FlushCut
  <1>6. CASE Arrive \/ SessionExpires
    BY <1>6 DEF Arrive, SessionExpires
  <1>7. CASE UNCHANGED path
    BY <1>7 DEF path
  <1> QED
    BY <1>1, <1>2, <1>3, <1>4, <1>5, <1>6, <1>7 DEF PathNext, LoopStep

LEMMA PhasesInvariant == PathSpec => []Phases
  <1>1. PathInit => Phases
    BY DEF PathInit, Phases, NothingUnread, NothingUnsent, InHandWhenFlushing, IsEmpty, Token
  <1> QED
    BY <1>1, PhasesStep, PTL DEF PathSpec

\* The task never sleeps on a packet it could have moved: whichever arm of the select
\* fires, and however recv is dropped, the device is empty by then (forward.rs:279-322).
THEOREM SleepsOnNothing == PathSpec => []NothingLeftBehind
  <1>1. Phases => NothingLeftBehind
    BY DEF Phases, NothingUnread, NothingUnsent, NothingLeftBehind, IsEmpty
  <1> QED
    BY <1>1, PhasesInvariant, PTL
-----------------------------------------------------------------------------
(***************************************************************************)
(* Both directions of the device implement PacketChannel, step by step.    *)
(***************************************************************************)
LEMMA UpStep ==
    ASSUME PathType, [PathNext]_path
    PROVE  [Up!Next]_<<Queued(recv), delivered>>
  <1>1. CASE Ingress
    <2>1. /\ recv' = Dequeue(recv) /\ ~IsEmpty(recv)
          /\ delivered' = Append(delivered, Dequeue(recv).buffer)
      BY <1>1 DEF Ingress
    <2>2. /\ Queued(recv) # <<>>
          /\ delivered' = Append(delivered, Head(Queued(recv)))
          /\ Queued(recv') = Tail(Queued(recv))
      BY <2>1, DequeueTakesFirst DEF PathType, DeviceOK
    <2>3. Up!Pass
      BY <2>2 DEF Up!Pass, Up!HandOn
    <2> QED
      BY <2>3 DEF Up!Next
  <1>2. CASE RecvPacket
    <2>1. delivered' = delivered /\ (recv' = Enqueue(recv, Head(socket)) \/ recv' = recv)
      BY <1>2 DEF RecvPacket
    <2>2. Head(socket) \in Inbound
      BY <1>2, HeadTailProperties DEF RecvPacket, PathType, TunnelOK
    <2>3. CASE recv' = Enqueue(recv, Head(socket))
      <3>1. Queued(recv') = Append(Queued(recv), Head(socket))
        BY <2>2, <2>3, PacketsAreRows, EnqueueAppends DEF PathType, DeviceOK
      <3>2. Up!Accept(Head(socket))
        BY <2>1, <3>1 DEF Up!Accept
      <3> QED
        BY <2>2, <3>2 DEF Up!Next
    <2> QED
      BY <2>1, <2>3
  <1>3. CASE Egress \/ Polled \/ CopyOut \/ SendNext \/ Sent \/ OpenArm \/ LaterArm
    BY <1>3 DEF Egress, Polled, CopyOut, SendNext, Sent, OpenArm, LaterArm
  <1>4. CASE RecvHandshake \/ Flush \/ FlushCut \/ Rebuild \/ Arrive \/ SessionExpires
    BY <1>4 DEF RecvHandshake, Flush, FlushCut, Rebuild, Arrive, SessionExpires
  <1>5. CASE UNCHANGED path
    BY <1>5 DEF path
  <1> QED
    BY <1>1, <1>2, <1>3, <1>4, <1>5 DEF PathNext, LoopStep

\* What is behind: copied out of the device and not yet sent, and still in it.
Behind == outgoing \o Queued(send)

LEMMA BehindType ==
    ASSUME PathType
    PROVE  /\ send \in Tokens /\ InStep(send) /\ spent.out \in Nat
           /\ Queued(send) \in Seq(Emitted(spent.out))
           /\ outgoing \in Seq(Emitted(spent.out))
           /\ Behind \in Seq(Emitted(spent.out))
  <1>1. /\ send \in Tokens /\ InStep(send) /\ spent.out \in Nat
        /\ Queued(send) \in Seq(Emitted(spent.out))
        /\ outgoing \in Seq(Emitted(spent.out))
    BY DEF PathType, DeviceOK, TunnelOK, CountsOK, Limit
  <1> QED
    BY <1>1, ConcatProperties DEF Behind

\* A packet smoltcp emits is the last of what is behind.
LEMMA EgressJoins ==
    ASSUME PathType, Egress
    PROVE  /\ spent'.out = spent.out + 1
           /\ \E l \in OutLengths :
                 /\ Packet(spent.out + 1, l) \in Outbound
                 /\ Behind' = Append(Behind, Packet(spent.out + 1, l))
                 /\ Behind' = Behind \o <<Packet(spent.out + 1, l)>>
  <1>1. CountsOK' /\ spent'.out = spent.out + 1 /\ spent'.out <= MaxOut
    <2>1. CountsOK /\ "out" \in DOMAIN Limit /\ Limit["out"] = MaxOut
      BY DEF PathType, Limit
    <2>2. /\ CountsOK' /\ spent'["out"] = spent["out"] + 1
          /\ spent["out"] < MaxOut /\ spent["out"] \in Nat
      BY <2>1, Counted DEF Egress, CountsOK, Spend
    <2> QED
      BY <2>2, PacketPathAssumption
  <1>2. PICK l \in OutLengths : send' = Transmitted(send, Packet(spent.out + 1, l))
    BY <1>1 DEF Egress
  <1> DEFINE p == Packet(spent.out + 1, l)
             F == Emitted(spent.out + 1)
  <1>3. spent.out \in Nat /\ spent.out + 1 \in Nat /\ spent.out + 1 <= MaxOut
    BY <1>1, BehindType
  <1>4. p \in F
    <2>1. spent.out + 1 \in 1..spent.out + 1
      BY <1>3
    <2> QED
      BY <2>1 DEF Emitted
  <1>5. p \in Outbound /\ p \in Seq(Int)
    BY <1>3, <1>4, PacketsAreRows
  <1>6. Queued(send') = Append(Queued(send), p)
    BY <1>2, <1>5, BehindType, TransmittedAppends
  <1>7. Queued(send) \in Seq(F) /\ outgoing \in Seq(F) /\ Behind \in Seq(F)
    BY <1>3, BehindType, EmittedGrows
  <1>8. outgoing \o Append(Queued(send), p) = Behind \o <<p>> /\ Append(Behind, p) = Behind \o <<p>>
    <2> HIDE DEF p, F
    <2>1. <<p>> \in Seq(F)
      BY <1>4
    <2>2. Append(Queued(send), p) = Queued(send) \o <<p>> /\ Append(Behind, p) = Behind \o <<p>>
      BY <1>4, <1>7, AppendIsConcat
    <2> QED
      BY <1>7, <2>1, <2>2, ConcatAssociative DEF Behind
  <1>9. Behind' = Behind \o <<p>> /\ Behind' = Append(Behind, p)
    BY <1>6, <1>8 DEF Behind, Egress
  <1> QED
    BY <1>1, <1>5, <1>9

\* What is copied out leaves the device and joins the outgoing packets.
LEMMA CopyOutKeeps ==
    ASSUME PathType, CopyOut
    PROVE  Behind' = Behind
  <1> DEFINE E == Emitted(spent.out)
  <1>1. send \in Tokens /\ InStep(send) /\ Queued(send) \in Seq(E) /\ outgoing \in Seq(E)
    BY BehindType
  <1>2. CASE IsEmpty(send)
    BY <1>2 DEF CopyOut, Emptied, Behind
  <1>3. CASE ~IsEmpty(send)
    <2>1. send' = Dequeue(send) /\ outgoing' = Append(outgoing, Dequeue(send).buffer)
      BY <1>3 DEF CopyOut, Emptied
    <2>2. /\ Queued(send) # <<>> /\ Queued(send') = Tail(Queued(send))
          /\ outgoing' = Append(outgoing, Head(Queued(send)))
      BY <1>1, <1>3, <2>1, DequeueTakesFirst
    <2> DEFINE h == Head(Queued(send))
               r == Tail(Queued(send))
    <2>3. h \in E /\ r \in Seq(E) /\ Queued(send) = <<h>> \o r
      BY <1>1, <2>2, HeadAndTail
    <2>4. outgoing' = outgoing \o <<h>>
      BY <1>1, <2>2, <2>3, AppendIsConcat
    <2>5. (outgoing \o <<h>>) \o r = outgoing \o (<<h>> \o r)
      BY <1>1, <2>3, ConcatAssociative
    <2> QED
      BY <2>2, <2>3, <2>4, <2>5 DEF Behind
  <1> QED
    BY <1>2, <1>3

\* While the task sends, the device is empty: what a failed send discards is everything.
LEMMA SendTakes ==
    ASSUME PathType, Phases, SendNext
    PROVE  /\ Behind = outgoing /\ Behind' = outgoing'
           /\ outgoing # <<>>
           /\ outgoing' = Tail(outgoing) \/ outgoing' = <<>>
  <1> DEFINE E == Emitted(spent.out)
  <1>1. send \in Tokens /\ InStep(send) /\ outgoing \in Seq(E)
    BY BehindType
  <1>2. /\ outgoing # <<>> /\ send' = send
        /\ outgoing' = Tail(outgoing) \/ outgoing' = <<>>
    BY DEF SendNext, AfterFailure
  <1>3. Queued(send) = <<>>
    BY <1>1, EmptyIsEmpty DEF SendNext, Phases, NothingUnsent
  <1>4. outgoing' \in Seq(E)
    BY <1>1, <1>2, HeadTailProperties, EmptySeq
  <1> QED
    BY <1>1, <1>2, <1>3, <1>4, ConcatEmptySeq DEF Behind

LEMMA DownStep ==
    ASSUME PathType, Phases, [PathNext]_path
    PROVE  [Down!Next]_<<outgoing \o Queued(send), offered>>
  <1>1. CASE Egress
    <2>1. PICK p \in Outbound : Behind' = Append(Behind, p)
      BY <1>1, EgressJoins
    <2>2. Down!Accept(p)
      BY <1>1, <2>1 DEF Down!Accept, Egress, Behind
    <2> QED
      BY <2>2 DEF Down!Next
  <1>2. CASE CopyOut
    BY <1>2, CopyOutKeeps DEF CopyOut, Behind
  <1>3. CASE SendNext
    <2>1. offered' = Append(offered, Head(outgoing))
      BY <1>3 DEF SendNext
    <2>2. Down!Pass \/ Down!PassAndDiscard
      BY <1>3, <2>1, SendTakes DEF Down!Pass, Down!PassAndDiscard, Down!HandOn, Behind
    <2> QED
      BY <2>2 DEF Down!Next
  <1>4. CASE Ingress \/ Polled \/ Sent \/ OpenArm \/ LaterArm \/ RecvPacket
    BY <1>4 DEF Ingress, Polled, Sent, OpenArm, LaterArm, RecvPacket
  <1>5. CASE RecvHandshake \/ Flush \/ FlushCut \/ Rebuild \/ Arrive \/ SessionExpires
    BY <1>5 DEF RecvHandshake, Flush, FlushCut, Rebuild, Arrive, SessionExpires
  <1>6. CASE UNCHANGED path
    BY <1>6 DEF path
  <1> QED
    BY <1>1, <1>2, <1>3, <1>4, <1>5, <1>6 DEF PathNext, LoopStep

\* Each direction of the device is a first-in first-out queue of whole packets,
\* although it is a row of bytes and a row of lengths (wg/device.rs:37-152): towards
\* smoltcp without loss, towards the tunnel with what a failed send gives up
\* (forward.rs:302-322).
THEOREM PacketsStayWhole == PathSpec => WholePackets
  <1>1. PathInit => Up!Init /\ Down!Init
    <2> SUFFICES ASSUME PathInit PROVE Up!Init /\ Down!Init
      OBVIOUS
    <2>1. Queued(recv) = <<>> /\ Queued(send) = <<>> /\ outgoing = <<>>
      BY NoPackets DEF PathInit
    <2>2. outgoing \o Queued(send) = <<>>
      BY <2>1
    <2> QED
      BY <2>1, <2>2 DEF PathInit, Up!Init, Down!Init
  <1>2. PathType /\ [PathNext]_path => [Up!Next]_<<Queued(recv), delivered>>
    BY UpStep
  <1>3. PathType /\ Phases /\ [PathNext]_path => [Down!Next]_<<outgoing \o Queued(send), offered>>
    BY DownStep
  <1> QED
    BY <1>1, <1>2, <1>3, PathTypeCorrect, PhasesInvariant, PTL
       DEF PathSpec, WholePackets, Up!Spec, Down!Spec
-----------------------------------------------------------------------------
(***************************************************************************)
(* The order of packets.  A packet's number is its first byte; one without *)
(* bytes has none and may stand anywhere.                                  *)
(***************************************************************************)
Rows == Seq(Int)
Less == {pq \in Rows \X Rows : pq[1] # <<>> /\ pq[2] # <<>> => pq[1][1] < pq[2][1]}
Differ == {pq \in Rows \X Rows : pq[1] # <<>> /\ pq[2] # <<>> => pq[1][1] # pq[2][1]}

InOrder(s, R) == \A i, j \in DOMAIN s : i < j => <<s[i], s[j]>> \in R
Across(s, t, R) == \A i \in DOMAIN s, j \in DOMAIN t : <<s[i], t[j]>> \in R

LEMMA ConcatPlaces ==
    ASSUME NEW S, NEW s \in Seq(S), NEW t \in Seq(S)
    PROVE  /\ Len(s) \in Nat /\ Len(t) \in Nat
           /\ DOMAIN s = 1..Len(s) /\ DOMAIN t = 1..Len(t)
           /\ DOMAIN (s \o t) = 1..Len(s) + Len(t)
           /\ \A i \in 1..Len(s) : (s \o t)[i] = s[i]
           /\ \A j \in 1..Len(t) : (s \o t)[Len(s) + j] = t[j]
  <1>1. Len(s) \in Nat /\ Len(t) \in Nat /\ DOMAIN s = 1..Len(s) /\ DOMAIN t = 1..Len(t)
    BY LenProperties
  <1>2. /\ s \o t \in Seq(S) /\ Len(s \o t) = Len(s) + Len(t)
        /\ \A i \in 1..Len(s) + Len(t) : (s \o t)[i] = IF i <= Len(s) THEN s[i] ELSE t[i - Len(s)]
    BY ConcatProperties
  <1>3. DOMAIN (s \o t) = 1..Len(s) + Len(t)
    BY <1>2, LenProperties
  <1>4. /\ \A i \in 1..Len(s) : i \in 1..Len(s) + Len(t) /\ i <= Len(s)
        /\ \A j \in 1..Len(t) : /\ Len(s) + j \in 1..Len(s) + Len(t)
                                /\ ~(Len(s) + j <= Len(s)) /\ (Len(s) + j) - Len(s) = j
    BY <1>1
  <1>5. \A i \in 1..Len(s) : (s \o t)[i] = s[i]
    BY <1>2, <1>4
  <1>6. \A j \in 1..Len(t) : (s \o t)[Len(s) + j] = t[j]
    BY <1>2, <1>4
  <1> QED
    BY <1>1, <1>3, <1>5, <1>6

\* One row after another is in order when each is and the first is before the second.
LEMMA OrderOfConcat ==
    ASSUME NEW S, NEW s \in Seq(S), NEW t \in Seq(S), NEW R
    PROVE  InOrder(s \o t, R) <=> InOrder(s, R) /\ InOrder(t, R) /\ Across(s, t, R)
  <1> DEFINE u == s \o t
             n == Len(s)
             m == Len(t)
  <1>1. /\ n \in Nat /\ m \in Nat /\ DOMAIN s = 1..n /\ DOMAIN t = 1..m
        /\ DOMAIN u = 1..n + m
        /\ \A i \in 1..n : u[i] = s[i]
        /\ \A j \in 1..m : u[n + j] = t[j]
    BY ConcatPlaces
  <1> HIDE DEF u, n, m
  <1>2. ASSUME InOrder(u, R) PROVE InOrder(s, R) /\ InOrder(t, R) /\ Across(s, t, R)
    <2>1. InOrder(s, R)
      <3>1. \A i \in 1..n : i \in 1..n + m
        BY <1>1
      <3> QED
        BY <1>1, <1>2, <3>1 DEF InOrder
    <2>2. InOrder(t, R)
      <3>1. ASSUME NEW i \in 1..m, NEW j \in 1..m, i < j PROVE <<t[i], t[j]>> \in R
        <4>1. n + i \in 1..n + m /\ n + j \in 1..n + m /\ n + i < n + j
          BY <1>1, <3>1
        <4>2. <<u[n + i], u[n + j]>> \in R
          BY <1>1, <1>2, <4>1 DEF InOrder
        <4> QED
          BY <1>1, <4>2
      <3> QED
        BY <1>1, <3>1 DEF InOrder
    <2>3. Across(s, t, R)
      <3>1. ASSUME NEW i \in 1..n, NEW j \in 1..m PROVE <<s[i], t[j]>> \in R
        <4>1. i \in 1..n + m /\ n + j \in 1..n + m /\ i < n + j
          BY <1>1
        <4>2. <<u[i], u[n + j]>> \in R
          BY <1>1, <1>2, <4>1 DEF InOrder
        <4> QED
          BY <1>1, <4>2
      <3> QED
        BY <1>1, <3>1 DEF Across
    <2> QED
      BY <2>1, <2>2, <2>3
  <1>3. ASSUME InOrder(s, R), InOrder(t, R), Across(s, t, R) PROVE InOrder(u, R)
    <2>1. ASSUME NEW i \in 1..n + m, NEW j \in 1..n + m, i < j PROVE <<u[i], u[j]>> \in R
      <3>1. CASE j \in 1..n
        <4>1. i \in 1..n
          BY <1>1, <2>1, <3>1
        <4> QED
          BY <1>1, <1>3, <2>1, <3>1, <4>1 DEF InOrder
      <3>2. CASE j \notin 1..n /\ i \in 1..n
        <4>1. j - n \in 1..m /\ n + (j - n) = j
          BY <1>1, <3>2
        <4>2. <<s[i], t[j - n]>> \in R
          BY <1>1, <1>3, <3>2, <4>1 DEF Across
        <4>3. u[i] = s[i] /\ u[j] = t[j - n]
          BY <1>1, <3>2, <4>1
        <4> QED
          BY <4>2, <4>3
      <3>3. CASE j \notin 1..n /\ i \notin 1..n
        <4>1. /\ j - n \in 1..m /\ n + (j - n) = j
              /\ i - n \in 1..m /\ n + (i - n) = i /\ i - n < j - n
          BY <1>1, <2>1, <3>3
        <4>2. <<t[i - n], t[j - n]>> \in R
          BY <1>1, <1>3, <4>1 DEF InOrder
        <4>3. u[i] = t[i - n] /\ u[j] = t[j - n]
          BY <1>1, <4>1
        <4> QED
          BY <4>2, <4>3
      <3> QED
        BY <3>1, <3>2, <3>3
    <2> QED
      BY <1>1, <2>1 DEF InOrder
  <1> QED
    BY <1>2, <1>3 DEF u

LEMMA AcrossConcat ==
    ASSUME NEW S, NEW s \in Seq(S), NEW t \in Seq(S), NEW u \in Seq(S), NEW R
    PROVE  /\ Across(s \o t, u, R) <=> Across(s, u, R) /\ Across(t, u, R)
           /\ Across(u, s \o t, R) <=> Across(u, s, R) /\ Across(u, t, R)
  <1> DEFINE v == s \o t
             n == Len(s)
             m == Len(t)
  <1>1. /\ n \in Nat /\ m \in Nat /\ DOMAIN s = 1..n /\ DOMAIN t = 1..m
        /\ DOMAIN v = 1..n + m
        /\ \A i \in 1..n : v[i] = s[i]
        /\ \A j \in 1..m : v[n + j] = t[j]
    BY ConcatPlaces
  <1>2. \A i \in 1..n : i \in DOMAIN v
    BY <1>1
  <1>3. \A j \in 1..m : n + j \in DOMAIN v
    BY <1>1
  <1>4. \A k \in DOMAIN v : (k \in 1..n /\ v[k] = s[k]) \/ (k - n \in 1..m /\ v[k] = t[k - n])
    <2>1. ASSUME NEW k \in 1..n + m, k \notin 1..n PROVE k - n \in 1..m /\ v[k] = t[k - n]
      <3>1. k - n \in 1..m /\ n + (k - n) = k
        BY <1>1, <2>1
      <3> HIDE DEF v, n, m
      <3> QED
        BY <1>1, <3>1
    <2> QED
      BY <1>1, <2>1
  <1> HIDE DEF v, n, m
  <1>5. Across(v, u, R) <=> Across(s, u, R) /\ Across(t, u, R)
    <2>1. ASSUME Across(v, u, R) PROVE Across(s, u, R) /\ Across(t, u, R)
      BY <1>1, <1>2, <1>3, <2>1 DEF Across
    <2>2. ASSUME Across(s, u, R), Across(t, u, R) PROVE Across(v, u, R)
      BY <1>1, <1>4, <2>2 DEF Across
    <2> QED
      BY <2>1, <2>2
  <1>6. Across(u, v, R) <=> Across(u, s, R) /\ Across(u, t, R)
    <2>1. ASSUME Across(u, v, R) PROVE Across(u, s, R) /\ Across(u, t, R)
      BY <1>1, <1>2, <1>3, <2>1 DEF Across
    <2>2. ASSUME Across(u, s, R), Across(u, t, R) PROVE Across(u, v, R)
      BY <1>1, <1>4, <2>2 DEF Across
    <2> QED
      BY <2>1, <2>2
  <1> QED
    BY <1>5, <1>6 DEF v

\* Short rows, and what the two relations have to do with each other.
LEMMA ShortRows ==
    ASSUME NEW R, NEW p, NEW s
    PROVE  /\ InOrder(<<>>, R) /\ InOrder(<<p>>, R)
           /\ Across(<<>>, s, R) /\ Across(s, <<>>, R)
  BY DEF InOrder, Across

LEMMA LessDiffers ==
    ASSUME NEW s, NEW t
    PROVE  /\ InOrder(s, Less) => InOrder(s, Differ)
           /\ Across(s, t, Less) => Across(s, t, Differ)
           /\ Across(s, t, Differ) => Across(t, s, Differ)
  <1>1. \A p, q : <<p, q>> \in Less => <<p, q>> \in Differ
    <2> SUFFICES ASSUME NEW p \in Rows, NEW q \in Rows, p # <<>>, q # <<>>, p[1] < q[1]
                 PROVE  p[1] # q[1]
      BY DEF Less, Differ
    <2>1. p[1] \in Int /\ q[1] \in Int
      <3>1. 1 \in 1..Len(p) /\ 1 \in 1..Len(q)
        BY EmptySeq DEF Rows
      <3> QED
        BY <3>1, ElementOfSeq DEF Rows
    <2> QED
      BY <2>1
  <1>2. \A p, q : <<p, q>> \in Differ => <<q, p>> \in Differ
    BY DEF Differ
  <1> QED
    BY <1>1, <1>2 DEF InOrder, Across

\* What is emitted next comes after everything emitted before.
LEMMA NextIsLast ==
    ASSUME NEW n \in Nat, NEW l \in OutLengths, NEW s \in Seq(Emitted(n))
    PROVE  Across(s, <<Packet(n + 1, l)>>, Less)
  <1> DEFINE p == Packet(n + 1, l)
  <1>1. OutLengths \subseteq Nat
    BY PacketPathAssumption
  <1>2. p \in Rows /\ (p # <<>> => p[1] = n + 1)
    <2>1. p \in Rows /\ DOMAIN p = 1..l /\ \A i \in 1..l : p[i] = n + 1
      BY <1>1 DEF Packet, Rows
    <2>2. p # <<>> => 1 \in 1..l
      <3>1. p # <<>> => 1 \in 1..Len(p) /\ Len(p) = l
        BY <1>1, <2>1, EmptySeq, LenProperties DEF Rows, Packet
      <3> QED
        BY <3>1
    <2> QED
      BY <2>1, <2>2
  <1>3. ASSUME NEW i \in DOMAIN s PROVE <<s[i], p>> \in Less
    <2>1. s[i] \in Emitted(n)
      BY ElementOfSeq, LenProperties
    <2>2. PICK k \in 1..n, j \in OutLengths : s[i] = Packet(k, j)
      BY <2>1 DEF Emitted
    <2>3. s[i] \in Rows
      BY <2>1, PacketsAreRows DEF Rows
    <2>4. s[i] # <<>> => s[i][1] = k
      <3> DEFINE r == Packet(k, j)
      <3>1. DOMAIN r = 1..j /\ \A x \in 1..j : r[x] = k
        BY DEF Packet
      <3>2. r \in Rows
        BY <2>2, <2>3
      <3>3. r # <<>> => 1 \in 1..j
        <4>1. DOMAIN r = 1..Len(r)
          BY <3>2, LenProperties DEF Rows
        <4>2. r # <<>> => 1 \in 1..Len(r)
          BY <3>2, EmptySeq DEF Rows
        <4> QED
          BY <3>1, <4>1, <4>2
      <3> HIDE DEF r
      <3> QED
        BY <2>2, <3>1, <3>3 DEF r
    <2>5. k < n + 1
      OBVIOUS
    <2> HIDE DEF p
    <2> QED
      BY <1>2, <2>3, <2>4, <2>5 DEF Less
  <1> HIDE DEF p
  <1> QED
    BY <1>3 DEF Across, p
-----------------------------------------------------------------------------
(***************************************************************************)
(* The packets on their way out stand in three rows: those sent, those the *)
(* library has (the one in hand first), and those behind it in the device. *)
(* What the library has comes before what is behind it, and both differ    *)
(* from what was sent; until a flush is cut short they also come after it. *)
(***************************************************************************)
Library == IF inHand = Control THEN held ELSE <<inHand>> \o held

Lined(w, l, b, c) ==
    /\ InOrder(l, Less) /\ InOrder(b, Less) /\ Across(l, b, Less)
    /\ InOrder(w, Differ) /\ Across(w, l, Differ) /\ Across(w, b, Differ)
    /\ ~c => InOrder(w, Less) /\ Across(w, l, Less) /\ Across(w, b, Less)

LibraryFlushed == ~cut /\ session /\ step # "flush" => Library = <<>>

OrderInv == Lined(wire, Library, Behind, cut) /\ LibraryFlushed

\* A packet joins the end.
LEMMA LinedJoin ==
    ASSUME NEW n \in Nat, NEW l \in OutLengths, NEW c \in BOOLEAN,
           NEW w \in Seq(Emitted(n)), NEW k \in Seq(Emitted(n)), NEW b \in Seq(Emitted(n)),
           Lined(w, k, b, c)
    PROVE  Lined(w, k, b \o <<Packet(n + 1, l)>>, c)
  <1> DEFINE p == Packet(n + 1, l)
             F == Emitted(n + 1)
  <1>1. p \in F
    <2>1. n + 1 \in 1..n + 1
      OBVIOUS
    <2> QED
      BY <2>1 DEF Emitted
  <1>2. w \in Seq(F) /\ k \in Seq(F) /\ b \in Seq(F)
    BY EmittedGrows
  <1>3. Across(w, <<p>>, Less) /\ Across(k, <<p>>, Less) /\ Across(b, <<p>>, Less)
    BY NextIsLast
  <1> HIDE DEF p, F
  <1>4. <<p>> \in Seq(F)
    BY <1>1
  <1>5. InOrder(b \o <<p>>, Less)
    BY <1>2, <1>3, <1>4, OrderOfConcat, ShortRows DEF Lined
  <1>6. /\ Across(k, b \o <<p>>, Less)
        /\ ~c => Across(w, b \o <<p>>, Less)
    BY <1>2, <1>3, <1>4, AcrossConcat DEF Lined
  <1>7. Across(w, b \o <<p>>, Differ)
    <2>1. Across(w, <<p>>, Differ)
      BY <1>3, LessDiffers
    <2> QED
      BY <1>2, <1>4, <2>1, AcrossConcat DEF Lined
  <1> QED
    BY <1>5, <1>6, <1>7 DEF Lined, p

\* The first of the library's packets is sent.
LEMMA LinedFlush ==
    ASSUME NEW E, NEW p \in E, NEW c \in BOOLEAN,
           NEW w \in Seq(E), NEW k \in Seq(E), NEW b \in Seq(E),
           Lined(w, <<p>> \o k, b, c)
    PROVE  Lined(w \o <<p>>, k, b, c) /\ Lined(w, k, b, c)
  <1>1. <<p>> \in Seq(E)
    OBVIOUS
  <1>2. InOrder(k, Less) /\ Across(<<p>>, k, Less)
    BY <1>1, OrderOfConcat DEF Lined
  <1>3. /\ Across(<<p>>, b, Less) /\ Across(k, b, Less)
        /\ Across(w, <<p>>, Differ) /\ Across(w, k, Differ)
        /\ ~c => Across(w, <<p>>, Less) /\ Across(w, k, Less)
    BY <1>1, AcrossConcat DEF Lined
  <1>4. Across(<<p>>, k, Differ) /\ Across(<<p>>, b, Differ)
    BY <1>2, <1>3, LessDiffers
  <1>5. InOrder(w \o <<p>>, Differ) /\ (~c => InOrder(w \o <<p>>, Less))
    BY <1>1, <1>3, OrderOfConcat, ShortRows DEF Lined
  <1>6. /\ Across(w \o <<p>>, k, Differ) /\ Across(w \o <<p>>, b, Differ)
        /\ ~c => Across(w \o <<p>>, k, Less) /\ Across(w \o <<p>>, b, Less)
    BY <1>1, <1>2, <1>3, <1>4, AcrossConcat DEF Lined
  <1> QED
    BY <1>2, <1>3, <1>5, <1>6 DEF Lined

\* The first of those behind is taken up, by the socket or by the library; or it and
\* the others are given up.
LEMMA LinedSend ==
    ASSUME NEW E, NEW p \in E, NEW c \in BOOLEAN,
           NEW w \in Seq(E), NEW k \in Seq(E), NEW b \in Seq(E),
           Lined(w, k, <<p>> \o b, c)
    PROVE  /\ Lined(w, k \o <<p>>, b, c)
           /\ Lined(w, k, b, c)
           /\ c \/ k = <<>> => Lined(w \o <<p>>, k, b, c)
  <1>1. <<p>> \in Seq(E)
    OBVIOUS
  <1>2. InOrder(b, Less) /\ Across(<<p>>, b, Less)
    BY <1>1, OrderOfConcat DEF Lined
  <1>3. /\ Across(k, <<p>>, Less) /\ Across(k, b, Less)
        /\ Across(w, <<p>>, Differ) /\ Across(w, b, Differ)
        /\ ~c => Across(w, <<p>>, Less) /\ Across(w, b, Less)
    BY <1>1, AcrossConcat DEF Lined
  <1>4. Across(<<p>>, k, Differ) /\ Across(<<p>>, b, Differ)
    BY <1>2, <1>3, LessDiffers
  <1>5. Lined(w, k, b, c)
    BY <1>2, <1>3 DEF Lined
  <1>6. Lined(w, k \o <<p>>, b, c)
    <2>1. InOrder(k \o <<p>>, Less) /\ Across(k \o <<p>>, b, Less)
      BY <1>1, <1>2, <1>3, OrderOfConcat, AcrossConcat, ShortRows DEF Lined
    <2>2. /\ Across(w, k \o <<p>>, Differ)
          /\ ~c => Across(w, k \o <<p>>, Less)
      BY <1>1, <1>3, AcrossConcat DEF Lined
    <2> QED
      BY <1>2, <1>3, <2>1, <2>2 DEF Lined
  <1>7. ASSUME c \/ k = <<>> PROVE Lined(w \o <<p>>, k, b, c)
    <2>1. InOrder(w \o <<p>>, Differ) /\ (~c => InOrder(w \o <<p>>, Less))
      BY <1>1, <1>3, OrderOfConcat, ShortRows DEF Lined
    <2>2. /\ Across(w \o <<p>>, k, Differ) /\ Across(w \o <<p>>, b, Differ)
          /\ ~c => Across(w \o <<p>>, b, Less)
      BY <1>1, <1>2, <1>3, <1>4, AcrossConcat DEF Lined
    <2>3. ~c => Across(w \o <<p>>, k, Less)
      BY <1>7, ShortRows
    <2> QED
      BY <1>2, <1>3, <2>1, <2>2, <2>3 DEF Lined
  <1> QED
    BY <1>5, <1>6, <1>7

\* What is given up leaves no trace in the order.
LEMMA LinedDrop ==
    ASSUME NEW w, NEW k, NEW b, NEW c \in BOOLEAN, Lined(w, k, b, c)
    PROVE  Lined(w, <<>>, b, c) /\ Lined(w, k, <<>>, c) /\ Lined(w, k, b, TRUE)
  BY ShortRows DEF Lined

\* The steps that touch neither row, and those that only look at them.
LEMMA RowsStay ==
    ASSUME OrderInv, UNCHANGED <<wire, held, inHand, outgoing, send, cut>>,
           session' => session, step' = "flush" \/ step # "flush"
    PROVE  OrderInv'
  <1>1. Library' = Library /\ Behind' = Behind
    BY DEF Library, Behind
  <1> QED
    BY <1>1 DEF OrderInv, LibraryFlushed

LEMMA OrderStep ==
    ASSUME PathType, Phases, OrderInv, [PathNext]_path
    PROVE  OrderInv'
  <1> DEFINE E == Emitted(spent.out)
  <1>1. /\ spent.out \in Nat /\ Control \notin E /\ cut \in BOOLEAN
        /\ wire \in Seq(E) /\ held \in Seq(E) /\ outgoing \in Seq(E) /\ Behind \in Seq(E)
        /\ inHand \in E \cup {Control} /\ Library \in Seq(E)
    <2>1. /\ spent.out \in Nat /\ outgoing \in Seq(E) /\ Behind \in Seq(E)
          /\ cut \in BOOLEAN /\ wire \in Seq(E) /\ held \in Seq(E)
          /\ inHand \in E \cup {Control}
      BY BehindType DEF PathType, TunnelOK, HistoryOK
    <2>2. inHand # Control => <<inHand>> \o held \in Seq(E)
      BY <2>1, ConcatProperties
    <2> QED
      BY <2>1, <2>2, PacketsAreRows DEF Library
  <1>2. Lined(wire, Library, Behind, cut) /\ LibraryFlushed
    BY DEF OrderInv
  <1>3. CASE Egress
    <2>1. PICK l \in OutLengths : Behind' = Behind \o <<Packet(spent.out + 1, l)>>
      BY <1>3, EgressJoins
    <2>2. UNCHANGED <<step, session, cut, wire>> /\ Library' = Library
      BY <1>3 DEF Egress, Library
    <2>3. Lined(wire, Library, Behind', cut)
      BY <1>1, <1>2, <2>1, LinedJoin
    <2> QED
      BY <1>2, <2>2, <2>3 DEF OrderInv, LibraryFlushed
  <1>4. CASE CopyOut
    <2>1. UNCHANGED <<session, cut, wire>> /\ Library' = Library /\ step' # "flush" /\ step # "flush"
      BY <1>4 DEF CopyOut, Library
    <2> QED
      BY <1>2, <1>4, <2>1, CopyOutKeeps DEF OrderInv, LibraryFlushed
  <1>5. CASE SendNext
    <2> DEFINE p == Head(outgoing)
               r == Tail(outgoing)
    <2>1. /\ Behind = <<p>> \o r /\ p \in E /\ r \in Seq(E)
          /\ Behind' = r \/ Behind' = <<>>
      BY <1>1, <1>5, SendTakes, HeadAndTail
    <2>2. /\ step = "send" /\ UNCHANGED <<step, session, cut>>
          /\ inHand = Control /\ inHand' = Control /\ Library = held /\ Library' = held'
      BY <1>5 DEF SendNext, Phases, InHandWhenFlushing, Library
    <2>3. /\ session => held' = held /\ (wire' = wire \/ wire' = Append(wire, p))
          /\ ~session => held' = Append(held, p) /\ wire' = wire
      BY <1>5 DEF SendNext
    <2>4. Append(wire, p) = wire \o <<p>> /\ Append(held, p) = held \o <<p>>
      BY <1>1, <2>1, AppendIsConcat
    <2> HIDE DEF p, r, E
    <2>5. /\ Lined(wire, held \o <<p>>, r, cut)
          /\ Lined(wire, held, r, cut)
          /\ cut \/ held = <<>> => Lined(wire \o <<p>>, held, r, cut)
      BY <1>1, <1>2, <2>1, <2>2, LinedSend
    <2>6. session => cut \/ held = <<>>
      BY <1>1, <1>2, <2>2 DEF LibraryFlushed
    <2>7. Lined(wire', held', r, cut)
      BY <2>3, <2>4, <2>5, <2>6
    <2>8. Lined(wire', held', <<>>, cut)
      BY <1>1, <2>7, LinedDrop
    <2>9. Lined(wire', Library', Behind', cut')
      BY <2>1, <2>2, <2>7, <2>8
    <2>10. LibraryFlushed'
      BY <1>2, <2>2, <2>3 DEF LibraryFlushed
    <2> QED
      BY <2>9, <2>10 DEF OrderInv
  <1>6. CASE Flush
    <2>1. /\ step = "flush" /\ UNCHANGED cut /\ Behind' = Behind
          /\ wire' = IF inHand = Control THEN wire ELSE Append(wire, inHand)
      BY <1>6 DEF Flush, Behind
    <2>2. Library' = held /\ (step' # "flush" => Library' = <<>>)
      <3>1. CASE held # <<>> /\ inHand' = Head(held) /\ held' = Tail(held) /\ step' = step
        <4>1. Head(held) \in E /\ held = <<Head(held)>> \o Tail(held)
          BY <1>1, <3>1, HeadAndTail
        <4>2. inHand' # Control
          BY <1>1, <3>1, <4>1
        <4> QED
          BY <2>1, <3>1, <4>1, <4>2 DEF Library
      <3>2. CASE held = <<>> /\ inHand' = Control /\ held' = held
        BY <3>2 DEF Library
      <3> QED
        BY <1>6, <3>1, <3>2 DEF Flush
    <2>3. Lined(wire', held, Behind, cut)
      <3>1. CASE inHand = Control
        BY <1>2, <2>1, <3>1 DEF Library
      <3>2. CASE inHand # Control
        <4>1. inHand \in E /\ Library = <<inHand>> \o held /\ wire' = wire \o <<inHand>>
          BY <1>1, <2>1, <3>2, AppendIsConcat DEF Library
        <4> HIDE DEF E
        <4> QED
          BY <1>1, <1>2, <4>1, LinedFlush
      <3> QED
        BY <3>1, <3>2
    <2> QED
      BY <2>1, <2>2, <2>3 DEF OrderInv, LibraryFlushed
  <1>7. CASE FlushCut
    <2>1. cut' = TRUE /\ wire' = wire /\ Behind' = Behind /\ Library' = held
      BY <1>7 DEF FlushCut, Behind, Library
    <2>2. Lined(wire, held, Behind, cut)
      <3>1. CASE inHand = Control
        BY <1>2, <3>1 DEF Library
      <3>2. CASE inHand # Control
        <4>1. inHand \in E /\ Library = <<inHand>> \o held
          BY <1>1, <3>2 DEF Library
        <4> HIDE DEF E
        <4> QED
          BY <1>1, <1>2, <4>1, LinedFlush
      <3> QED
        BY <3>1, <3>2
    <2> QED
      BY <1>1, <2>1, <2>2, LinedDrop DEF OrderInv, LibraryFlushed
  <1>8. CASE RecvHandshake
    <2>1. /\ step = "select" /\ step' = "flush" /\ inHand' = Control
          /\ UNCHANGED <<wire, held, outgoing, send, cut>>
      BY <1>8 DEF RecvHandshake
    <2>2. Library' = Library /\ Behind' = Behind
      BY <2>1 DEF Library, Behind, Phases, InHandWhenFlushing
    <2> QED
      BY <1>2, <2>1, <2>2 DEF OrderInv, LibraryFlushed
  <1>9. CASE Rebuild
    <2>1. /\ step = "select" /\ UNCHANGED <<wire, inHand, outgoing, send, cut>>
          /\ \/ held' = <<>> /\ session' = FALSE
             \/ UNCHANGED <<held, session>>
      BY <1>9 DEF Rebuild
    <2>2. inHand = Control /\ Behind' = Behind /\ Library = held /\ Library' = held'
      BY <2>1 DEF Behind, Library, Phases, InHandWhenFlushing
    <2>3. Lined(wire, <<>>, Behind, cut)
      BY <1>1, <1>2, LinedDrop
    <2> QED
      BY <1>2, <2>1, <2>2, <2>3 DEF OrderInv, LibraryFlushed
  <1>10. CASE Ingress \/ Polled \/ Sent \/ OpenArm \/ LaterArm \/ RecvPacket \/ Arrive \/ SessionExpires
    <2>1. /\ UNCHANGED <<wire, held, inHand, outgoing, send, cut>>
          /\ session' => session
          /\ step' = step \/ step # "flush"
      BY <1>10 DEF Ingress, Polled, Sent, OpenArm, LaterArm, RecvPacket, Arrive, SessionExpires
    <2>2. step' = "flush" \/ step # "flush"
      BY <2>1
    <2> QED
      BY <2>1, <2>2, RowsStay
  <1>11. CASE UNCHANGED path
    <2>1. /\ UNCHANGED <<wire, held, inHand, outgoing, send, cut>>
          /\ session' => session
          /\ step' = "flush" \/ step # "flush"
      BY <1>11 DEF path
    <2> QED
      BY <2>1, RowsStay
  <1> QED
    BY <1>3, <1>4, <1>5, <1>6, <1>7, <1>8, <1>9, <1>10, <1>11 DEF PathNext, LoopStep

\* The peer gets no packet twice, and in the order smoltcp sent them unless a flush
\* was cut short (tunnel.rs:80-128, forward.rs:302-322).
THEOREM WireInOrder == PathSpec => []OnTheWire
  <1>1. PathInit => OrderInv
    <2> SUFFICES ASSUME PathInit PROVE OrderInv
      OBVIOUS
    <2>1. wire = <<>> /\ Library = <<>> /\ Behind = <<>>
      BY NoPackets DEF PathInit, Library, Behind
    <2> QED
      BY <2>1, ShortRows DEF OrderInv, Lined, LibraryFlushed
  <1>2. PathType /\ Phases /\ OrderInv /\ [PathNext]_path => OrderInv'
    BY OrderStep
  <1>3. PathType /\ OrderInv => OnTheWire
    <2> SUFFICES ASSUME PathType, OrderInv PROVE OnTheWire
      OBVIOUS
    <2>1. DOMAIN wire \subseteq Int
      BY LenProperties DEF PathType, HistoryOK
    <2>2. InOrder(wire, Differ) /\ (~cut => InOrder(wire, Less))
      BY DEF OrderInv, Lined
    <2>3. ASSUME NEW i \in DOMAIN wire, NEW j \in DOMAIN wire, i # j, wire[i] # <<>>
          PROVE  wire[i] # wire[j]
      <3>1. i < j \/ j < i
        BY <2>1, <2>3
      <3>2. <<wire[i], wire[j]>> \in Differ \/ <<wire[j], wire[i]>> \in Differ
        BY <2>2, <3>1 DEF InOrder
      <3> QED
        BY <2>3, <3>2 DEF Differ
    <2>4. ASSUME ~cut, NEW i \in DOMAIN wire, NEW j \in DOMAIN wire, i < j,
                 wire[i] # <<>>, wire[j] # <<>>
          PROVE  wire[i][1] < wire[j][1]
      BY <2>2, <2>4 DEF InOrder, Less
    <2> QED
      BY <2>3, <2>4 DEF OnTheWire
  <1> QED
    BY <1>1, <1>2, <1>3, PathTypeCorrect, PhasesInvariant, PTL DEF PathSpec
=============================================================================
