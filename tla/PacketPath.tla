----------------------------- MODULE PacketPath -----------------------------
(***************************************************************************)
(* The way of a packet between smoltcp and the UDP socket: the device with *)
(* its two queues (wg/device.rs), Tunnel::send and Tunnel::recv            *)
(* (wg/tunnel.rs), and the order in which the stack task goes through them *)
(* (wg/forward.rs run): poll smoltcp, drain what it sent into the tunnel,  *)
(* then sleep in the select, whose tunnel.recv arm is dropped whenever     *)
(* another arm is ready.                                                   *)
(*                                                                         *)
(* A packet is the sequence of its bytes, all of them its number, so that  *)
(* a packet cut or mixed with another is none.  boringtun is modelled by   *)
(* what the code relies on: without a session it holds the packets given   *)
(* to it; a handshake gives a session, and the held packets are taken out  *)
(* of it one by one by the loop in recv.  The handshake's age, and when    *)
(* the watchdog bounces the tunnel, are Watchdog's; the two modules share  *)
(* no name, so that a third can extend both.                               *)
(***************************************************************************)
EXTENDS Integers, Sequences

CONSTANTS
  InLengths,       \* lengths of packets from the peer
  OutLengths,      \* lengths of packets smoltcp emits
  MaxIn, MaxOut,   \* bounds on the packets each way
  MaxHandshakes,   \* bound on the peer's handshake messages
  MaxOpens,        \* bound on connections opened
  MaxFaults,       \* bound on failures of the UDP socket
  Control          \* a datagram that carries no packet

ASSUME PacketPathAssumption ==
  /\ InLengths \cup OutLengths \subseteq Nat
  /\ {MaxIn, MaxOut, MaxHandshakes, MaxOpens, MaxFaults} \subseteq Nat
  /\ Control \notin Seq(Int)

VARIABLES
  step,       \* where the stack task is
  recv, send, \* the device's tokens: lengths, bytes and a scratch buffer
  outgoing,   \* packets copied out of the device, not yet given to the tunnel
  session,    \* has the tunnel a session?
  held,       \* packets the library holds until it has one
  inHand,     \* the datagram recv is sending, while step = "flush"
  socket,     \* datagrams waiting in the UDP socket
  delivered,  \* packets smoltcp was given
  offered,    \* packets given to the tunnel
  wire,       \* packets sent to the peer
  cut,        \* was a flush ever cut short?
  spent       \* how much of each bound is used

path == <<step, recv, send, outgoing, session, held, inHand, socket, delivered, offered, wire, cut, spent>>

Packet(n, l) == [i \in 1..l |-> n]

(* The peer's packets have negative numbers here, smoltcp's positive ones. *)
Inbound == {Packet(-n, l) : n \in 1..MaxIn, l \in InLengths}
Outbound == {Packet(n, l) : n \in 1..MaxOut, l \in OutLengths}

Limit == [in |-> MaxIn, out |-> MaxOut, handshakes |-> MaxHandshakes, opens |-> MaxOpens, faults |-> MaxFaults]

Spend(what) == spent[what] < Limit[what] /\ spent' = [spent EXCEPT ![what] = @ + 1]

---------------------------------------------------------------------------
(* PacketQueue and Token: the lengths, the bytes of all packets in a row,  *)
(* and the buffer a packet is taken out into.                              *)

Token == [lengths |-> <<>>, bytes |-> <<>>, buffer |-> <<>>]

Enqueue(q, p) == [q EXCEPT !.lengths = Append(@, Len(p)), !.bytes = @ \o p]

(* mutant: the scratch buffer is not cleared *)
DequeueOnto(q) ==
  [lengths |-> Tail(q.lengths),
   bytes |-> SubSeq(q.bytes, Head(q.lengths) + 1, Len(q.bytes)),
   buffer |-> q.buffer \o SubSeq(q.bytes, 1, Head(q.lengths))]

(* Callers ask IsEmpty first. *)
Dequeue(q) ==
  [lengths |-> Tail(q.lengths),
   bytes |-> SubSeq(q.bytes, Head(q.lengths) + 1, Len(q.bytes)),
   buffer |-> SubSeq(q.bytes, 1, Head(q.lengths))]

(* mutant: the bytes are asked, and a packet may have none *)
NoBytes(q) == q.bytes = <<>>

IsEmpty(q) == q.lengths = <<>>

(* TxToken::consume: the buffer gets the packet's length and is filled in. *)
Transmitted(q, p) == Enqueue([q EXCEPT !.buffer = p], p)

---------------------------------------------------------------------------
(* Step 1: iface.poll.  smoltcp takes every received packet, and emits     *)
(* packets in answer to them or on its own account.                        *)

Ingress ==
  /\ step = "poll"
  /\ ~IsEmpty(recv)
  /\ recv' = Dequeue(recv)
  /\ delivered' = Append(delivered, recv'.buffer)
  /\ UNCHANGED <<step, send, outgoing, session, held, inHand, socket, offered, wire, cut, spent>>

Egress ==
  /\ step = "poll"
  /\ Spend("out")
  /\ \E l \in OutLengths : send' = Transmitted(send, Packet(spent'.out, l))
  /\ UNCHANGED <<step, recv, outgoing, session, held, inHand, socket, delivered, offered, wire, cut>>

Polled ==
  /\ step = "poll"
  /\ IsEmpty(recv)
  /\ step' = "drain"
  /\ UNCHANGED <<recv, send, outgoing, session, held, inHand, socket, delivered, offered, wire, cut, spent>>

---------------------------------------------------------------------------
(* Step 2: everything smoltcp queued is copied out, then sent; the first   *)
(* failure drops the rest.                                                 *)

(* mutant: one packet a round *)
TookOne == outgoing # <<>> \/ IsEmpty(send)

Emptied == IsEmpty(send)

CopyOut ==
  /\ step = "drain"
  /\ \/ /\ ~Emptied
        /\ send' = Dequeue(send)
        /\ outgoing' = Append(outgoing, send'.buffer)
        /\ UNCHANGED step
     \/ /\ Emptied
        /\ step' = "send"
        /\ UNCHANGED <<send, outgoing>>
  /\ UNCHANGED <<recv, session, held, inHand, socket, delivered, offered, wire, cut, spent>>

(* mutant: what failed is tried again, though the library may hold it *)
KeepFailed == outgoing

AfterFailure == <<>>

(* Tunnel::send.  With a session the packet becomes a datagram; without    *)
(* one the library holds it, and what is sent is its handshake message.    *)
SendNext ==
  /\ step = "send"
  /\ outgoing # <<>>
  /\ offered' = Append(offered, Head(outgoing))
  /\ held' = IF session THEN held ELSE Append(held, Head(outgoing))
  /\ \/ /\ wire' = IF session THEN Append(wire, Head(outgoing)) ELSE wire
        /\ outgoing' = Tail(outgoing)
        /\ UNCHANGED spent
     \/ /\ Spend("faults")
        /\ outgoing' = AfterFailure
        /\ UNCHANGED wire
  /\ UNCHANGED <<step, recv, send, session, inHand, socket, delivered, cut>>

Sent ==
  /\ step = "send"
  /\ outgoing = <<>>
  /\ step' = "select"
  /\ UNCHANGED <<recv, send, outgoing, session, held, inHand, socket, delivered, offered, wire, cut, spent>>

---------------------------------------------------------------------------
(* Step 3: the select.  It is biased: the open arm comes before            *)
(* tunnel.recv, the timer, the notification and the deadline after it.     *)

OpenArm ==
  /\ step = "select"
  /\ Spend("opens")
  /\ step' = "poll"
  /\ UNCHANGED <<recv, send, outgoing, session, held, inHand, socket, delivered, offered, wire, cut>>

LaterArm ==
  /\ step = "select"
  /\ socket = <<>>
  /\ step' = "poll"
  /\ UNCHANGED <<recv, send, outgoing, session, held, inHand, socket, delivered, offered, wire, cut, spent>>

(* Tunnel::recv, a datagram with a packet: read, decrypted and enqueued    *)
(* without an await in between.  Without a session it decrypts to nothing. *)
RecvPacket ==
  /\ step = "select"
  /\ socket # <<>>
  /\ Head(socket) # Control
  /\ socket' = Tail(socket)
  /\ recv' = IF session THEN Enqueue(recv, Head(socket)) ELSE recv
  /\ step' = "poll"
  /\ UNCHANGED <<send, outgoing, session, held, inHand, delivered, offered, wire, cut, spent>>

(* Tunnel::recv, a handshake message: the library has a session and an     *)
(* answer to send.                                                         *)
RecvHandshake ==
  /\ step = "select"
  /\ socket # <<>>
  /\ Head(socket) = Control
  /\ socket' = Tail(socket)
  /\ session' = TRUE
  /\ inHand' = Control
  /\ step' = "flush"
  /\ UNCHANGED <<recv, send, outgoing, held, delivered, offered, wire, cut, spent>>

(* The loop sends the datagram in hand and asks the library for the next.  *)
Flush ==
  /\ step = "flush"
  /\ wire' = IF inHand = Control THEN wire ELSE Append(wire, inHand)
  /\ \/ /\ held # <<>>
        /\ inHand' = Head(held)
        /\ held' = Tail(held)
        /\ UNCHANGED step
     \/ /\ held = <<>>
        /\ step' = "poll"
        /\ inHand' = Control
        /\ UNCHANGED held
  /\ UNCHANGED <<recv, send, outgoing, session, socket, delivered, offered, cut, spent>>

(* Another arm is ready while the loop waits in send_to, or send_to fails: *)
(* the datagram in hand is lost and the library keeps the rest.            *)
FlushCut ==
  /\ step = "flush"
  /\ step' = "poll"
  /\ inHand' = Control
  /\ cut' = TRUE
  /\ UNCHANGED <<recv, send, outgoing, session, held, socket, delivered, offered, wire, spent>>

(* The socket fails in recv, or the watchdog bounces the tunnel: a new     *)
(* socket and a new library state, or a second's wait and the old ones.    *)
Rebuild ==
  /\ step = "select"
  /\ Spend("faults")
  /\ step' = "poll"
  /\ \/ /\ socket' = <<>>
        /\ held' = <<>>
        /\ session' = FALSE
     \/ UNCHANGED <<socket, held, session>>
  /\ UNCHANGED <<recv, send, outgoing, inHand, delivered, offered, wire, cut>>

---------------------------------------------------------------------------
(* The peer, and the library's clock *)

Arrive ==
  /\ \/ /\ Spend("in")
        /\ \E l \in InLengths : socket' = Append(socket, Packet(-spent'.in, l))
     \/ /\ Spend("handshakes")
        /\ socket' = Append(socket, Control)
  /\ UNCHANGED <<step, recv, send, outgoing, session, held, inHand, delivered, offered, wire, cut>>

SessionExpires ==
  /\ session
  /\ session' = FALSE
  /\ UNCHANGED <<step, recv, send, outgoing, held, inHand, socket, delivered, offered, wire, cut, spent>>

---------------------------------------------------------------------------

PathInit ==
  /\ step = "poll"
  /\ recv = Token /\ send = Token
  /\ outgoing = <<>>
  /\ session = FALSE
  /\ held = <<>>
  /\ inHand = Control
  /\ socket = <<>>
  /\ delivered = <<>> /\ offered = <<>> /\ wire = <<>>
  /\ cut = FALSE
  /\ spent = [b \in DOMAIN Limit |-> 0]

LoopStep ==
  \/ Ingress \/ Egress \/ Polled
  \/ CopyOut \/ SendNext \/ Sent
  \/ OpenArm \/ LaterArm \/ RecvPacket \/ RecvHandshake \/ Flush \/ FlushCut \/ Rebuild

PathNext == LoopStep \/ Arrive \/ SessionExpires

PathSpec == PathInit /\ [][PathNext]_path

(* The runtime keeps running the stack task. *)
FairPath == PathSpec /\ WF_path(LoopStep)

---------------------------------------------------------------------------
(* Properties *)

(* The packets in a token's queue, read off its lengths and bytes. *)
Ends(q) ==
  CHOOSE e \in [0..Len(q.lengths) -> 0..Len(q.bytes)] :
    e[0] = 0 /\ \A i \in DOMAIN q.lengths : e[i] = e[i - 1] + q.lengths[i]
Queued(q) ==
  LET e == Ends(q)
  IN  [i \in DOMAIN q.lengths |-> SubSeq(q.bytes, e[i - 1] + 1, e[i])]

(***************************************************************************)
(* Each direction of the device is a first-in first-out queue of whole     *)
(* packets, although it is a row of bytes and a row of lengths with one    *)
(* scratch buffer: it loses none towards smoltcp, and towards the tunnel,  *)
(* where packets copied out still wait, only what a failed send discards.  *)
(***************************************************************************)
Up == INSTANCE PacketChannel WITH Packets <- Inbound, Lossy <- FALSE, queue <- Queued(recv), passed <- delivered
Down == INSTANCE PacketChannel WITH Packets <- Outbound, Lossy <- TRUE, queue <- outgoing \o Queued(send), passed <- offered
WholePackets == Up!Spec /\ Down!Spec

(***************************************************************************)
(* The peer gets each packet at most once, and in the order smoltcp sent   *)
(* them unless a flush was cut short: then packets still held in the       *)
(* library are overtaken by later ones.                                    *)
(***************************************************************************)
OnTheWire ==
  /\ \A i, j \in DOMAIN wire : i # j /\ wire[i] # <<>> => wire[i] # wire[j]
  /\ ~cut => \A i, j \in DOMAIN wire : i < j /\ wire[i] # <<>> /\ wire[j] # <<>> => wire[i][1] < wire[j][1]

(***************************************************************************)
(* While the task sleeps in the select, nothing it could have moved is     *)
(* left in the device: no packet waits for a wake-up that need not come.   *)
(***************************************************************************)
NothingLeftBehind ==
  step \in {"select", "flush"} => recv.lengths = <<>> /\ send.lengths = <<>> /\ outgoing = <<>>

(***************************************************************************)
(* What has arrived is dealt with: the socket and the receive queue are    *)
(* emptied again and again, although the recv future is dropped whenever   *)
(* another arm is ready.                                                   *)
(***************************************************************************)
ArrivalsSettle == []<>(socket = <<>> /\ recv.lengths = <<>>)
=============================================================================
