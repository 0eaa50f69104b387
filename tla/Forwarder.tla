----------------------------- MODULE Forwarder ------------------------------
(***************************************************************************)
(* The life of a tunnelled connection in src/wg/forward.rs: the acceptor     *)
(* asks the stack task for a socket and spawns a bridge over it, the bridge  *)
(* (tokio's copy_bidirectional) pumps both directions through a WgStream,    *)
(* and the stack task reaps the socket once the stream has been dropped.     *)
(* Three kinds of task share one SocketSet, whose slots are used again, and  *)
(* a map of abandoned handles; a task holding a handle that was removed      *)
(* would panic.                                                             *)
(*                                                                         *)
(* smoltcp and copy_bidirectional are modelled from the calls the code makes.*)
(* The open channel never holds more than the one request the acceptor is    *)
(* waiting for.  Time is the age of an abandoned handle.                     *)
(***************************************************************************)
EXTENDS Integers, FiniteSets

CONSTANTS
    Clients,       \* the local clients, each connecting again and again
    Slots,         \* the slots of the SocketSet, a handle is one of them
    MaxSockets,    \* MAX_SOCKETS
    Grace,         \* ABANDONED_GRACE
    None           \* no client, no slot

ASSUME MaxSocketsAssumption == MaxSockets \in Nat \ {0}
ASSUME GraceAssumption == Grace \in Nat
ASSUME SlotsAssumption == IsFiniteSet(Slots) /\ Cardinality(Slots) > MaxSockets
ASSUME NoneAssumption == None \notin Clients \cup Slots

VARIABLES
    sockets,    \* Shared.sockets: what each slot holds
    handles,    \* the handles the stack task polls for reaping
    age,        \* Shared.abandoned: for how long each handle has been abandoned
    stack,      \* the stack task: about to poll, or waiting in its select
    tunnelUp,   \* packets get through to the target and back
    serving,    \* the client whose connection the acceptor holds
    request,    \* the acceptor's open request and its answer
    granted,    \* the handle in the answer
    stream,     \* the handle of each client's WgStream
    up,         \* the bridge's local-to-tunnel direction
    down,       \* the bridge's tunnel-to-local direction
    client      \* each client's end of its loopback connection

vars == <<sockets, handles, age, stack, tunnelUp, serving, request, granted,
          stream, up, down, client>>

set == <<sockets, handles, age>>
acceptor == <<serving, request, granted>>
bridge == <<stream, up, down>>

Fresh == -1         \* the age of a handle that is not abandoned
Empty == "empty"
\* smoltcp's tcp::State; FinWait stands for both FinWait states and Closing.
TcpStates == {"SynSent", "Established", "FinWait", "CloseWait", "LastAck", "TimeWait", "Closed"}
Pumps == {"read", "write", "done"}
ClientStates == {"absent", "open", "halfClosed", "gone", "reset"}

TypeOK ==
    /\ sockets \in [Slots -> TcpStates \cup {Empty}]
    /\ handles \subseteq Slots
    /\ age \in [Slots -> 0..Grace \cup {Fresh}]
    /\ stack \in {"poll", "select"}
    /\ tunnelUp \in BOOLEAN
    /\ serving \in Clients \cup {None}
    /\ request \in {"none", "queued", "refused", "opened"}
    /\ granted \in Slots \cup {None}
    /\ stream \in [Clients -> Slots \cup {None}]
    /\ up \in [Clients -> Pumps]
    /\ down \in [Clients -> Pumps]
    /\ client \in [Clients -> ClientStates]

Init ==
    /\ sockets = [h \in Slots |-> Empty]
    /\ handles = {}
    /\ age = [h \in Slots |-> Fresh]
    /\ stack = "poll"
    /\ tunnelUp \in BOOLEAN
    /\ serving = None
    /\ request = "none"
    /\ granted = None
    /\ stream = [c \in Clients |-> None]
    /\ up = [c \in Clients |-> "read"]
    /\ down = [c \in Clients |-> "read"]
    /\ client = [c \in Clients |-> "absent"]
-----------------------------------------------------------------------------
\* smoltcp, as the code uses it.
Closing(s) ==
    CASE s = "SynSent" -> "Closed"
      [] s = "Established" -> "FinWait"
      [] s = "CloseWait" -> "LastAck"
      [] OTHER -> s
MaySend(s) == s \in {"Established", "CloseWait"}
MayRecv(s) == s \in {"Established", "FinWait"}
Connecting(s) == s = "SynSent"

\* Where the target's segments, or smoltcp's own timer, can take a socket.
Moves(s) ==
    CASE s = "SynSent" -> IF tunnelUp THEN {"Established", "Closed"} ELSE {}
      [] s = "Established" -> IF tunnelUp THEN {"CloseWait", "Closed"} ELSE {}
      [] s = "FinWait" -> IF tunnelUp THEN {"TimeWait", "Closed"} ELSE {}
      [] s \in {"CloseWait", "LastAck"} -> IF tunnelUp THEN {"Closed"} ELSE {}
      [] s = "TimeWait" -> {"Closed"}
      [] OTHER -> {}

Abandoned == {h \in Slots : age[h] # Fresh}
-----------------------------------------------------------------------------
\* The acceptor.
Accept(c) ==
    /\ request = "none"
    /\ client[c] # "absent" /\ stream[c] = None /\ serving # c
    /\ serving' = c
    /\ request' = "queued"
    /\ UNCHANGED <<set, stack, tunnelUp, granted, bridge, client>>

\* A handle came back: a task of its own bridges the connection from here on.
Spawn ==
    /\ request = "opened"
    /\ stream' = [stream EXCEPT ![serving] = granted]
    /\ request' = "none"
    /\ granted' = None
    /\ serving' = None
    /\ UNCHANGED <<set, stack, tunnelUp, up, down, client>>

\* The reply channel was dropped unanswered: so is the loopback connection.
GiveUp ==
    /\ request = "refused"
    /\ client' = [client EXCEPT ![serving] = "absent"]
    /\ request' = "none"
    /\ serving' = None
    /\ UNCHANGED <<set, stack, tunnelUp, granted, bridge>>
-----------------------------------------------------------------------------
\* The stack task.  A poll moves at most one socket, then reaps.

\* forward.rs:279-300: only an abandoned handle is eligible, once its socket has
\* closed or its grace has run out.  The variants reap any closed socket, or
\* only those whose close completed.
ReapsAnyClosed(h, state) == state = "Closed" \/ age[h] = Grace
ReapsOnlyClosed(h, state) == age[h] # Fresh /\ state = "Closed"
Reapable(h, state) == age[h] # Fresh /\ (state = "Closed" \/ age[h] = Grace)

\* The reaped handles leave the abandoned map too.
Forgotten(reaped) == [h \in Slots |-> IF h \in reaped THEN Fresh ELSE age[h]]

Reap(polled) ==
    LET reaped == {h \in handles : Reapable(h, polled[h])}
    IN  /\ sockets' = [h \in Slots |-> IF h \in reaped THEN Empty ELSE polled[h]]
        /\ handles' = handles \ reaped
        /\ age' = Forgotten(reaped)

PollQuiet ==
    /\ stack = "poll"
    /\ Reap(sockets)
    /\ stack' = "select"
    /\ UNCHANGED <<tunnelUp, acceptor, bridge, client>>

PollMoves(h) ==
    /\ stack = "poll"
    /\ h \in handles
    /\ \E s \in Moves(sockets[h]) : Reap([sockets EXCEPT ![h] = s])
    /\ stack' = "select"
    /\ UNCHANGED <<tunnelUp, acceptor, bridge, client>>

\* What dropping the request does to its reply; RequestKept is one that is kept
\* for later.
RequestKept == "kept"
Refusal == "refused"

\* handles.len() >= MAX_SOCKETS
AtCeiling == Cardinality(handles) >= MaxSockets

Refuse ==
    /\ stack = "select"
    /\ request = "queued"
    /\ AtCeiling
    /\ request' = Refusal
    /\ stack' = "poll"
    /\ UNCHANGED <<set, tunnelUp, serving, granted, bridge, client>>

\* connect needs an address: it fails for a target whose port is 0.
ConnectFails ==
    /\ stack = "select"
    /\ request = "queued"
    /\ ~AtCeiling
    /\ request' = Refusal
    /\ stack' = "poll"
    /\ UNCHANGED <<set, tunnelUp, serving, granted, bridge, client>>

\* SocketSet::add takes a slot that holds nothing; which one is its business.
Open ==
    /\ stack = "select"
    /\ request = "queued"
    /\ ~AtCeiling
    /\ \E h \in {s \in Slots : sockets[s] = Empty} :
        /\ granted' = h
        /\ sockets' = [sockets EXCEPT ![h] = "SynSent"]
        /\ handles' = handles \cup {h}
    /\ request' = "opened"
    /\ stack' = "poll"
    /\ UNCHANGED <<age, tunnelUp, serving, bridge, client>>

\* Every other arm of the biased select leads back to the poll.
WakeUp ==
    /\ stack = "select"
    /\ request # "queued"
    /\ stack' = "poll"
    /\ UNCHANGED <<set, tunnelUp, acceptor, bridge, client>>
-----------------------------------------------------------------------------
\* A bridge, and the WgStream calls it makes.
SocketOf(c) == sockets[stream[c]]

\* The local client's bytes are read (those read once it has left count as read
\* before), and fit into the send buffer.
UpReads(c) ==
    /\ stream[c] # None /\ up[c] = "read" /\ client[c] = "open"
    /\ up' = [up EXCEPT ![c] = "write"]
    /\ UNCHANGED <<set, stack, tunnelUp, acceptor, stream, down, client>>

UpWrites(c) ==
    /\ stream[c] # None /\ up[c] = "write" /\ MaySend(SocketOf(c))
    /\ up' = [up EXCEPT ![c] = "read"]
    /\ UNCHANGED <<set, stack, tunnelUp, acceptor, stream, down, client>>

\* The local end of input: poll_shutdown closes the socket.
UpEnds(c) ==
    /\ stream[c] # None /\ up[c] = "read" /\ client[c] \in {"halfClosed", "gone"}
    /\ up' = [up EXCEPT ![c] = "done"]
    /\ sockets' = [sockets EXCEPT ![stream[c]] = Closing(@)]
    /\ UNCHANGED <<handles, age, stack, tunnelUp, acceptor, stream, down, client>>

DownReads(c) ==
    /\ stream[c] # None /\ down[c] = "read" /\ ~Connecting(SocketOf(c))
    /\ down' = [down EXCEPT ![c] = "write"]
    /\ UNCHANGED <<set, stack, tunnelUp, acceptor, stream, up, client>>

\* The first bytes written to a client that is gone are answered by a reset.
DownWrites(c) ==
    /\ stream[c] # None /\ down[c] = "write" /\ client[c] # "reset"
    /\ down' = [down EXCEPT ![c] = "read"]
    /\ client' = [client EXCEPT ![c] = IF @ = "gone" THEN "reset" ELSE @]
    /\ UNCHANGED <<set, stack, tunnelUp, acceptor, stream, up>>

\* poll_read's end of stream: neither receiving nor still connecting.
DownEnds(c) ==
    /\ stream[c] # None /\ down[c] = "read"
    /\ ~MayRecv(SocketOf(c)) /\ ~Connecting(SocketOf(c))
    /\ down' = [down EXCEPT ![c] = "done"]
    /\ UNCHANGED <<set, stack, tunnelUp, acceptor, stream, up, client>>

\* poll_write's BrokenPipe: neither sending nor still connecting.  The variant
\* parks the writer instead.
NeverBroken(c) == FALSE
BrokenPipe(c) == up[c] = "write" /\ ~MaySend(SocketOf(c)) /\ ~Connecting(SocketOf(c))
ClientResets(c) == client[c] = "reset" /\ (up[c] # "done" \/ down[c] = "write")

BridgeOver(c) ==
    \/ up[c] = "done" /\ down[c] = "done"
    \/ BrokenPipe(c)
    \/ ClientResets(c)

\* The drop closes the socket and hands it back to the stack task.
HandedBack(h) == [age EXCEPT ![h] = 0]

DropStream(c) ==
    /\ stream[c] # None
    /\ BridgeOver(c)
    /\ sockets' = [sockets EXCEPT ![stream[c]] = Closing(@)]
    /\ age' = HandedBack(stream[c])
    /\ stream' = [stream EXCEPT ![c] = None]
    /\ up' = [up EXCEPT ![c] = "read"]
    /\ down' = [down EXCEPT ![c] = "read"]
    /\ client' = [client EXCEPT ![c] = "absent"]
    /\ UNCHANGED <<handles, stack, tunnelUp, acceptor>>
-----------------------------------------------------------------------------
\* The environment: clients come, close and vanish, the tunnel fails and heals,
\* time passes.
Connect(c) ==
    /\ client[c] = "absent"
    /\ client' = [client EXCEPT ![c] = "open"]
    /\ UNCHANGED <<set, stack, tunnelUp, acceptor, bridge>>

Leave(c) ==
    /\ \/ client[c] = "open" /\ \E s \in {"halfClosed", "gone", "reset"} :
              client' = [client EXCEPT ![c] = s]
       \/ client[c] = "halfClosed" /\ client' = [client EXCEPT ![c] = "gone"]
    /\ UNCHANGED <<set, stack, tunnelUp, acceptor, bridge>>

TunnelChanges ==
    /\ tunnelUp' = ~tunnelUp
    /\ UNCHANGED <<set, stack, acceptor, bridge, client>>

Tick ==
    /\ \E h \in Slots : age[h] \in 0..(Grace - 1)
    /\ age' = [h \in Slots |-> IF age[h] \in 0..(Grace - 1) THEN age[h] + 1 ELSE age[h]]
    /\ UNCHANGED <<sockets, handles, stack, tunnelUp, acceptor, bridge, client>>
-----------------------------------------------------------------------------
Poll == PollQuiet \/ \E h \in Slots : PollMoves(h)
Select == Refuse \/ ConnectFails \/ Open \/ WakeUp
Next ==
    \/ \E c \in Clients : Accept(c) \/ Connect(c) \/ Leave(c)
    \/ \E c \in Clients : UpReads(c) \/ UpWrites(c) \/ UpEnds(c)
    \/ \E c \in Clients : DownReads(c) \/ DownWrites(c) \/ DownEnds(c) \/ DropStream(c)
    \/ Spawn \/ GiveUp \/ Poll \/ Select \/ TunnelChanges \/ Tick

Spec == Init /\ [][Next]_vars

\* The runtime polls every task that can proceed, the select wakes at its own
\* deadline at the latest, and time passes.  Nothing is assumed of the tunnel, of
\* the target or of a client that is still there.  With its copy buffer full a
\* bridge does not read, so it need not see a reset before it has written.
Unread(c) == up[c] = "write" /\ ~BrokenPipe(c)

Fairness ==
    /\ WF_vars(Spawn) /\ WF_vars(GiveUp)
    /\ WF_vars(Poll) /\ WF_vars(Select) /\ WF_vars(Tick)
    /\ \A c \in Clients :
        /\ WF_vars(UpEnds(c))
        /\ WF_vars(DownEnds(c))
        /\ WF_vars(DownWrites(c) /\ client[c] = "gone")
        /\ WF_vars(DropStream(c) /\ ~Unread(c))

FairSpec == Spec /\ Fairness

\* While the tunnel carries packets, the target answers what it owes an answer
\* and takes what the bridge sends.
TargetAnswers ==
    /\ \A h \in Slots :
        SF_vars(PollMoves(h) /\ sockets[h] \in {"SynSent", "FinWait", "LastAck", "TimeWait"})
    /\ \A c \in Clients : WF_vars(UpWrites(c) /\ tunnelUp)
-----------------------------------------------------------------------------
Occupied == {h \in Slots : sockets[h] # Empty}
InReply == IF request = "opened" THEN {granted} ELSE {}
Streamed == {stream[c] : c \in Clients} \ {None}

\* Every socket in the set has exactly one owner - the reply on its way to the
\* acceptor, one live stream, or the stack task once it is abandoned - and every
\* owner's socket is in the set: no stream ever touches a handle that was
\* removed, and no socket is left behind without one (forward.rs:171-182).
OneOwner ==
    /\ handles = Occupied
    /\ Occupied = InReply \cup Streamed \cup Abandoned
    /\ InReply \cap (Streamed \cup Abandoned) = {}
    /\ Streamed \cap Abandoned = {}
    /\ \A c, d \in Clients : c # d /\ stream[c] = stream[d] => stream[c] = None

\* forward.rs:69-72: the set and its buffers do not grow past the ceiling.
Ceiling == Cardinality(Occupied) <= MaxSockets

\* A socket whose stream was dropped leaves the set, tunnel or no tunnel
\* (forward.rs:73-76).
AbandonedReaped == \A h \in Slots : (age[h] # Fresh) ~> (age[h] = Fresh)

\* The acceptor gets an answer to every request, at the ceiling too
\* (forward.rs:329-337, 441-444).
AcceptorProceeds == (request = "queued") ~> (request = "none")

\* forward.rs:73-76: the growth of the set is bounded when the tunnel is down and
\* the FIN exchange cannot complete: the socket of a client that left is freed.
Departed(c) == client[c] \in {"gone", "reset"} /\ stream[c] # None
DepartedReaped == \A c \in Clients : Departed(c) ~> ~Departed(c)
OutageReaped == <>[]~tunnelUp => DepartedReaped

\* Once the tunnel is up for good, and if the target answers, every client that left
\* is let go of, whatever state the outage left its connection in.
HealedReaped == TargetAnswers /\ <>[]tunnelUp => DepartedReaped
=============================================================================
