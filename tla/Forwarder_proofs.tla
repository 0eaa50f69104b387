-------------------------- MODULE Forwarder_proofs --------------------------
(***************************************************************************)
(* Who owns a tunnel socket, proved for every number of clients and slots,   *)
(* every ceiling and every grace period.                                     *)
(***************************************************************************)
EXTENDS Forwarder, FiniteSetTheorems, TLAPS

LEMMA ClosingType == \A s \in TcpStates : Closing(s) \in TcpStates
  BY DEF Closing, TcpStates

LEMMA MovesType == \A s \in TcpStates \cup {Empty} : Moves(s) \subseteq TcpStates
  BY DEF Moves, TcpStates, Empty

\* A request stands for exactly the connection the acceptor holds, the answer it
\* got names a slot, and that connection has no bridge yet.
Asking ==
    /\ serving = None <=> request = "none"
    /\ granted = None <=> request # "opened"
    /\ serving # None => stream[serving] = None

\* OneOwner is not inductive alone: spawning a bridge needs Asking, and a step on
\* a stream's socket needs the type of its handle.
OwnerInv == TypeOK /\ Asking /\ OneOwner

LEMMA OwnerInit == Init => OwnerInv
  BY NoneAssumption, GraceAssumption
     DEF Init, OwnerInv, TypeOK, Asking, OneOwner, Occupied, InReply, Streamed, Abandoned,
         Fresh, Pumps, ClientStates, Empty

\* What every step that touches neither a socket nor its owner preserves.
LEMMA OwnerFrame ==
    ASSUME OwnerInv, TypeOK', UNCHANGED <<sockets, handles, age, acceptor, stream>>
    PROVE  OwnerInv'
  BY DEF OwnerInv, Asking, OneOwner, Occupied, InReply, Streamed, Abandoned, acceptor

\* A poll, with or without a socket moving: the reaped sockets are abandoned ones.
LEMMA ReapStep ==
    ASSUME OwnerInv, NEW polled \in [Slots -> TcpStates \cup {Empty}],
           \A h \in Slots : polled[h] = Empty <=> sockets[h] = Empty,
           Reap(polled), UNCHANGED <<acceptor, stream>>
    PROVE  /\ sockets' \in [Slots -> TcpStates \cup {Empty}]
           /\ handles' \subseteq Slots
           /\ age' \in [Slots -> 0..Grace \cup {Fresh}]
           /\ Asking' /\ OneOwner'
  <1> DEFINE reaped == {h \in handles : Reapable(h, polled[h])}
  <1>1. /\ sockets' = [h \in Slots |-> IF h \in reaped THEN Empty ELSE polled[h]]
        /\ handles' = handles \ reaped
        /\ age' = [h \in Slots |-> IF h \in reaped THEN Fresh ELSE age[h]]
    BY DEF Reap, Forgotten
  <1>2. reaped \subseteq Abandoned
    BY DEF Reapable, Abandoned, OwnerInv, TypeOK
  <1>3. Occupied' = Occupied \ reaped
    BY <1>1 DEF Occupied
  <1>4. Abandoned' = Abandoned \ reaped
    BY <1>1 DEF Abandoned
  <1>5. InReply' = InReply /\ Streamed' = Streamed
    BY DEF InReply, Streamed, acceptor
  <1>6. Asking'
    BY DEF OwnerInv, Asking, acceptor
  <1>7. OneOwner'
    BY <1>1, <1>2, <1>3, <1>4, <1>5 DEF OwnerInv, OneOwner
  <1> QED
    BY <1>1, <1>6, <1>7 DEF OwnerInv, TypeOK

\* The slot a socket is opened in has had no owner since it was emptied.
LEMMA OpenStep == ASSUME OwnerInv, Open PROVE OwnerInv'
  <1>1. PICK h \in Slots :
            /\ sockets[h] = Empty
            /\ granted' = h
            /\ sockets' = [sockets EXCEPT ![h] = "SynSent"]
            /\ handles' = handles \cup {h}
    BY DEF Open
  <1>2. /\ request = "queued" /\ request' = "opened" /\ stack' = "poll"
        /\ UNCHANGED <<age, tunnelUp, serving, stream, up, down, client>>
    BY DEF Open, bridge
  <1>3. TypeOK'
    BY <1>1, <1>2 DEF OwnerInv, TypeOK, TcpStates
  <1>4. h \notin Streamed \cup Abandoned /\ InReply = {}
    BY <1>1, <1>2 DEF OwnerInv, OneOwner, Occupied, InReply
  <1>5. Occupied' = Occupied \cup {h}
    BY <1>1 DEF Occupied, OwnerInv, TypeOK, Empty
  <1>6. InReply' = {h} /\ Streamed' = Streamed /\ Abandoned' = Abandoned
    BY <1>1, <1>2 DEF InReply, Streamed, Abandoned
  <1>7. OneOwner'
    BY <1>1, <1>2, <1>4, <1>5, <1>6 DEF OwnerInv, OneOwner
  <1>8. Asking'
    BY <1>1, <1>2, NoneAssumption DEF OwnerInv, Asking
  <1> QED
    BY <1>3, <1>7, <1>8 DEF OwnerInv

\* The handle in the reply becomes the new stream's, and only its.
LEMMA SpawnStep == ASSUME OwnerInv, Spawn PROVE OwnerInv'
  <1>1. /\ request = "opened" /\ serving \in Clients /\ granted \in Slots
        /\ stream[serving] = None
    BY DEF Spawn, OwnerInv, Asking, TypeOK
  <1>2. /\ stream' = [stream EXCEPT ![serving] = granted]
        /\ request' = "none" /\ granted' = None /\ serving' = None
        /\ UNCHANGED <<sockets, handles, age, stack, tunnelUp, up, down, client>>
    BY DEF Spawn, set
  <1>3. TypeOK'
    BY <1>1, <1>2 DEF OwnerInv, TypeOK
  <1>4. Streamed' = Streamed \cup {granted}
    BY <1>1, <1>2, NoneAssumption DEF Streamed, OwnerInv, TypeOK
  <1>5. InReply = {granted} /\ InReply' = {}
    BY <1>1, <1>2 DEF InReply
  <1>6. Occupied' = Occupied /\ Abandoned' = Abandoned
    BY <1>2 DEF Occupied, Abandoned
  <1>7. granted \notin Streamed
    BY <1>5 DEF OwnerInv, OneOwner
  <1>8. \A c, d \in Clients : c # d /\ stream'[c] = stream'[d] => stream'[c] = None
    BY <1>1, <1>2, <1>7, NoneAssumption DEF OwnerInv, OneOwner, TypeOK, Streamed
  <1>9. OneOwner'
    BY <1>2, <1>4, <1>5, <1>6, <1>7, <1>8 DEF OwnerInv, OneOwner
  <1> QED
    BY <1>2, <1>3, <1>9 DEF OwnerInv, Asking

\* The drop moves one handle from the live streams to the abandoned ones.
LEMMA DropStep == ASSUME OwnerInv, NEW c \in Clients, DropStream(c) PROVE OwnerInv'
  <1> DEFINE h == stream[c]
  <1>1. h \in Slots /\ h # None
    BY NoneAssumption DEF DropStream, OwnerInv, TypeOK
  <1>2. sockets[h] \in TcpStates
    BY <1>1 DEF OwnerInv, OneOwner, Occupied, Streamed, TypeOK
  <1>3. /\ sockets' = [sockets EXCEPT ![h] = Closing(sockets[h])]
        /\ age' = [age EXCEPT ![h] = 0]
        /\ stream' = [stream EXCEPT ![c] = None]
        /\ UNCHANGED <<handles, stack, tunnelUp, serving, request, granted>>
    BY DEF DropStream, HandedBack, acceptor
  <1>4. Closing(sockets[h]) \in TcpStates
    BY <1>2, ClosingType
  <1>5. up' \in [Clients -> Pumps] /\ down' \in [Clients -> Pumps]
            /\ client' \in [Clients -> ClientStates]
    BY DEF DropStream, OwnerInv, TypeOK, Pumps, ClientStates
  <1>6. TypeOK'
    <2>1. sockets' \in [Slots -> TcpStates \cup {Empty}]
      BY <1>3, <1>4 DEF OwnerInv, TypeOK
    <2>2. age' \in [Slots -> 0..Grace \cup {Fresh}]
      <3>1. 0 \in 0..Grace
        BY GraceAssumption
      <3>2. age \in [Slots -> 0..Grace \cup {Fresh}]
        BY DEF OwnerInv, TypeOK
      <3> QED
        BY <1>3, <3>1, <3>2
    <2>3. stream' \in [Clients -> Slots \cup {None}]
      BY <1>3 DEF OwnerInv, TypeOK
    <2> QED
      BY <1>3, <1>5, <2>1, <2>2, <2>3 DEF OwnerInv, TypeOK
  <1>7. Occupied' = Occupied
    BY <1>1, <1>2, <1>3, <1>4 DEF Occupied, OwnerInv, TypeOK, TcpStates, Empty
  <1>8. Abandoned' = Abandoned \cup {h}
    BY <1>1, <1>3 DEF Abandoned, OwnerInv, TypeOK, Fresh
  <1>9. Streamed' = Streamed \ {h}
    <2>1. \A a \in Clients \ {c} : stream'[a] = stream[a] /\ stream[a] # h
      BY <1>1, <1>3 DEF OwnerInv, OneOwner, TypeOK
    <2>2. stream'[c] = None
      BY <1>3 DEF OwnerInv, TypeOK
    <2> QED
      BY <2>1, <2>2 DEF Streamed
  <1>10. h \in Streamed /\ InReply' = InReply
    BY <1>1, <1>3 DEF Streamed, InReply
  <1>11. \A a, b \in Clients : a # b /\ stream'[a] = stream'[b] => stream'[a] = None
    BY <1>3 DEF OwnerInv, OneOwner, TypeOK
  <1>12. OneOwner'
    BY <1>3, <1>7, <1>8, <1>9, <1>10, <1>11 DEF OwnerInv, OneOwner
  <1>13. Asking'
    BY <1>3 DEF OwnerInv, Asking, TypeOK
  <1> QED
    BY <1>6, <1>12, <1>13 DEF OwnerInv

LEMMA OwnerStep == OwnerInv /\ [Next]_vars => OwnerInv'
  <1> SUFFICES ASSUME OwnerInv, [Next]_vars PROVE OwnerInv'
    OBVIOUS
  <1> USE DEF OwnerInv, TypeOK, set, acceptor, bridge
  <1>1. ASSUME NEW c \in Clients, Accept(c) PROVE OwnerInv'
    <2>1. TypeOK'
      BY <1>1 DEF Accept
    <2>2. OneOwner'
      BY <1>1 DEF Accept, OneOwner, Occupied, InReply, Streamed, Abandoned
    <2> QED
      BY <1>1, <2>1, <2>2, NoneAssumption DEF Accept, Asking
  <1>2. CASE GiveUp
    <2>1. TypeOK'
      BY <1>2 DEF GiveUp, ClientStates
    <2>2. OneOwner'
      BY <1>2 DEF GiveUp, OneOwner, Occupied, InReply, Streamed, Abandoned
    <2> QED
      BY <1>2, <2>1, <2>2 DEF GiveUp, Asking
  <1>3. CASE PollQuiet
    <2>1. /\ sockets' \in [Slots -> TcpStates \cup {Empty}]
          /\ handles' \subseteq Slots /\ age' \in [Slots -> 0..Grace \cup {Fresh}]
          /\ Asking' /\ OneOwner'
      BY <1>3, ReapStep DEF PollQuiet
    <2> QED
      BY <1>3, <2>1 DEF PollQuiet
  <1>4. ASSUME NEW h \in Slots, PollMoves(h) PROVE OwnerInv'
    <2>1. PICK s \in Moves(sockets[h]) : Reap([sockets EXCEPT ![h] = s])
      BY <1>4 DEF PollMoves
    <2>2. s \in TcpStates /\ sockets[h] # Empty
      BY <1>4, <2>1, MovesType DEF PollMoves, OneOwner, Occupied
    <2> DEFINE polled == [sockets EXCEPT ![h] = s]
    <2>3. /\ polled \in [Slots -> TcpStates \cup {Empty}]
          /\ \A g \in Slots : polled[g] = Empty <=> sockets[g] = Empty
      BY <2>2 DEF TcpStates, Empty
    <2>4. UNCHANGED <<acceptor, stream>> /\ stack' = "select"
              /\ UNCHANGED <<tunnelUp, up, down, client>>
      BY <1>4 DEF PollMoves
    <2> HIDE DEF polled
    <2>5. /\ sockets' \in [Slots -> TcpStates \cup {Empty}]
          /\ handles' \subseteq Slots /\ age' \in [Slots -> 0..Grace \cup {Fresh}]
          /\ Asking' /\ OneOwner'
      BY <2>1, <2>3, <2>4, ReapStep DEF polled
    <2> QED
      BY <2>4, <2>5
  <1>5. CASE Refuse \/ ConnectFails
    <2>1. TypeOK'
      BY <1>5 DEF Refuse, ConnectFails, Refusal
    <2>2. OneOwner'
      BY <1>5 DEF Refuse, ConnectFails, Refusal, OneOwner, Occupied, InReply, Streamed, Abandoned
    <2> QED
      BY <1>5, <2>1, <2>2 DEF Refuse, ConnectFails, Refusal, Asking
  <1>6. CASE Open
    BY <1>6, OpenStep
  <1>7. CASE Spawn
    BY <1>7, SpawnStep
  <1>8. ASSUME NEW c \in Clients, DropStream(c) PROVE OwnerInv'
    BY <1>8, DropStep
  <1>9. ASSUME NEW c \in Clients, UpEnds(c) PROVE OwnerInv'
    <2>1. /\ stream[c] \in Slots /\ sockets[stream[c]] \in TcpStates
      BY <1>9, NoneAssumption DEF UpEnds, OneOwner, Occupied, Streamed
    <2>2. /\ sockets' = [sockets EXCEPT ![stream[c]] = Closing(sockets[stream[c]])]
          /\ UNCHANGED <<handles, age, stack, tunnelUp, acceptor, stream, down, client>>
      BY <1>9 DEF UpEnds
    <2>3. Closing(sockets[stream[c]]) \in TcpStates
      BY <2>1, ClosingType
    <2>4. TypeOK'
      BY <1>9, <2>1, <2>2, <2>3 DEF UpEnds, Pumps
    <2>5. Occupied' = Occupied
      BY <2>1, <2>2, <2>3 DEF Occupied, TcpStates, Empty
    <2>6. OneOwner' /\ Asking'
      BY <2>2, <2>5 DEF OneOwner, InReply, Streamed, Abandoned, Asking
    <2> QED
      BY <2>4, <2>6
  <1>10. ASSUME NEW c \in Clients, UpReads(c) \/ UpWrites(c) PROVE OwnerInv'
    BY <1>10, OwnerFrame DEF UpReads, UpWrites, Pumps
  <1>11. ASSUME NEW c \in Clients, DownReads(c) \/ DownEnds(c) PROVE OwnerInv'
    BY <1>11, OwnerFrame DEF DownReads, DownEnds, Pumps
  <1>12. ASSUME NEW c \in Clients, DownWrites(c) \/ Connect(c) \/ Leave(c) PROVE OwnerInv'
    BY <1>12, OwnerFrame DEF DownWrites, Connect, Leave, Pumps, ClientStates
  <1>13. CASE WakeUp \/ TunnelChanges \/ UNCHANGED vars
    BY <1>13, OwnerFrame DEF WakeUp, TunnelChanges, vars
  <1>14. CASE Tick
    <2>1. Abandoned' = Abandoned /\ age' \in [Slots -> 0..Grace \cup {Fresh}]
      BY <1>14, GraceAssumption DEF Tick, Abandoned, Fresh
    <2>2. UNCHANGED <<sockets, handles, stack, tunnelUp, acceptor, bridge, client>>
      BY <1>14 DEF Tick
    <2>3. OneOwner' /\ Asking'
      BY <2>1, <2>2 DEF OneOwner, Occupied, InReply, Streamed, Asking
    <2> QED
      BY <2>1, <2>2, <2>3
  <1> QED
    BY <1>1, <1>2, <1>3, <1>4, <1>5, <1>6, <1>7, <1>8, <1>9, <1>10, <1>11, <1>12, <1>13,
       <1>14 DEF Next, Poll, Select

LEMMA OwnerInvariant == Spec => []OwnerInv
  BY OwnerInit, OwnerStep, PTL DEF Spec

\* Type correctness of the forwarder's shared state.
THEOREM TypeCorrect == Spec => []TypeOK
  BY OwnerInvariant, PTL DEF OwnerInv

\* Every socket in the set has one owner and every owner's socket is in the set,
\* so no task calls get_mut with a handle that was removed (forward.rs:171-182).
THEOREM SoleOwner == Spec => []OneOwner
  BY OwnerInvariant, PTL DEF OwnerInv
-----------------------------------------------------------------------------
CeilingInv == IsFiniteSet(handles) /\ Cardinality(handles) <= MaxSockets

\* The set never holds more sockets than the ceiling (forward.rs:69-72, 329).
THEOREM Bounded == Spec => []Ceiling
  <1>1. Init => CeilingInv
    BY FS_EmptySet, MaxSocketsAssumption DEF Init, CeilingInv
  <1>2. CeilingInv /\ [Next]_vars => CeilingInv'
    <2> SUFFICES ASSUME CeilingInv, [Next]_vars PROVE CeilingInv'
      OBVIOUS
    <2>1. CASE handles' \subseteq handles
      <3>1. IsFiniteSet(handles') /\ Cardinality(handles') <= Cardinality(handles)
        BY <2>1, FS_Subset DEF CeilingInv
      <3>2. Cardinality(handles) \in Nat /\ Cardinality(handles') \in Nat
        BY <3>1, FS_CardinalityType DEF CeilingInv
      <3> QED
        BY <3>1, <3>2, MaxSocketsAssumption DEF CeilingInv
    <2>2. CASE Open
      <3>1. PICK h \in Slots : handles' = handles \cup {h}
        BY <2>2 DEF Open
      <3>2. Cardinality(handles) \in Nat /\ ~(Cardinality(handles) >= MaxSockets)
        BY <2>2, FS_CardinalityType DEF Open, AtCeiling, CeilingInv
      <3>3. IsFiniteSet(handles') /\ Cardinality(handles') <= Cardinality(handles) + 1
        <4>1. IsFiniteSet(handles)
          BY DEF CeilingInv
        <4>2. /\ IsFiniteSet(handles \cup {h})
              /\ Cardinality(handles \cup {h}) \in {Cardinality(handles), Cardinality(handles) + 1}
          BY <4>1, FS_AddElement
        <4> QED
          BY <3>1, <3>2, <4>2
      <3>4. Cardinality(handles') \in Nat
        BY <3>3, FS_CardinalityType
      <3> QED
        BY <3>2, <3>3, <3>4, MaxSocketsAssumption DEF CeilingInv
    <2>3. CASE Poll
      <3>1. handles' \subseteq handles
        BY <2>3 DEF Poll, PollQuiet, PollMoves, Reap
      <3> QED
        BY <2>1, <3>1
    <2>4. ~Open /\ ~Poll => handles' = handles
      BY DEF Next, Select, Accept, Connect, Leave, UpReads, UpWrites, UpEnds, DownReads,
             DownWrites, DownEnds, DropStream, Spawn, GiveUp, Refuse, ConnectFails, WakeUp,
             TunnelChanges, Tick, vars, set
    <2> QED
      BY <2>1, <2>2, <2>3, <2>4
  <1>3. CeilingInv /\ OwnerInv => Ceiling
    BY DEF CeilingInv, OwnerInv, OneOwner, Ceiling
  <1> QED
    BY <1>1, <1>2, <1>3, OwnerInvariant, PTL DEF Spec
=============================================================================
