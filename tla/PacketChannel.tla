---------------------------- MODULE PacketChannel ----------------------------
(***************************************************************************)
(* What one direction of the packet device promises between smoltcp and    *)
(* the tunnel: whole packets, each handed on once, first in first out.     *)
(* Towards the tunnel a failed send may discard what is still queued; it   *)
(* never takes one packet out of the middle.                               *)
(***************************************************************************)
EXTENDS Sequences

CONSTANTS
  Packets,
  Lossy      \* may what is queued be discarded?

VARIABLES
  queue,     \* packets accepted and not handed on
  passed     \* packets handed on, oldest first

Init == queue = <<>> /\ passed = <<>>

Accept(p) == queue' = Append(queue, p) /\ UNCHANGED passed

HandOn == queue # <<>> /\ passed' = Append(passed, Head(queue))

Pass == HandOn /\ queue' = Tail(queue)

PassAndDiscard == Lossy /\ HandOn /\ queue' = <<>>

Next == (\E p \in Packets : Accept(p)) \/ Pass \/ PassAndDiscard

Spec == Init /\ [][Next]_<<queue, passed>>
=============================================================================
