---------------------------- MODULE MCPacketPath ----------------------------
(* Two packets each way, empty ones from the peer among them, two         *)
(* handshakes, one connection opened and one failure.                      *)
EXTENDS PacketPath

MCInLengths == {0, 2}
MCOutLengths == {1, 2}
=============================================================================
