---------------------------- MODULE MCForwarder -----------------------------
(***************************************************************************)
(* Small instances of Forwarder: clients compete for fewer sockets.         *)
(***************************************************************************)
EXTENDS Forwarder
=============================================================================
