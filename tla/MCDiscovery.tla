---------------------------- MODULE MCDiscovery -----------------------------
(***************************************************************************)
(* Small instances of Discovery: a provider that replaces its key k1 by k2,  *)
(* and tokens under a key it never publishes.                               *)
(***************************************************************************)
EXTENDS Discovery

CONSTANTS k1, k2, odd

MCKids == {k1, k2, odd}
MCEditions == << {k1}, {k2} >>
=============================================================================
