----------------------------- MODULE MCWatchdog -----------------------------
(***************************************************************************)
(* A small instance of Watchdog: a peer that moves between two addresses.    *)
(***************************************************************************)
EXTENDS Watchdog

CONSTANTS a1, a2

MCHosts == {a1, a2}
=============================================================================
