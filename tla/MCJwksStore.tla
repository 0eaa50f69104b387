---------------------------- MODULE MCJwksStore -----------------------------
(***************************************************************************)
(* Small instances of JwksStore: two tasks, a provider that replaces its    *)
(* key k1 by k2 in two rotations (with both published in between), and a     *)
(* key id nobody ever publishes.                                            *)
(***************************************************************************)
EXTENDS JwksStore

CONSTANTS k1, k2, sprayed

MCKids == {k1, k2, sprayed}
MCTokens ==
    {[kid |-> k1, genuine |-> TRUE], [kid |-> k1, genuine |-> FALSE],
     [kid |-> k2, genuine |-> TRUE], [kid |-> sprayed, genuine |-> FALSE]}
MCEditions == << {k1}, {k1, k2}, {k2} >>
=============================================================================
