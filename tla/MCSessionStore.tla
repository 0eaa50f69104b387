--------------------------- MODULE MCSessionStore ---------------------------
(* Small instances of SessionStore; ids and users are interchangeable.       *)
EXTENDS SessionStore, TLC

MCSymmetry == Permutations(Ids) \cup Permutations(Subjects)
=============================================================================
