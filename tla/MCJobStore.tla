----------------------------- MODULE MCJobStore -----------------------------
(* Small instances of JobStore; the job ids are interchangeable.             *)
EXTENDS JobStore, TLC

MCSymmetry == Permutations(Ids)
=============================================================================
