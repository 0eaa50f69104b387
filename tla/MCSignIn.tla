------------------------------ MODULE MCSignIn -------------------------------
(***************************************************************************)
(* Small instances of SignIn: two tabs of one browser, or one tab each of  *)
(* two browsers.                                                           *)
(***************************************************************************)
EXTENDS SignIn, TLC

CONSTANTS t1, t2, b1, b2, page

SameBrowser == [t \in {t1, t2} |-> b1]
TabsAlike == Permutations({t1, t2})
OneEach == [t \in {t1, t2} |-> IF t = t1 THEN b1 ELSE b2]
=============================================================================
