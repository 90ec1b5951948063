------------------------------- MODULE MCSetup -------------------------------
(***************************************************************************)
(* Setup with two routes; the timeouts keep the order they have in the     *)
(* code: 2 s of media window, 10 s of setup, 15 s of authorization.        *)
(***************************************************************************)
EXTENDS Setup, TLC

CONSTANTS r1, r2

Routes == {r1, r2}
SameRoutes == Permutations(Routes)
=============================================================================
