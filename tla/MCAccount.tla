------------------------------ MODULE MCAccount ------------------------------
(* Instances of Account for TLC.                                             *)
EXTENDS Account, TLC

CheckerSymmetry == Permutations(Checkers)
===============================================================================
