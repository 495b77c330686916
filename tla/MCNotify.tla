------------------------------- MODULE MCNotify -------------------------------
(* Instances of Notify for TLC.                                              *)
EXTENDS Notify, TLC

NotifySymmetry == Permutations(Workers) \cup Permutations(Channels)
===============================================================================
