-------------------------- MODULE MCDriverConnection ---------------------------
(***************************************************************************)
(* Small instances of DriverConnection for TLC.  Threads of a kind do the  *)
(* same; nothing tells them apart.                                         *)
(***************************************************************************)
EXTENDS DriverConnection, TLC

ThreadSymmetry == Permutations(Users) \cup Permutations(Observers)
================================================================================
