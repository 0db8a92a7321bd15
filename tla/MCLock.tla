------------------------------- MODULE MCLock -------------------------------
EXTENDS Lock, TLC

(* Threads are told apart by identity only.                                *)
ThreadSymmetry == Permutations(Threads)
=============================================================================
