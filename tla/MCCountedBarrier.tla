-------------------------- MODULE MCCountedBarrier --------------------------
EXTENDS CountedBarrier, TLC

(* Threads, and waiters, are told apart by identity only.                  *)
ActorSymmetry == Permutations(Threads) \cup Permutations(Waiters)
=============================================================================
