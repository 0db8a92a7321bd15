--------------------------- MODULE ReentrantLock ---------------------------
(***************************************************************************)
(* What src/lib/threading/lock.4th and priority-lock.4th both promise: a   *)
(* lock that is free or has one owner, who may acquire it again and is     *)
(* done with it after as many releases.  An acquire by a thread that does  *)
(* not get the lock, and a release by one that does not own it, change     *)
(* nothing.                                                                *)
(***************************************************************************)
EXTENDS Integers

CONSTANTS Threads, Nobody

VARIABLES
  owner,     (* the thread that has acquired the lock, or Nobody           *)
  depth      (* the acquires it has not released                           *)

Init == owner = Nobody /\ depth = 0

Acquire(t) ==
  /\ owner \in {Nobody, t}
  /\ owner' = t
  /\ depth' = depth + 1

Release(t) ==
  /\ owner = t
  /\ depth' = depth - 1
  /\ owner' = IF depth = 1 THEN Nobody ELSE t

Next == \E t \in Threads : Acquire(t) \/ Release(t)
=============================================================================
