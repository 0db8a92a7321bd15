-------------------------- MODULE PriorityLockUse --------------------------
(***************************************************************************)
(* Threads that use one priority lock the way                              *)
(* src/tests/lib/threading/priority-lock.4th does: acquire it, perhaps     *)
(* again, and release it as often.                                         *)
(***************************************************************************)
EXTENDS PriorityLock

CONSTANTS
  MaxDepth,  (* bound: the acquires a thread nests                         *)
  MaxUses    (* bound: the acquires of each thread                         *)

ASSUME UseAssumption == MaxDepth \in Nat \ {0} /\ MaxUses \in Nat

VARIABLES
  depth,     (* the acquires a thread has not released yet                 *)
  uses       (* how often each thread has called priority-lock-acquire     *)

useVars == <<priorityVars, depth, uses>>

Breached == \E l \in Locks : breached[l]

Init ==
  /\ PriorityInit
  /\ depth = [t \in Threads |-> 0]
  /\ uses = [t \in Threads |-> 0]

(* A thread acquires one lock at a time, and releases what it has acquired. *)
CallAcquire(t) ==
  /\ \E l \in Locks : (depth[t] > 0 => lock[t] = l) /\ Enter(t, l, TRUE)
  /\ depth' = [depth EXCEPT ![t] = @ + 1]

CallRelease(t) ==
  /\ depth[t] > 0
  /\ Enter(t, lock[t], FALSE)
  /\ depth' = [depth EXCEPT ![t] = @ - 1]

(* Bound: no acquire after the lock has let a second thread in, for the    *)
(* count may then drift.                                                   *)
Acquire(t) ==
  /\ depth[t] < MaxDepth /\ uses[t] < MaxUses /\ ~Breached
  /\ CallAcquire(t)
  /\ uses' = [uses EXCEPT ![t] = @ + 1]

Release(t) == CallRelease(t) /\ UNCHANGED uses

Run(t) == Step(t) /\ UNCHANGED <<depth, uses>>

Next == \E t \in Threads : Acquire(t) \/ Release(t) \/ Run(t)

(* A thread inside a word keeps running and releases what it acquired.     *)
Fairness == \A t \in Threads : WF_useVars(Run(t)) /\ WF_useVars(Release(t))

Spec == Init /\ [][Next]_useVars /\ Fairness

-----------------------------------------------------------------------------
(* Between its acquires and its releases, in neither of the words.         *)
Inside(t) == depth[t] > 0 /\ at[t] = "idle"

(* One thread is inside, the lock names it and counts its acquires, and a  *)
(* thread that has released them all no longer owns the lock, unless the   *)
(* lock has let a second thread in.                                        *)
OwnerCounts ==
  \A t \in Threads :
    ~breached[lock[t]] /\ at[t] = "idle" =>
      IF depth[t] > 0 THEN latch[lock[t]].owner = t /\ count[lock[t]] = depth[t]
      ELSE latch[lock[t]].owner # t

(* The kernel and the word agree for as long as no plain store has hidden  *)
(* the waiters: their owner is a thread that has not given the lock up, and *)
(* its release finds FUTEX_WAITERS set unless it has looked already.       *)
WaitersKnown ==
  \A l \in Locks :
    waiting[l] # {} /\ ~breached[l] /\ ~forgotten[l] =>
      /\ latch[l] = PI!Word(piOwner[l], TRUE)
      /\ \/ Inside(piOwner[l])
         \/ at[piOwner[l]] \notin {"idle", "clear"}
         \/ at[piOwner[l]] = "clear" /\ alone[piOwner[l]]

(* The word of a lock names an owner when it is in its calls or between    *)
(* them, but not before its first store of the count, nor once a release   *)
(* has taken the last acquire off it, nor while it has yet to find out     *)
(* that the kernel has handed it the lock.                                 *)
Owner(l) ==
  LET t == latch[l].owner
  IN  IF t # Nobody /\ at[t] \in {"idle", "ours?", "load-count", "store-count"}
      THEN t ELSE Nobody
Nest(l) == IF Owner(l) = Nobody THEN 0 ELSE count[l]

Reentrant(l) == INSTANCE ReentrantLock WITH owner <- Owner(l), depth <- Nest(l)

(* As long as a lock has not let a second thread in, the plain stores and  *)
(* the system calls of its threads are the steps of one re-entrant lock:   *)
(* the kernel hands over nothing but a free lock, and nobody stores over   *)
(* an owner.                                                               *)
PriorityLockIsReentrant ==
  /\ \A l \in Locks : Reentrant(l)!Init
  /\ [][\A l \in Locks :
          breached[l] \/ breached[l]' \/ [Reentrant(l)!Next]_<<Owner(l), Nest(l)>>]_useVars

(* Whoever waits for the lock gets it some time, unless a plain store has  *)
(* hidden the waiters or the lock lets a second thread in.                 *)
ServedUnlessForgotten ==
  \A t \in Threads, l \in Locks :
    t \in waiting[l] ~> t \notin waiting[l] \/ forgotten[l] \/ breached[l]

(* "let the threads run": whoever waits, FUTEX_WAITERS set, for a lock     *)
(* whose owner has yet to release it gets the lock some time, unless the   *)
(* lock lets a second thread in.                                           *)
WaiterServed ==
  \A t, u \in Threads, l \in Locks :
    t \in waiting[l] /\ latch[l] = PI!Word(u, TRUE) /\ Inside(u)
      ~> t \notin waiting[l] \/ breached[l]
-----------------------------------------------------------------------------
(* The inductive invariant behind OwnerCounts and WaitersKnown.            *)

(* Between the store of its id and the end of its last release.            *)
Holds(t) ==
  \/ at[t] = "idle" /\ depth[t] > 0
  \/ at[t] = "ours?" /\ (acquiring[t] => depth[t] > 1)
  \/ at[t] \in {"load-count", "store-count", "first", "waiters?", "clear",
                "unlock-pi"}

(* The acquires the count stands for: a word takes effect on it some steps *)
(* after the caller has called it.                                         *)
Counted(t) ==
  IF at[t] \in {"ours?", "load-count", "store-count"}
  THEN IF acquiring[t] THEN depth[t] - 1 ELSE depth[t] + 1
  ELSE depth[t]

(* What a thread relies on that holds the lock, and one about to store its *)
(* id.                                                                     *)
HolderOK(t) ==
  /\ latch[lock[t]].owner = t
  /\ at[t] \in {"idle", "ours?", "load-count", "store-count"}
       => count[lock[t]] = Counted(t)
  /\ at[t] = "store-count" => seen[t] = count[lock[t]]
  /\ at[t] \in {"load-count", "store-count"} /\ acquiring[t] => depth[t] > 1
  /\ at[t] = "first" => depth[t] = 1
  /\ at[t] \in {"waiters?", "clear", "unlock-pi"} => depth[t] = 0
  /\ at[t] = "unlock-pi" => latch[lock[t]].waiters
  /\ at[t] = "clear" /\ ~forgotten[lock[t]] => alone[t]

TakerOK(t) ==
  \A u \in Threads \ {t} : lock[u] = lock[t] => at[u] # "take" /\ ~Holds(u)

Good(t) ==
  ~breached[lock[t]] =>
    /\ Holds(t) => HolderOK(t)
    /\ at[t] = "take" => TakerOK(t)
    /\ at[t] \in {"locked?", "lock-pi", "handed?", "take"} => depth[t] = 1

(* Whoever a lock names holds it or is about to find out that it may.      *)
OwnerOK(l) ==
  ~breached[l] => \A t \in Threads :
    latch[l].owner = t => lock[t] = l /\ (Holds(t) \/ at[t] \in {"handed?", "take"})

(* What the kernel keeps, whatever is stored to the word.                  *)
KernelOK(l) ==
  /\ \A t \in waiting[l] : at[t] = "handed?" /\ lock[t] = l
  /\ waiting[l] # {} => piOwner[l] # Nobody
  /\ latch[l].waiters => waiting[l] = {} \/ piOwner[l] = latch[l].owner

Hidden(l) ==
  waiting[l] # {} /\ ~breached[l] /\ ~forgotten[l]
    => latch[l] = PI!Word(piOwner[l], TRUE)

Sane(t) ==
  /\ at[t] \in {"locked?", "lock-pi", "handed?", "take", "first"} => acquiring[t]
  /\ at[t] \in {"waiters?", "clear", "unlock-pi"} => ~acquiring[t]
  /\ at[t] = "ours?" /\ acquiring[t] => depth[t] > 0

PriorityInv ==
  /\ \A t \in Threads : Sane(t) /\ Good(t)
  /\ \A l \in Locks : OwnerOK(l) /\ KernelOK(l) /\ Hidden(l)

UseTypeOK ==
  /\ PriorityTypeOK
  /\ depth \in [Threads -> Nat]
=============================================================================
