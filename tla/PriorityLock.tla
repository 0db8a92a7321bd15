---------------------------- MODULE PriorityLock ----------------------------
(***************************************************************************)
(* src/lib/threading/priority-lock.4th: the re-entrant lock over a         *)
(* priority inheriting futex, one shared load, store or system call per    *)
(* step.  Calling the words is left to the modules that use the lock.      *)
(***************************************************************************)
EXTENDS Integers

CONSTANTS Threads, Locks, Nobody

ASSUME PriorityLockAssumption == Nobody \notin Threads /\ Locks # {}

VARIABLES
  latch,     (* PriorityLock -> latch of each lock                         *)
  count,     (* PriorityLock -> count of each lock                         *)
  waiting, piOwner,
  at,        (* the next shared access of each thread                      *)
  lock,      (* the argument of the word it runs                           *)
  acquiring, (* whether that word is priority-lock-acquire                 *)
  seen,      (* the count that inc! or dec! has loaded                     *)
  breached,  (* history: the lock has let a second thread in               *)
  forgotten, (* history: a plain store has hidden the waiters of the lock  *)
  alone      (* history: nobody waited when the release looked for waiters *)

PI == INSTANCE PIFutex

stackVars == <<lock, acquiring, seen>>
histVars  == <<breached, forgotten, alone>>
priorityVars ==
  <<latch, count, waiting, piOwner, at, lock, acquiring, seen, breached,
    forgotten, alone>>

PriorityInit ==
  /\ PI!PIInit
  /\ count = [l \in Locks |-> 0]
  /\ at = [t \in Threads |-> "idle"]
  /\ lock = [t \in Threads |-> CHOOSE l \in Locks : TRUE]
  /\ acquiring = [t \in Threads |-> FALSE]
  /\ seen = [t \in Threads |-> 0]
  /\ breached = [l \in Locks |-> FALSE]
  /\ forgotten = [l \in Locks |-> FALSE]
  /\ alone = [t \in Threads |-> FALSE]

Goto(t, label) == at' = [at EXCEPT ![t] = label]
Ours(t) == latch[lock[t]].owner = t

-----------------------------------------------------------------------------
(* priority-lock-acquire, which waits without a timeout and tells its      *)
(* caller nothing, and priority-lock-release.                              *)
Enter(t, l, acquire) ==
  /\ at[t] = "idle"
  /\ lock' = [lock EXCEPT ![t] = l]
  /\ acquiring' = [acquiring EXCEPT ![t] = acquire]
  /\ Goto(t, "ours?")
  /\ UNCHANGED <<latch, count, waiting, piOwner, seen, histVars>>

(* priority-lock-ours?                                                     *)
IsOurs(t) ==
  /\ at[t] = "ours?"
  /\ Goto(t, IF Ours(t) THEN "load-count"
             ELSE IF acquiring[t] THEN "locked?" ELSE "idle")
  /\ UNCHANGED <<latch, count, waiting, piOwner, stackVars, histVars>>

LoadCount(t) ==
  /\ at[t] = "load-count"
  /\ seen' = [seen EXCEPT ![t] = count[lock[t]]]
  /\ Goto(t, "store-count")
  /\ UNCHANGED <<latch, count, waiting, piOwner, lock, acquiring, histVars>>

(* Mutant: a release gives the lock up however often it was acquired.      *)
StoreCountOnce(t) ==
  /\ at[t] = "store-count"
  /\ count' = [count EXCEPT ![lock[t]] = seen[t] + IF acquiring[t] THEN 1 ELSE -1]
  /\ Goto(t, IF acquiring[t] THEN "idle" ELSE "waiters?")
  /\ seen' = [seen EXCEPT ![t] = 0]
  /\ UNCHANGED <<latch, waiting, piOwner, lock, acquiring, histVars>>

(* Mutant: one release too many is asked for.                              *)
StoreCountLate(t) ==
  /\ at[t] = "store-count"
  /\ count' = [count EXCEPT ![lock[t]] = seen[t] + IF acquiring[t] THEN 1 ELSE -1]
  /\ Goto(t, IF ~acquiring[t] /\ seen[t] <= 0 THEN "waiters?" ELSE "idle")
  /\ seen' = [seen EXCEPT ![t] = 0]
  /\ UNCHANGED <<latch, waiting, piOwner, lock, acquiring, histVars>>

StoreCount(t) ==
  /\ at[t] = "store-count"
  /\ count' = [count EXCEPT ![lock[t]] = seen[t] + IF acquiring[t] THEN 1 ELSE -1]
  /\ Goto(t, IF ~acquiring[t] /\ seen[t] <= 1 THEN "waiters?" ELSE "idle")
  /\ seen' = [seen EXCEPT ![t] = 0]
  /\ UNCHANGED <<latch, waiting, piOwner, lock, acquiring, histVars>>

-----------------------------------------------------------------------------
(* priority-lock-wait-for/2: content, it lets priority-lock-acquire/2 take *)
(* the lock.  Recorded is when that lets a second thread pass.             *)
Grant(t) ==
  /\ Goto(t, "take")
  /\ breached' = [breached EXCEPT
       ![lock[t]] = @ \/ \E u \in Threads \ {t} : at[u] = "take" /\ lock[u] = lock[t]]

(* priority-lock-locked?  The second priority-lock-ours? that follows is   *)
(* never true: the first was not, and nobody else stores our id before we  *)
(* are in the kernel.                                                      *)
IsLocked(t) ==
  /\ at[t] = "locked?"
  /\ \/ latch[lock[t]] = PI!Word(Nobody, FALSE) /\ Grant(t)
     \/ /\ latch[lock[t]] # PI!Word(Nobody, FALSE)
        /\ Goto(t, "lock-pi")
        /\ UNCHANGED breached
  /\ UNCHANGED <<latch, count, waiting, piOwner, stackVars, forgotten, alone>>

(* futex-lock-pi/2 succeeds, now or when the kernel hands the lock over    *)
LockPI(t) ==
  /\ at[t] = "lock-pi"
  /\ PI!LockFree(t, lock[t]) \/ PI!LockBlocks(t, lock[t])
  /\ Goto(t, "handed?")
  /\ UNCHANGED <<count, stackVars, histVars>>

(* or fails, and the caller of priority-lock-acquire goes on as if it had  *)
(* the lock.                                                               *)
LockFails(t) ==
  /\ at[t] = "lock-pi"
  /\ PI!LockRefused(t, lock[t])
  /\ Goto(t, "idle")
  /\ breached' = [breached EXCEPT ![lock[t]] = TRUE]
  /\ UNCHANGED <<count, stackVars, forgotten, alone>>

(* Ours now, or repeat-frame.                                              *)
Handed(t) ==
  /\ at[t] = "handed?"
  /\ t \notin waiting[lock[t]]
  /\ \/ Ours(t) /\ Grant(t)
     \/ ~Ours(t) /\ Goto(t, "locked?") /\ UNCHANGED breached
  /\ UNCHANGED <<latch, count, waiting, piOwner, stackVars, forgotten, alone>>

(* Mutant: the words stored to the latch and to the count are swapped.     *)
TakeSwapped(t) ==
  /\ at[t] = "take"
  /\ PI!Store(lock[t], 1)
  /\ forgotten' = [forgotten EXCEPT ![lock[t]] = @ \/ waiting[lock[t]] # {}]
  /\ Goto(t, "first")
  /\ UNCHANGED <<count, waiting, piOwner, stackVars, breached, alone>>

(* Our id is stored over whatever the word holds, FUTEX_WAITERS included.  *)
Take(t) ==
  /\ at[t] = "take"
  /\ PI!Store(lock[t], t)
  /\ forgotten' = [forgotten EXCEPT ![lock[t]] = @ \/ waiting[lock[t]] # {}]
  /\ Goto(t, "first")
  /\ UNCHANGED <<count, waiting, piOwner, stackVars, breached, alone>>

First(t) ==
  /\ at[t] = "first"
  /\ count' = [count EXCEPT ![lock[t]] = 1]
  /\ Goto(t, "idle")
  /\ UNCHANGED <<latch, waiting, piOwner, stackVars, histVars>>

-----------------------------------------------------------------------------
(* Mutant: the release does not look for waiters.                          *)
NeverHandsOver(t) ==
  /\ at[t] = "waiters?"
  /\ alone' = [alone EXCEPT ![t] = waiting[lock[t]] = {}]
  /\ Goto(t, "clear")
  /\ UNCHANGED <<latch, count, waiting, piOwner, stackVars, breached, forgotten>>

HasWaiters(t) ==
  /\ at[t] = "waiters?"
  /\ alone' = [alone EXCEPT ![t] = waiting[lock[t]] = {}]
  /\ Goto(t, IF latch[lock[t]].waiters THEN "unlock-pi" ELSE "clear")
  /\ UNCHANGED <<latch, count, waiting, piOwner, stackVars, breached, forgotten>>

Clear(t) ==
  /\ at[t] = "clear"
  /\ PI!Store(lock[t], Nobody)
  /\ forgotten' = [forgotten EXCEPT
                     ![lock[t]] = @ \/ (alone[t] /\ waiting[lock[t]] # {})]
  /\ alone' = [alone EXCEPT ![t] = FALSE]
  /\ Goto(t, "idle")
  /\ UNCHANGED <<count, waiting, piOwner, stackVars, breached>>

(* What futex-unlock-pi answers is dropped.                                *)
UnlockPI(t) ==
  /\ at[t] = "unlock-pi"
  /\ PI!HandOver(t, lock[t]) \/ PI!UnlockRefused(t, lock[t])
  /\ alone' = [alone EXCEPT ![t] = FALSE]
  /\ Goto(t, "idle")
  /\ UNCHANGED <<count, stackVars, breached, forgotten>>

Step(t) ==
  \/ IsOurs(t) \/ LoadCount(t) \/ StoreCount(t) \/ IsLocked(t) \/ LockPI(t)
  \/ LockFails(t) \/ Handed(t) \/ Take(t) \/ First(t)
  \/ HasWaiters(t) \/ Clear(t) \/ UnlockPI(t)

Labels == {"idle", "ours?", "load-count", "store-count", "locked?", "lock-pi",
           "handed?", "take", "first", "waiters?", "clear", "unlock-pi"}

PriorityTypeOK ==
  /\ PI!PITypeOK
  /\ count \in [Locks -> Int]
  /\ at \in [Threads -> Labels]
  /\ lock \in [Threads -> Locks]
  /\ acquiring \in [Threads -> BOOLEAN]
  /\ seen \in [Threads -> Int]
  /\ breached \in [Locks -> BOOLEAN]
  /\ forgotten \in [Locks -> BOOLEAN]
  /\ alone \in [Threads -> BOOLEAN]
=============================================================================
