--------------------------- MODULE CountedBarrier ---------------------------
(***************************************************************************)
(* src/lib/threading/barriers/counted.4th: a counter behind a Lock, and    *)
(* threads that wait for it to reach a value.  The threads of the lock     *)
(* increment and decrement, the Waiters wait.                              *)
(***************************************************************************)
EXTENDS Lock

CONSTANTS
  Waiters,
  Targets,   (* the values waited for                                      *)
  MaxOps     (* bound: the increments and decrements that are called       *)

ASSUME BarrierAssumption ==
  /\ Awake # "count"
  /\ MaxOps \in Nat
  /\ Targets \subseteq Int

VARIABLES
  value,     (* CountedBarrier -> count                                    *)
  stage,     (* where a thread is in counted-barrier-inc or -dec           *)
  delta,     (* 1 in counted-barrier-inc, -1 in counted-barrier-dec        *)
  loaded,    (* the count that inc! or dec! has loaded                     *)
  wpc, want, (* where a waiter is, the value it waits for,                 *)
  limited,   (* and whether it has set a timeout                           *)
  peeked, wasleep, wresult,
  ops,       (* history: the calls of inc and dec so far                   *)
  applied,   (* history: what they add up to                               *)
  spoiled    (* history: the lock has let two threads in, or one in vain   *)

C == INSTANCE FutexWaitFor WITH
  Threads <- Waiters, Cells <- {"count"}, Values <- Int, Nothing <- 0,
  pc <- wpc, expected <- peeked, asleep <- wasleep, result <- wresult

countVars   == <<stage, delta, loaded>>
waiterVars  == <<wpc, want, limited, peeked, wasleep, wresult>>
barrierVars == <<lockVars, value, countVars, waiterVars, ops, applied, spoiled>>

AcquireCall == [word |-> "lock-acquire", timed |-> FALSE]

Init ==
  /\ LockInit
  /\ value = 0
  /\ stage = [t \in Threads |-> "idle"]
  /\ delta = [t \in Threads |-> 1]
  /\ loaded = [t \in Threads |-> 0]
  /\ wpc = [w \in Waiters |-> "idle"]
  /\ want \in [Waiters -> Targets]
  /\ limited = [w \in Waiters |-> FALSE]
  /\ C!WaitInit
  /\ ops = 0 /\ applied = 0 /\ spoiled = FALSE

-----------------------------------------------------------------------------
At(t, s)    == stage[t] = s /\ pc[t] = "idle"
Stage(t, s) == stage' = [stage EXCEPT ![t] = s]

(* counted-barrier-inc and counted-barrier-dec begin with lock-acquire.    *)
Count(t, d) ==
  /\ At(t, "idle")
  /\ ops < MaxOps
  /\ Acquire(t, AcquireCall)
  /\ Stage(t, "locking")
  /\ delta' = [delta EXCEPT ![t] = d]
  /\ ops' = ops + 1
  /\ UNCHANGED <<value, loaded, waiterVars, applied>>

InLock(t) ==
  /\ Step(t)
  /\ UNCHANGED <<value, countVars, waiterVars, ops, applied>>

Disturbed(t) ==
  /\ Kernel(t)
  /\ UNCHANGED <<value, countVars, waiterVars, ops, applied>>

(* Mutant: the lock is taken for the counter.                              *)
LoadOther(t) ==
  /\ At(t, "locking")
  /\ loaded' = [loaded EXCEPT ![t] = latch]
  /\ Stage(t, "store")
  /\ UNCHANGED <<lockVars, value, delta, waiterVars, ops, applied>>

(* Mutant: the count is loaded while lock-acquire has yet to return.       *)
LoadEarly(t) ==
  /\ stage[t] = "locking"
  /\ loaded' = [loaded EXCEPT ![t] = value]
  /\ Stage(t, "store")
  /\ UNCHANGED <<lockVars, value, delta, waiterVars, ops, applied>>

(* inc! and dec!: a load, an addition and a store.                         *)
Load(t) ==
  /\ At(t, "locking")
  /\ loaded' = [loaded EXCEPT ![t] = value]
  /\ Stage(t, "store")
  /\ UNCHANGED <<lockVars, value, delta, waiterVars, ops, applied>>

Store(t) ==
  /\ At(t, "store")
  /\ value' = loaded[t] + delta[t]
  /\ applied' = applied + delta[t]
  /\ loaded' = [loaded EXCEPT ![t] = 0]
  /\ Stage(t, "unlock")
  /\ UNCHANGED <<lockVars, delta, waiterVars, ops>>

Unlock(t) ==
  /\ At(t, "unlock")
  /\ Release(t)
  /\ Stage(t, "wake")
  /\ UNCHANGED <<value, delta, loaded, waiterVars, ops, applied>>

(* Mutant: only one waiter is woken, and it may be one that waits for      *)
(* another value.                                                          *)
WakeOne(t) ==
  /\ At(t, "wake")
  /\ C!F!FutexWakeOne("count")
  /\ Stage(t, "idle")
  /\ UNCHANGED <<lockVars, value, delta, loaded, wpc, want, limited, peeked,
                 ops, applied>>

WakeAll(t) ==
  /\ At(t, "wake")
  /\ C!F!FutexWakeAll("count")
  /\ Stage(t, "idle")
  /\ UNCHANGED <<lockVars, value, delta, loaded, wpc, want, limited, peeked,
                 ops, applied>>

Counting(t) == InLock(t) \/ Load(t) \/ Store(t) \/ Unlock(t) \/ WakeAll(t)

-----------------------------------------------------------------------------
(* counted-barrier-wait-for, which takes no lock.                          *)
Holds(w) == value = want[w]

WaitFor(w, target, timed) ==
  /\ wpc[w] \in {"idle", "true", "false"}
  /\ wpc' = [wpc EXCEPT ![w] = "test"]
  /\ want' = [want EXCEPT ![w] = target]
  /\ limited' = [limited EXCEPT ![w] = timed]
  /\ UNCHANGED <<lockVars, value, countVars, peeked, wasleep, wresult, ops,
                 applied>>

(* The steps of futex-wait-for-equals/3 on the count.                      *)
WaitStep(w) ==
  /\ \/ C!Test(w, Holds(w), "true")
     \/ C!Peek(w, value)
     \/ C!Enter(w, "count", value)
     \/ C!Woken(w, Holds(w), limited[w], "true", "false")
  /\ UNCHANGED <<lockVars, value, countVars, want, limited, ops, applied>>

WaitKernel(w) ==
  /\ \/ limited[w] /\ C!GiveUp(w, "ETIMEDOUT")
     \/ Signals /\ C!GiveUp(w, "EINTR")
  /\ UNCHANGED <<lockVars, value, countVars, want, limited, ops, applied>>

Noted == spoiled' = (spoiled \/ raced' \/ \E t \in Threads : unheld'[t])

Next ==
  /\ \/ \E t \in Threads :
          (\E d \in {1, -1} : Count(t, d)) \/ Counting(t) \/ Disturbed(t)
     \/ \E w \in Waiters :
          \/ \E v \in Targets, b \in BOOLEAN : WaitFor(w, v, b)
          \/ WaitStep(w) \/ WaitKernel(w)
  /\ Noted

Spec == Init /\ [][Next]_barrierVars

-----------------------------------------------------------------------------
Stages == {"idle", "locking", "store", "unlock", "wake"}

BarrierTypeOK ==
  /\ LockTypeOK
  /\ value \in Int
  /\ stage \in [Threads -> Stages]
  /\ delta \in [Threads -> {1, -1}]
  /\ loaded \in [Threads -> Int]
  /\ wpc \in [Waiters -> {"idle", "true", "false"} \cup C!WaitLabels]
  /\ want \in [Waiters -> Targets]
  /\ limited \in [Waiters -> BOOLEAN]
  /\ C!WaitTypeOK
  /\ ops \in 0 .. MaxOps
  /\ applied \in Int
  /\ spoiled \in BOOLEAN

(* "A thread safe counter": no increment or decrement is lost unless the   *)
(* lock has failed, for the load and the store of inc! and dec! need the   *)
(* lock and nothing more.                                                  *)
NothingLostUnderLock == ~spoiled => value = applied

(* A waiter does not sleep through its value: when it sleeps on another    *)
(* value than the one it wants and the count is the one it wants, the      *)
(* thread that stored it has yet to wake it.                               *)
WaiterHasWaker ==
  \A w \in Waiters :
    wasleep[w] # Awake /\ peeked[w] # want[w] /\ Holds(w)
      => \E t \in Threads : stage[t] \in {"unlock", "wake"}
=============================================================================
