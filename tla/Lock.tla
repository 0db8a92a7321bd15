-------------------------------- MODULE Lock --------------------------------
(***************************************************************************)
(* src/lib/threading/lock.4th: the re-entrant lock over one futex word,    *)
(* one shared load or store per step.  LockSpec lets threads call the      *)
(* words as they like; CountedBarrier brings callers of its own.           *)
(***************************************************************************)
EXTENDS Integers

CONSTANTS
  Threads,
  Free,       (* the latch of a lock nobody holds: zero                    *)
  Awake,
  MaxDepth,   (* bound: the acquires a thread nests                        *)
  BareWaits,  (* whether lock-wait-for/2 is also called by itself          *)
  Signals     (* whether a signal handler may interrupt a futex wait       *)

ASSUME LockAssumption ==
  /\ Free \notin Threads
  /\ Awake # "latch"
  /\ MaxDepth \in Nat \ {0}
  /\ BareWaits \in BOOLEAN
  /\ Signals \in BOOLEAN

VARIABLES
  latch,      (* Lock -> latch: the id of the owner, or Free               *)
  count,      (* Lock -> count                                             *)
  pc,         (* the next shared access of each thread                     *)
  call,       (* the word each thread runs and its timeout                 *)
  seen,       (* the count that inc! or dec! has loaded                    *)
  expected, asleep, result,
  depth,      (* history: the acquires a thread has not released yet       *)
  unheld,     (* history: entered although the wait for the lock failed    *)
  raced       (* history: two threads passed the test of the latch together *)

W == INSTANCE FutexWaitFor WITH
  Cells <- {"latch"}, Values <- Threads \cup {Free}, Nothing <- Free

memVars  == <<latch, count>>
waitVars == <<expected, asleep, result>>
histVars == <<depth, unheld, raced>>
lockVars == <<latch, count, pc, call, seen, expected, asleep, result, depth,
              unheld, raced>>

(* lock-acquire drops what lock-acquire/2 answers; lock-wait-for/2 is also *)
(* a word of its own.                                                      *)
Words == {"lock-acquire", "lock-acquire/2", "lock-wait-for/2", "lock-release"}
Calls == {c \in [word : Words, timed : BOOLEAN] :
            /\ c.timed => c.word \in {"lock-acquire/2", "lock-wait-for/2"}
            /\ c.word = "lock-wait-for/2" => BareWaits}

ReleaseCall == [word |-> "lock-release", timed |-> FALSE]

Goto(t, label) == pc' = [pc EXCEPT ![t] = label]

LockInit ==
  /\ latch = Free
  /\ count = 0
  /\ pc = [t \in Threads |-> "idle"]
  /\ call = [t \in Threads |-> ReleaseCall]
  /\ seen = [t \in Threads |-> 0]
  /\ W!WaitInit
  /\ depth = [t \in Threads |-> 0]
  /\ unheld = [t \in Threads |-> FALSE]
  /\ raced = FALSE

(* A thread has acquired once more.                                        *)
Deeper(t) == depth' = [depth EXCEPT ![t] = @ + 1]

(* Between an acquire that returned and the release that ends it.          *)
Inside(t) == depth[t] > 0

Acquiring(t) == call[t].word \in {"lock-acquire", "lock-acquire/2"}

-----------------------------------------------------------------------------
Quiet == \A t \in Threads : pc[t] = "idle" /\ depth[t] = 0

(* Bounds: no deeper nesting than MaxDepth; and after a race has let two   *)
(* threads in, acquires are made one at a time, because the count may then *)
(* drift without end.  The race is over when everybody is out and the lock *)
(* is free again.                                                          *)
Acquire(t, c) ==
  /\ pc[t] = "idle"
  /\ c.word # "lock-release"
  /\ depth[t] < MaxDepth
  /\ raced => Quiet
  /\ call' = [call EXCEPT ![t] = c]
  /\ raced' = (raced /\ latch # Free)
  /\ Goto(t, IF c.word = "lock-wait-for/2" THEN "locked?" ELSE "ours?")
  /\ UNCHANGED <<memVars, seen, waitVars, depth, unheld>>

(* The critical section is over when lock-release is called.               *)
Release(t) ==
  /\ pc[t] = "idle"
  /\ depth[t] > 0
  /\ call' = [call EXCEPT ![t] = ReleaseCall]
  /\ depth' = [depth EXCEPT ![t] = @ - 1]
  /\ unheld' = [unheld EXCEPT ![t] = @ /\ depth[t] > 1]
  /\ Goto(t, "ours?")
  /\ UNCHANGED <<memVars, seen, waitVars, raced>>

(* Mutant: a release that does not look whose lock it is.                  *)
AnyoneReleases(t) ==
  /\ pc[t] = "ours?"
  /\ Goto(t, IF Acquiring(t) /\ latch # t THEN "locked?" ELSE "load-count")
  /\ UNCHANGED <<memVars, call, seen, waitVars, histVars>>

(* lock-ours?: another load of the count of our lock, or on to the wait;   *)
(* releasing somebody else's lock does nothing.                            *)
Ours(t) ==
  /\ pc[t] = "ours?"
  /\ Goto(t, IF latch = t THEN "load-count"
             ELSE IF Acquiring(t) THEN "locked?" ELSE "idle")
  /\ UNCHANGED <<memVars, call, seen, waitVars, histVars>>

LoadCount(t) ==
  /\ pc[t] = "load-count"
  /\ seen' = [seen EXCEPT ![t] = count]
  /\ Goto(t, "store-count")
  /\ UNCHANGED <<memVars, call, waitVars, histVars>>

StoreCount(t) ==
  /\ pc[t] = "store-count"
  /\ \/ /\ Acquiring(t)
        /\ count' = seen[t] + 1
        /\ Deeper(t)
        /\ Goto(t, "idle")
     \/ /\ ~Acquiring(t)
        /\ count' = seen[t] - 1
        /\ Goto(t, IF seen[t] - 1 <= 0 THEN "clear" ELSE "idle")
        /\ UNCHANGED depth
  /\ seen' = [seen EXCEPT ![t] = 0]
  /\ UNCHANGED <<latch, call, waitVars, unheld, raced>>

(* Where lock-wait-for/2 leads when it is content.                         *)
Granted(t) == IF Acquiring(t) THEN "take" ELSE "idle"

(* Records that the test of the latch was passed by a second thread before *)
(* the first one has stored its id.                                        *)
NoteRace(t) ==
  raced' = (raced \/ (Acquiring(t) /\ \E u \in Threads \ {t} : pc[u] = "take"))

(* lock-wait-for/2: lock-locked?, lock-ours?, futex-wait-for-equals/3.     *)
Locked(t) ==
  /\ pc[t] = "locked?"
  /\ \/ latch # Free /\ Goto(t, "ours too?") /\ UNCHANGED raced
     \/ latch = Free /\ Goto(t, Granted(t)) /\ NoteRace(t)
  /\ UNCHANGED <<memVars, call, seen, waitVars, depth, unheld>>

OursToo(t) ==
  /\ pc[t] = "ours too?"
  /\ Goto(t, IF latch = t THEN Granted(t) ELSE "test")
  /\ UNCHANGED <<memVars, call, seen, waitVars, histVars>>

WaitTest(t) ==
  /\ W!Test(t, latch = Free, Granted(t))
  /\ IF latch = Free THEN NoteRace(t) ELSE UNCHANGED raced
  /\ UNCHANGED <<memVars, call, seen, depth, unheld>>

WaitPeek(t) ==
  /\ W!Peek(t, latch)
  /\ UNCHANGED <<memVars, call, seen, histVars>>

WaitEnter(t) ==
  /\ W!Enter(t, "latch", latch)
  /\ UNCHANGED <<memVars, call, seen, histVars>>

WaitWoken(t) ==
  /\ W!Woken(t, latch = Free, call[t].timed, Granted(t), "failed")
  /\ IF pc'[t] = "take" THEN NoteRace(t) ELSE UNCHANGED raced
  /\ UNCHANGED <<memVars, call, seen, depth, unheld>>

(* lock-acquire/2 and lock-wait-for/2 hand the failure on; lock-acquire    *)
(* drops it, and its caller goes on as if it had the lock.                 *)
Failed(t) ==
  /\ pc[t] = "failed"
  /\ Goto(t, "idle")
  /\ IF call[t].word = "lock-acquire"
     THEN Deeper(t) /\ unheld' = [unheld EXCEPT ![t] = TRUE]
     ELSE UNCHANGED <<depth, unheld>>
  /\ UNCHANGED <<memVars, call, seen, waitVars, raced>>

(* Mutant: the words stored to the latch and to the count are swapped.     *)
TakeSwapped(t) ==
  /\ pc[t] = "take"
  /\ latch' = 1
  /\ Goto(t, "first")
  /\ UNCHANGED <<count, call, seen, waitVars, histVars>>

(* A plain store, whatever the latch holds by now.                         *)
Take(t) ==
  /\ pc[t] = "take"
  /\ latch' = t
  /\ Goto(t, "first")
  /\ UNCHANGED <<count, call, seen, waitVars, histVars>>

(* Mutant: the count of the previous owner is kept.                        *)
FirstAddsOne(t) ==
  /\ pc[t] = "first"
  /\ count' = count + 1
  /\ Deeper(t)
  /\ Goto(t, "idle")
  /\ UNCHANGED <<latch, call, seen, waitVars, unheld, raced>>

First(t) ==
  /\ pc[t] = "first"
  /\ count' = 1
  /\ Deeper(t)
  /\ Goto(t, "idle")
  /\ UNCHANGED <<latch, call, seen, waitVars, unheld, raced>>

Clear(t) ==
  /\ pc[t] = "clear"
  /\ latch' = Free
  /\ Goto(t, "wake")
  /\ UNCHANGED <<count, call, seen, waitVars, histVars>>

(* Mutant: the lock is opened in silence.                                  *)
WakeNobody(t) ==
  /\ pc[t] = "wake"
  /\ Goto(t, "idle")
  /\ UNCHANGED <<memVars, call, seen, waitVars, histVars>>

Wake(t) ==
  /\ pc[t] = "wake"
  /\ W!F!FutexWakeOne("latch")
  /\ Goto(t, "idle")
  /\ UNCHANGED <<memVars, call, seen, expected, histVars>>

Step(t) ==
  \/ Ours(t) \/ LoadCount(t) \/ StoreCount(t) \/ Locked(t) \/ OursToo(t)
  \/ WaitTest(t) \/ WaitPeek(t) \/ WaitEnter(t) \/ WaitWoken(t) \/ Failed(t)
  \/ Take(t) \/ First(t) \/ Clear(t) \/ Wake(t)

TimeOut(t) ==
  /\ call[t].timed
  /\ W!GiveUp(t, "ETIMEDOUT")
  /\ UNCHANGED <<memVars, call, seen, histVars>>

Interrupt(t) ==
  /\ Signals
  /\ W!GiveUp(t, "EINTR")
  /\ UNCHANGED <<memVars, call, seen, histVars>>

Kernel(t) == TimeOut(t) \/ Interrupt(t)

Labels == {"idle", "ours?", "load-count", "store-count", "locked?", "ours too?",
           "failed", "take", "first", "clear", "wake"} \cup W!WaitLabels

CountsOK ==
  /\ count \in Int
  /\ seen \in [Threads -> Int]
  /\ depth \in [Threads -> Nat]

ControlOK ==
  /\ latch \in Threads \cup {Free}
  /\ pc \in [Threads -> Labels]
  /\ call \in [Threads -> Calls]
  /\ W!WaitTypeOK
  /\ unheld \in [Threads -> BOOLEAN]
  /\ raced \in BOOLEAN

LockTypeOK == CountsOK /\ ControlOK
-----------------------------------------------------------------------------
(* Threads that acquire and release the lock as they like, nesting it at   *)
(* most MaxDepth times and releasing no more often than they acquired, and *)
(* what the kernel may do beside them.                                     *)
LockNext ==
  \E t \in Threads :
    \/ \E c \in Calls : Acquire(t, c)
    \/ Release(t)
    \/ Step(t)
    \/ Kernel(t)

(* A thread inside a word keeps running, timers expire, and whoever is in  *)
(* the critical section leaves it some time.                               *)
LockFairness ==
  \A t \in Threads :
    /\ WF_lockVars(Step(t))
    /\ WF_lockVars(TimeOut(t))
    /\ WF_lockVars(Release(t))

LockSpec == LockInit /\ [][LockNext]_lockVars /\ LockFairness

-----------------------------------------------------------------------------
(* What a lock is for: at most one thread is inside at any time.           *)
MutualExclusion == \A t, u \in Threads : Inside(t) /\ Inside(u) => t = u

(* The two ways out of mutual exclusion are the only ones: a thread that   *)
(* did not enter on a failed wait is alone, until two threads have passed  *)
(* the test of the latch together.  Re-entry, releases by threads that do  *)
(* not own the lock, wakes and timeouts in any order never let two in.     *)
ExclusiveUnlessRaced ==
  ~raced => \A t, u \in Threads :
              Inside(t) /\ Inside(u) /\ ~unheld[t] /\ ~unheld[u] => t = u

(* The count of a thread that owns the lock is the number of acquires it   *)
(* has not released, and the lock of a thread that has released them all   *)
(* is free: between two calls of the owner the latch and the count agree   *)
(* with what its caller did.                                               *)
CountIsDepth ==
  ~raced => \A t \in Threads :
              latch = t /\ pc[t] = "idle" /\ ~unheld[t] => count = depth[t] /\ count > 0

(* The latch names an owner from the store of its count until the store    *)
(* that takes its last acquire off it.                                     *)
Owner == IF latch # Free /\ pc[latch] \notin {"first", "clear"} THEN latch ELSE Free
Nest  == IF Owner = Free THEN 0 ELSE count

Reentrant == INSTANCE ReentrantLock WITH Nobody <- Free, owner <- Owner, depth <- Nest

(* As long as no two threads pass the test of the latch together, the      *)
(* loads and stores of lock-acquire and lock-release, in any order with    *)
(* those of other threads, are the steps of one re-entrant lock: the latch *)
(* is neither stolen nor lost and the count moves by one acquire or        *)
(* release at a time, of its owner.                                        *)
LockIsReentrant ==
  Reentrant!Init /\ [][raced \/ raced' \/ Reentrant!Next]_<<Owner, Nest>>

(* Nobody sleeps for good on an owner that has gone: when a thread sleeps  *)
(* expecting an owner and the lock is free, some thread is on its way that *)
(* will wake it or take the lock and wake it later.                        *)
SleeperHasWaker ==
  \A t \in Threads :
    asleep[t] # Awake /\ expected[t] # Free /\ latch = Free
      => \E u \in Threads :
           \/ pc[u] \in {"wake", "take"}
           \/ pc[u] = "woken" /\ asleep[u] = Awake

(* A thread that sleeps while the lock is free is woken, or the lock is    *)
(* taken again.                                                            *)
FreeLockIsTaken ==
  \A t \in Threads :
    asleep[t] # Awake /\ latch = Free ~> asleep[t] = Awake \/ latch # Free
=============================================================================
