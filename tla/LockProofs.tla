----------------------------- MODULE LockProofs -----------------------------
(***************************************************************************)
(* The lock, for every set of threads and every depth of nesting: the      *)
(* types, mutual exclusion and the count by one inductive invariant, the   *)
(* re-entrant lock it implements, and the waking of sleepers by another    *)
(* invariant.  Then the counted barrier around it, for every set of        *)
(* counting threads and of waiters, every value waited for and every       *)
(* number of calls.                                                        *)
(***************************************************************************)
EXTENDS CountedBarrier, TLAPS

USE LockAssumption

(* The call a thread starts with is one of the calls.                      *)
LEMMA ReleaseCallType == ReleaseCall \in Calls
  BY DEF ReleaseCall, Calls, Words

(* The counts and the history of acquires are numbers.                     *)
LEMMA CountsStep ==
  ASSUME CountsOK, [LockNext]_lockVars
  PROVE  CountsOK'
<1> USE DEF CountsOK, memVars, histVars
<1>1. ASSUME NEW t \in Threads, NEW c \in Calls, Acquire(t, c)
      PROVE  CountsOK'
  BY <1>1 DEF Acquire
<1>2. ASSUME NEW t \in Threads, Release(t)
      PROVE  CountsOK'
  BY <1>2 DEF Release
<1>3. ASSUME NEW t \in Threads, Ours(t)
      PROVE  CountsOK'
  BY <1>3 DEF Ours
<1>4. ASSUME NEW t \in Threads, LoadCount(t)
      PROVE  CountsOK'
  BY <1>4 DEF LoadCount
<1>5. ASSUME NEW t \in Threads, StoreCount(t)
      PROVE  CountsOK'
  BY <1>5 DEF StoreCount, Deeper
<1>6. ASSUME NEW t \in Threads, Locked(t)
      PROVE  CountsOK'
  BY <1>6 DEF Locked
<1>7. ASSUME NEW t \in Threads, OursToo(t)
      PROVE  CountsOK'
  BY <1>7 DEF OursToo
<1>8. ASSUME NEW t \in Threads, WaitTest(t)
      PROVE  CountsOK'
  BY <1>8 DEF WaitTest
<1>9. ASSUME NEW t \in Threads, WaitPeek(t)
      PROVE  CountsOK'
  BY <1>9 DEF WaitPeek
<1>10. ASSUME NEW t \in Threads, WaitEnter(t)
      PROVE  CountsOK'
  BY <1>10 DEF WaitEnter
<1>11. ASSUME NEW t \in Threads, WaitWoken(t)
      PROVE  CountsOK'
  BY <1>11 DEF WaitWoken
<1>12. ASSUME NEW t \in Threads, Failed(t)
      PROVE  CountsOK'
  BY <1>12 DEF Failed, Deeper
<1>13. ASSUME NEW t \in Threads, Take(t)
      PROVE  CountsOK'
  BY <1>13 DEF Take
<1>14. ASSUME NEW t \in Threads, First(t)
      PROVE  CountsOK'
  BY <1>14 DEF First, Deeper
<1>15. ASSUME NEW t \in Threads, Clear(t)
      PROVE  CountsOK'
  BY <1>15 DEF Clear
<1>16. ASSUME NEW t \in Threads, Wake(t)
      PROVE  CountsOK'
  BY <1>16 DEF Wake
<1>17. ASSUME NEW t \in Threads, Kernel(t)
      PROVE  CountsOK'
  BY <1>17 DEF Kernel, TimeOut, Interrupt
<1>18. CASE UNCHANGED lockVars
  BY <1>18 DEF lockVars
<1> QED
  BY <1>1, <1>2, <1>3, <1>4, <1>5, <1>6, <1>7, <1>8, <1>9, <1>10, <1>11,
     <1>12, <1>13, <1>14, <1>15, <1>16, <1>17, <1>18
     DEF LockNext, Step

(* Everything else keeps its type.                                         *)
LEMMA ControlStep ==
  ASSUME ControlOK, [LockNext]_lockVars
  PROVE  ControlOK'
<1> USE DEF ControlOK, W!WaitTypeOK, W!F!FutexTypeOK, memVars, waitVars,
            histVars,
            Labels, W!WaitLabels, Goto, NoteRace
<1>1. ASSUME NEW t \in Threads, NEW c \in Calls, Acquire(t, c)
      PROVE  ControlOK'
  BY <1>1 DEF Acquire
<1>2. ASSUME NEW t \in Threads, Release(t)
      PROVE  ControlOK'
  BY <1>2, ReleaseCallType DEF Release
<1>3. ASSUME NEW t \in Threads, Ours(t)
      PROVE  ControlOK'
  BY <1>3 DEF Ours
<1>4. ASSUME NEW t \in Threads, LoadCount(t)
      PROVE  ControlOK'
  BY <1>4 DEF LoadCount
<1>5. ASSUME NEW t \in Threads, StoreCount(t)
      PROVE  ControlOK'
  BY <1>5 DEF StoreCount
<1>6. ASSUME NEW t \in Threads, Locked(t)
      PROVE  ControlOK'
  BY <1>6 DEF Locked, Granted
<1>7. ASSUME NEW t \in Threads, OursToo(t)
      PROVE  ControlOK'
  BY <1>7 DEF OursToo, Granted
<1>8. ASSUME NEW t \in Threads, WaitTest(t)
      PROVE  ControlOK'
  BY <1>8 DEF WaitTest, W!Test, W!Goto, Granted
<1>9. ASSUME NEW t \in Threads, WaitPeek(t)
      PROVE  ControlOK'
  BY <1>9 DEF WaitPeek, W!Peek, W!Goto
<1>10. ASSUME NEW t \in Threads, WaitEnter(t)
      PROVE  ControlOK'
  BY <1>10 DEF WaitEnter, W!Enter, W!Goto, W!F!FutexWait, W!F!Results,
     W!F!Errors
<1>11. ASSUME NEW t \in Threads, WaitWoken(t)
      PROVE  ControlOK'
  BY <1>11 DEF WaitWoken, W!Woken, W!Goto, W!F!FutexForget, W!F!Results,
           Granted
<1>12. ASSUME NEW t \in Threads, Failed(t)
      PROVE  ControlOK'
  BY <1>12 DEF Failed
<1>13. ASSUME NEW t \in Threads, Take(t)
      PROVE  ControlOK'
  BY <1>13 DEF Take
<1>14. ASSUME NEW t \in Threads, First(t)
      PROVE  ControlOK'
  BY <1>14 DEF First
<1>15. ASSUME NEW t \in Threads, Clear(t)
      PROVE  ControlOK'
  BY <1>15 DEF Clear
<1>16. ASSUME NEW t \in Threads, Wake(t)
      PROVE  ControlOK'
  BY <1>16 DEF Wake, W!F!FutexWakeOne, W!F!futexVars, W!F!Results
<1>17. ASSUME NEW t \in Threads, Kernel(t)
      PROVE  ControlOK'
  BY <1>17 DEF Kernel, TimeOut, Interrupt, W!GiveUp, W!F!FutexGiveUp,
           W!F!Results, W!F!Errors
<1>18. CASE UNCHANGED lockVars
  BY <1>18 DEF lockVars
<1> QED
  BY <1>1, <1>2, <1>3, <1>4, <1>5, <1>6, <1>7, <1>8, <1>9, <1>10, <1>11,
     <1>12, <1>13, <1>14, <1>15, <1>16, <1>17, <1>18
     DEF LockNext, Step

(* A fresh lock has the types.                                             *)
LEMMA InitType == LockInit => LockTypeOK
<1> SUFFICES ASSUME LockInit
             PROVE  LockTypeOK
  OBVIOUS
<1> USE DEF LockInit, W!WaitInit, W!F!FutexInit
<1>1. W!WaitTypeOK
  BY DEF W!WaitTypeOK, W!F!FutexTypeOK, W!F!Results
<1>2. pc \in [Threads -> Labels]
  BY DEF Labels
<1>3. call \in [Threads -> Calls]
  BY ReleaseCallType
<1>4. ControlOK
  BY <1>1, <1>2, <1>3 DEF ControlOK
<1>5. CountsOK
  BY DEF CountsOK
<1> QED
  BY <1>4, <1>5 DEF LockTypeOK

(* The inductive invariant behind ExclusiveUnlessRaced and CountIsDepth.   *)

(* The acquires the count stands for when t is the owner: lock-release     *)
(* takes its one off the count a few steps after its caller has left.      *)
Owed(t) ==
  depth[t] + IF pc[t] \in {"ours?", "load-count", "store-count"} /\ ~Acquiring(t)
             THEN 1 ELSE 0

(* Entering on a failed wait adds to the depth and not to the count.       *)
CountRight(t) ==
  /\ 0 < count
  /\ count <= Owed(t)
  /\ count = Owed(t) <=> ~unheld[t]

(* What is so while t's id is in the latch, for each place t can be at.    *)
OwnerOK(t) ==
  \/ pc[t] \in {"idle", "ours?", "load-count"} /\ CountRight(t)
  \/ pc[t] = "store-count" /\ CountRight(t) /\ seen[t] = count
  \/ pc[t] \in {"locked?", "ours too?"} /\ ~Acquiring(t) /\ CountRight(t)
  \/ pc[t] = "first" /\ (depth[t] = 0 <=> ~unheld[t])
  \/ pc[t] = "clear" /\ (depth[t] = 0 <=> ~unheld[t])

(* Who must have the latch, and what a thread about to store it relies on. *)
Claims(t) ==
  /\ Inside(t) /\ ~unheld[t] => latch = t
  /\ pc[t] \in {"load-count", "store-count", "first", "clear"} => latch = t
  /\ pc[t] = "take" => latch = Free /\ \A u \in Threads \ {t} : pc[u] # "take"

Sane(t) ==
  /\ unheld[t] => Inside(t)
  /\ pc[t] \in {"take", "first"} => Acquiring(t)
  /\ pc[t] = "clear" => ~Acquiring(t)

Good(t) == Claims(t) /\ (latch = t => OwnerOK(t))

LockInv ==
  /\ \A t \in Threads : Sane(t)
  /\ ~raced => \A t \in Threads : Good(t)
(* A step of t touches nothing of the other threads ...                    *)
Only(t) ==
  \A s \in Threads \ {t} :
    /\ pc'[s] = pc[s] /\ call'[s] = call[s] /\ seen'[s] = seen[s]
    /\ depth'[s] = depth[s] /\ unheld'[s] = unheld[s]

(* ... and leaves the latch and the count to their owner.                   *)
Gentle(t) ==
  \A s \in Threads \ {t} :
    /\ latch' = s <=> latch = s
    /\ latch = s => count' = count
    /\ pc[s] = "take" => latch' = Free /\ pc'[t] # "take"

(* A step of t that only touches t keeps the other threads sane.           *)
LEMMA FrameSane ==
  ASSUME LockInv, NEW t \in Threads, Only(t), Sane(t)'
  PROVE  \A s \in Threads : Sane(s)'
<1>1. ASSUME NEW s \in Threads \ {t}
      PROVE  Sane(s)'
  BY <1>1 DEF LockInv, Sane, Only, Inside, Acquiring
<1> QED
  BY <1>1

(* For a step of t that only touches t and is gentle to the latch and the  *)
(* count, it is enough to look at t itself.                                *)
LEMMA Frame ==
  ASSUME LockInv, NEW t \in Threads, Only(t), Sane(t)',
         ~raced' => ~raced /\ Good(t)' /\ Gentle(t)
  PROVE  LockInv'
<1>1. \A s \in Threads : Sane(s)'
  BY FrameSane
<1>2. ASSUME NEW s \in Threads \ {t}, ~raced'
      PROVE  Good(s)'
  <2>1. Good(s)
    BY <1>2 DEF LockInv
  <2>2. Claims(s)'
    BY <1>2, <2>1 DEF Good, Claims, Only, Gentle, Inside
  <2>3. ASSUME latch' = s
        PROVE  OwnerOK(s)'
    <3>1. latch = s /\ count' = count
      BY <1>2, <2>3 DEF Gentle
    <3>2. OwnerOK(s)
      BY <2>1, <3>1 DEF Good
    <3> QED
      BY <1>2, <3>1, <3>2 DEF OwnerOK, CountRight, Owed, Acquiring, Only
  <2> QED
    BY <2>2, <2>3 DEF Good
<1> QED
  BY <1>1, <1>2 DEF LockInv

(* The strengthening of ExclusiveUnlessRaced and CountIsDepth is           *)
(* inductive.                                                              *)
LEMMA InvStep ==
  ASSUME LockTypeOK, LockInv, [LockNext]_lockVars
  PROVE  LockInv'
<1> USE DEF LockTypeOK, CountsOK, ControlOK, memVars, waitVars, histVars, Goto
<1>1. ASSUME NEW t \in Threads, NEW c \in Calls, Acquire(t, c)
      PROVE  LockInv'
  <2>1. Only(t)
    BY <1>1 DEF Only, Acquire
  <2>2. Sane(t) /\ (~raced => Good(t))
    BY DEF LockInv
  <2>3. Sane(t)'
    BY <1>1, <2>2 DEF Sane, Inside, Acquire
  <2>4. CASE raced
    <3>1. \A s \in Threads : Sane(s)'
      BY <2>1, <2>3, FrameSane
    <3>2. ASSUME ~raced', NEW s \in Threads
          PROVE  Good(s)'
      <4>1. latch' = Free /\ \A u \in Threads : pc[u] = "idle" /\ depth[u] = 0
        BY <1>1, <2>4, <3>2 DEF Acquire, Quiet
      <4>2. pc'[s] \in {"idle", "ours?", "locked?"} /\ depth'[s] = 0
        BY <1>1, <4>1 DEF Acquire
      <4> QED
        BY <4>1, <4>2 DEF Good, Claims, Inside
    <3> QED
      BY <3>1, <3>2 DEF LockInv
  <2>5. CASE ~raced
    <3>1. Claims(t)'
      BY <1>1, <2>2, <2>5 DEF Good, Claims, Inside, Acquire
    <3>2. ASSUME latch' = t
          PROVE  OwnerOK(t)'
      <4>1. pc[t] = "idle" /\ CountRight(t)
        BY <1>1, <2>2, <2>5, <3>2 DEF Good, OwnerOK, Acquire
      <4>2. Owed(t)' = Owed(t)
        <5>1. c.word \in Words
          BY DEF Calls
        <5> QED
          BY <1>1, <4>1, <5>1 DEF Owed, Acquiring, Acquire, Words
      <4>3. CountRight(t)'
        BY <1>1, <4>1, <4>2 DEF CountRight, Acquire
      <4> QED
        BY <1>1, <4>3 DEF OwnerOK, Acquiring, Acquire
    <3>3. Gentle(t)
      BY <1>1, <2>5 DEF Gentle, LockInv, Good, Claims, Acquire
    <3> QED
      BY <2>1, <2>3, <2>5, <3>1, <3>2, <3>3, Frame DEF Good
  <2> QED
    BY <2>4, <2>5
<1>2. ASSUME NEW t \in Threads, Release(t)
      PROVE  LockInv'
  <2>1. Only(t)
    BY <1>2 DEF Only, Release, ReleaseCall
  <2>2. Sane(t) /\ (~raced => Good(t))
    BY DEF LockInv
  <2>3. Sane(t)'
    <3>1. pc'[t] = "ours?"
      BY <1>2 DEF Release
    <3>2. unheld'[t] => depth[t] > 1
      BY <1>2 DEF Release
    <3>3. depth'[t] = depth[t] - 1 /\ depth[t] \in Nat
      BY <1>2 DEF Release
    <3> QED
      BY <3>1, <3>2, <3>3 DEF Sane, Inside
  <2>4. ASSUME ~raced'
        PROVE  ~raced /\ Good(t)' /\ Gentle(t)
    <3>1. ~raced
      BY <1>2, <2>4 DEF Release, ReleaseCall
    <3>2. Claims(t)'
      BY <1>2, <2>2, <2>4, <3>1 DEF Good, Claims, Inside, Acquiring, OwnerOK,
         Release, ReleaseCall
    <3>3. ASSUME latch' = t
          PROVE  OwnerOK(t)'
      BY <1>2, <2>2, <2>4, <3>1, <3>3 DEF Good, Claims, OwnerOK, CountRight,
         Owed, Inside, Acquiring, Sane, Release, ReleaseCall
    <3>4. Gentle(t)
      BY <1>2, <2>2, <2>4, <3>1 DEF Good, Claims, Gentle, LockInv, Acquiring,
         Release, ReleaseCall
    <3> QED
      BY <3>1, <3>2, <3>3, <3>4 DEF Good
  <2> QED
    BY <2>1, <2>3, <2>4, Frame
<1>3. ASSUME NEW t \in Threads, Ours(t)
      PROVE  LockInv'
  <2>1. Only(t)
    BY <1>3 DEF Only, Ours
  <2>2. Sane(t) /\ (~raced => Good(t))
    BY DEF LockInv
  <2>3. Sane(t)'
    BY <1>3, <2>2 DEF Sane, Inside, Acquiring, Ours
  <2>4. ASSUME ~raced'
        PROVE  ~raced /\ Good(t)' /\ Gentle(t)
    <3>1. ~raced
      BY <1>3, <2>4 DEF Ours
    <3>2. Claims(t)'
      BY <1>3, <2>2, <2>4, <3>1 DEF Good, Claims, Inside, Acquiring, OwnerOK,
         Ours
    <3>3. ASSUME latch' = t
          PROVE  OwnerOK(t)'
      BY <1>3, <2>2, <2>4, <3>1, <3>3 DEF Good, Claims, OwnerOK, CountRight,
         Owed, Inside, Acquiring, Sane, Ours
    <3>4. Gentle(t)
      BY <1>3, <2>2, <2>4, <3>1 DEF Good, Claims, Gentle, LockInv, Acquiring,
         Ours
    <3> QED
      BY <3>1, <3>2, <3>3, <3>4 DEF Good
  <2> QED
    BY <2>1, <2>3, <2>4, Frame
<1>4. ASSUME NEW t \in Threads, LoadCount(t)
      PROVE  LockInv'
  <2>1. Only(t)
    BY <1>4 DEF Only, LoadCount
  <2>2. Sane(t) /\ (~raced => Good(t))
    BY DEF LockInv
  <2>3. Sane(t)'
    BY <1>4, <2>2 DEF Sane, Inside, Acquiring, LoadCount
  <2>4. ASSUME ~raced'
        PROVE  ~raced /\ Good(t)' /\ Gentle(t)
    <3>1. ~raced
      BY <1>4, <2>4 DEF LoadCount
    <3>2. Claims(t)'
      BY <1>4, <2>2, <2>4, <3>1 DEF Good, Claims, Inside, Acquiring, OwnerOK,
         LoadCount
    <3>3. ASSUME latch' = t
          PROVE  OwnerOK(t)'
      BY <1>4, <2>2, <2>4, <3>1, <3>3 DEF Good, Claims, OwnerOK, CountRight,
         Owed, Inside, Acquiring, Sane, LoadCount
    <3>4. Gentle(t)
      BY <1>4, <2>2, <2>4, <3>1 DEF Good, Claims, Gentle, LockInv, Acquiring,
         LoadCount
    <3> QED
      BY <3>1, <3>2, <3>3, <3>4 DEF Good
  <2> QED
    BY <2>1, <2>3, <2>4, Frame
<1>5. ASSUME NEW t \in Threads, StoreCount(t)
      PROVE  LockInv'
  <2>1. Only(t)
    BY <1>5 DEF Only, StoreCount, Deeper
  <2>2. Sane(t) /\ (~raced => Good(t))
    BY DEF LockInv
  <2>3. Sane(t)'
    BY <1>5, <2>2 DEF Sane, Inside, Acquiring, StoreCount, Deeper
  <2>4. ASSUME ~raced'
        PROVE  ~raced /\ Good(t)' /\ Gentle(t)
    <3>1. ~raced
      BY <1>5, <2>4 DEF StoreCount, Deeper
    <3>2. Claims(t)'
      BY <1>5, <2>2, <2>4, <3>1 DEF Good, Claims, Inside, Acquiring, OwnerOK,
         StoreCount, Deeper
    <3>3. ASSUME latch' = t
          PROVE  OwnerOK(t)'
      <4>1. CountRight(t) /\ seen[t] = count /\ pc[t] = "store-count"
        BY <1>5, <2>2, <3>1, <3>3 DEF Good, Claims, OwnerOK, StoreCount
      <4>2. unheld'[t] = unheld[t] /\ depth[t] \in Nat
        BY <1>5 DEF StoreCount
      <4>3. CASE Acquiring(t)
        <5>1. count' = count + 1 /\ depth'[t] = depth[t] + 1 /\ pc'[t] = "idle"
          BY <1>5, <4>1, <4>3 DEF StoreCount, Deeper
        <5>2. Owed(t) = depth[t] /\ Owed(t)' = depth[t] + 1
          BY <4>1, <4>2, <4>3, <5>1 DEF Owed
        <5>3. CountRight(t)'
          BY <4>1, <4>2, <5>1, <5>2 DEF CountRight
        <5> QED
          BY <5>1, <5>3 DEF OwnerOK
      <4>4. CASE ~Acquiring(t)
        <5>1. count' = count - 1 /\ depth'[t] = depth[t]
          BY <1>5, <4>1, <4>4 DEF StoreCount
        <5>2. pc'[t] = IF count' <= 0 THEN "clear" ELSE "idle"
          BY <1>5, <4>1, <4>4, <5>1 DEF StoreCount
        <5>3. Owed(t) = depth[t] + 1
          BY <4>1, <4>4 DEF Owed
        <5>4. Owed(t)' = depth[t]
          BY <4>2, <5>1, <5>2 DEF Owed
        <5>5. count' >= 0 /\ count' <= depth[t] /\ (count' = depth[t] <=> ~unheld[t])
          BY <4>1, <4>2, <5>1, <5>3 DEF CountRight
        <5> QED
          BY <4>2, <5>1, <5>2, <5>4, <5>5 DEF OwnerOK, CountRight
      <4> QED
        BY <4>3, <4>4
    <3>4. Gentle(t)
      BY <1>5, <2>2, <2>4, <3>1 DEF Good, Claims, Gentle, LockInv, Acquiring,
         StoreCount, Deeper
    <3> QED
      BY <3>1, <3>2, <3>3, <3>4 DEF Good
  <2> QED
    BY <2>1, <2>3, <2>4, Frame
<1>6. ASSUME NEW t \in Threads, Locked(t)
      PROVE  LockInv'
  <2>1. Only(t)
    BY <1>6 DEF Only, Locked, Granted, NoteRace
  <2>2. Sane(t) /\ (~raced => Good(t))
    BY DEF LockInv
  <2>3. Sane(t)'
    BY <1>6, <2>2 DEF Sane, Inside, Acquiring, Locked, Granted, NoteRace
  <2>4. ASSUME ~raced'
        PROVE  ~raced /\ Good(t)' /\ Gentle(t)
    <3>1. ~raced
      BY <1>6, <2>4 DEF Locked, Granted, NoteRace
    <3>2. Claims(t)'
      BY <1>6, <2>2, <2>4, <3>1 DEF Good, Claims, Inside, Acquiring, OwnerOK,
         Locked, Granted, NoteRace
    <3>3. ASSUME latch' = t
          PROVE  OwnerOK(t)'
      BY <1>6, <2>2, <2>4, <3>1, <3>3 DEF Good, Claims, OwnerOK, CountRight,
         Owed, Inside, Acquiring, Sane, Locked, Granted, NoteRace
    <3>4. Gentle(t)
      BY <1>6, <2>2, <2>4, <3>1 DEF Good, Claims, Gentle, LockInv, Acquiring,
         Locked, Granted, NoteRace
    <3> QED
      BY <3>1, <3>2, <3>3, <3>4 DEF Good
  <2> QED
    BY <2>1, <2>3, <2>4, Frame
<1>7. ASSUME NEW t \in Threads, OursToo(t)
      PROVE  LockInv'
  <2>1. Only(t)
    BY <1>7 DEF Only, OursToo, Granted
  <2>2. Sane(t) /\ (~raced => Good(t))
    BY DEF LockInv
  <2>3. Sane(t)'
    BY <1>7, <2>2 DEF Sane, Inside, Acquiring, OursToo, Granted
  <2>4. ASSUME ~raced'
        PROVE  ~raced /\ Good(t)' /\ Gentle(t)
    <3>1. ~raced
      BY <1>7, <2>4 DEF OursToo, Granted
    <3>2. Claims(t)'
      BY <1>7, <2>2, <2>4, <3>1 DEF Good, Claims, Inside, Acquiring, OwnerOK,
         OursToo, Granted
    <3>3. ASSUME latch' = t
          PROVE  OwnerOK(t)'
      BY <1>7, <2>2, <2>4, <3>1, <3>3 DEF Good, Claims, OwnerOK, CountRight,
         Owed, Inside, Acquiring, Sane, OursToo, Granted
    <3>4. Gentle(t)
      BY <1>7, <2>2, <2>4, <3>1 DEF Good, Claims, Gentle, LockInv, Acquiring,
         OursToo, Granted
    <3> QED
      BY <3>1, <3>2, <3>3, <3>4 DEF Good
  <2> QED
    BY <2>1, <2>3, <2>4, Frame
<1>8. ASSUME NEW t \in Threads, WaitTest(t)
      PROVE  LockInv'
  <2>1. Only(t)
    BY <1>8 DEF Only, WaitTest, W!Test, W!Goto, Granted, NoteRace
  <2>2. Sane(t) /\ (~raced => Good(t))
    BY DEF LockInv
  <2>3. Sane(t)'
    BY <1>8, <2>2 DEF Sane, Inside, Acquiring, WaitTest, W!Test, W!Goto,
       Granted, NoteRace
  <2>4. ASSUME ~raced'
        PROVE  ~raced /\ Good(t)' /\ Gentle(t)
    <3>1. ~raced
      BY <1>8, <2>4 DEF WaitTest, W!Test, W!Goto, Granted, NoteRace
    <3>2. Claims(t)'
      BY <1>8, <2>2, <2>4, <3>1 DEF Good, Claims, Inside, Acquiring, OwnerOK,
         WaitTest, W!Test, W!Goto, Granted, NoteRace
    <3>3. ASSUME latch' = t
          PROVE  OwnerOK(t)'
      BY <1>8, <2>2, <2>4, <3>1, <3>3 DEF Good, Claims, OwnerOK, CountRight,
         Owed, Inside, Acquiring, Sane, WaitTest, W!Test, W!Goto, Granted,
         NoteRace
    <3>4. Gentle(t)
      BY <1>8, <2>2, <2>4, <3>1 DEF Good, Claims, Gentle, LockInv, Acquiring,
         WaitTest, W!Test, W!Goto, Granted, NoteRace
    <3> QED
      BY <3>1, <3>2, <3>3, <3>4 DEF Good
  <2> QED
    BY <2>1, <2>3, <2>4, Frame
<1>9. ASSUME NEW t \in Threads, WaitPeek(t)
      PROVE  LockInv'
  <2>1. Only(t)
    BY <1>9 DEF Only, WaitPeek, W!Peek, W!Goto
  <2>2. Sane(t) /\ (~raced => Good(t))
    BY DEF LockInv
  <2>3. Sane(t)'
    BY <1>9, <2>2 DEF Sane, Inside, Acquiring, WaitPeek, W!Peek, W!Goto
  <2>4. ASSUME ~raced'
        PROVE  ~raced /\ Good(t)' /\ Gentle(t)
    <3>1. ~raced
      BY <1>9, <2>4 DEF WaitPeek, W!Peek, W!Goto
    <3>2. Claims(t)'
      BY <1>9, <2>2, <2>4, <3>1 DEF Good, Claims, Inside, Acquiring, OwnerOK,
         WaitPeek, W!Peek, W!Goto
    <3>3. ASSUME latch' = t
          PROVE  OwnerOK(t)'
      BY <1>9, <2>2, <2>4, <3>1, <3>3 DEF Good, Claims, OwnerOK, CountRight,
         Owed, Inside, Acquiring, Sane, WaitPeek, W!Peek, W!Goto
    <3>4. Gentle(t)
      BY <1>9, <2>2, <2>4, <3>1 DEF Good, Claims, Gentle, LockInv, Acquiring,
         WaitPeek, W!Peek, W!Goto
    <3> QED
      BY <3>1, <3>2, <3>3, <3>4 DEF Good
  <2> QED
    BY <2>1, <2>3, <2>4, Frame
<1>10. ASSUME NEW t \in Threads, WaitEnter(t)
      PROVE  LockInv'
  <2>1. Only(t)
    BY <1>10 DEF Only, WaitEnter, W!Enter, W!Goto
  <2>2. Sane(t) /\ (~raced => Good(t))
    BY DEF LockInv
  <2>3. Sane(t)'
    BY <1>10, <2>2 DEF Sane, Inside, Acquiring, WaitEnter, W!Enter, W!Goto
  <2>4. ASSUME ~raced'
        PROVE  ~raced /\ Good(t)' /\ Gentle(t)
    <3>1. ~raced
      BY <1>10, <2>4 DEF WaitEnter, W!Enter, W!Goto
    <3>2. Claims(t)'
      BY <1>10, <2>2, <2>4, <3>1 DEF Good, Claims, Inside, Acquiring,
         OwnerOK, WaitEnter, W!Enter, W!Goto
    <3>3. ASSUME latch' = t
          PROVE  OwnerOK(t)'
      BY <1>10, <2>2, <2>4, <3>1, <3>3 DEF Good, Claims, OwnerOK, CountRight,
         Owed, Inside, Acquiring, Sane, WaitEnter, W!Enter, W!Goto
    <3>4. Gentle(t)
      BY <1>10, <2>2, <2>4, <3>1 DEF Good, Claims, Gentle, LockInv,
         Acquiring, WaitEnter, W!Enter, W!Goto
    <3> QED
      BY <3>1, <3>2, <3>3, <3>4 DEF Good
  <2> QED
    BY <2>1, <2>3, <2>4, Frame
<1>11. ASSUME NEW t \in Threads, WaitWoken(t)
      PROVE  LockInv'
  <2>1. Only(t)
    BY <1>11 DEF Only, WaitWoken, W!Woken, W!Goto, Granted, NoteRace
  <2>2. Sane(t) /\ (~raced => Good(t))
    BY DEF LockInv
  <2>3. Sane(t)'
    BY <1>11, <2>2 DEF Sane, Inside, Acquiring, WaitWoken, W!Woken, W!Goto,
       Granted, NoteRace
  <2>4. ASSUME ~raced'
        PROVE  ~raced /\ Good(t)' /\ Gentle(t)
    <3>1. ~raced
      BY <1>11, <2>4 DEF WaitWoken, W!Woken, W!Goto, Granted, NoteRace
    <3>2. Claims(t)'
      BY <1>11, <2>2, <2>4, <3>1 DEF Good, Claims, Inside, Acquiring,
         OwnerOK, WaitWoken, W!Woken, W!Goto, Granted, NoteRace
    <3>3. ASSUME latch' = t
          PROVE  OwnerOK(t)'
      BY <1>11, <2>2, <2>4, <3>1, <3>3 DEF Good, Claims, OwnerOK, CountRight,
         Owed, Inside, Acquiring, Sane, WaitWoken, W!Woken, W!Goto, Granted,
         NoteRace
    <3>4. Gentle(t)
      BY <1>11, <2>2, <2>4, <3>1 DEF Good, Claims, Gentle, LockInv,
         Acquiring, WaitWoken, W!Woken, W!Goto, Granted, NoteRace
    <3> QED
      BY <3>1, <3>2, <3>3, <3>4 DEF Good
  <2> QED
    BY <2>1, <2>3, <2>4, Frame
<1>12. ASSUME NEW t \in Threads, Failed(t)
      PROVE  LockInv'
  <2>1. Only(t)
    BY <1>12 DEF Only, Failed, Deeper
  <2>2. Sane(t) /\ (~raced => Good(t))
    BY DEF LockInv
  <2>3. Sane(t)'
    BY <1>12, <2>2 DEF Sane, Inside, Acquiring, Failed, Deeper
  <2>4. ASSUME ~raced'
        PROVE  ~raced /\ Good(t)' /\ Gentle(t)
    <3>1. ~raced
      BY <1>12, <2>4 DEF Failed, Deeper
    <3>2. Claims(t)'
      BY <1>12, <2>2, <2>4, <3>1 DEF Good, Claims, Inside, Acquiring,
         OwnerOK, Failed, Deeper
    <3>3. ASSUME latch' = t
          PROVE  OwnerOK(t)'
      BY <1>12, <2>2, <2>4, <3>1, <3>3 DEF Good, Claims, OwnerOK, CountRight,
         Owed, Inside, Acquiring, Sane, Failed, Deeper
    <3>4. Gentle(t)
      BY <1>12, <2>2, <2>4, <3>1 DEF Good, Claims, Gentle, LockInv,
         Acquiring, Failed, Deeper
    <3> QED
      BY <3>1, <3>2, <3>3, <3>4 DEF Good
  <2> QED
    BY <2>1, <2>3, <2>4, Frame
<1>13. ASSUME NEW t \in Threads, Take(t)
      PROVE  LockInv'
  <2>1. Only(t)
    BY <1>13 DEF Only, Take
  <2>2. Sane(t) /\ (~raced => Good(t))
    BY DEF LockInv
  <2>3. Sane(t)'
    BY <1>13, <2>2 DEF Sane, Inside, Acquiring, Take
  <2>4. ASSUME ~raced'
        PROVE  ~raced /\ Good(t)' /\ Gentle(t)
    <3>1. ~raced
      BY <1>13, <2>4 DEF Take
    <3>2. Claims(t)'
      BY <1>13, <2>2, <2>4, <3>1 DEF Good, Claims, Inside, Acquiring,
         OwnerOK, Take
    <3>3. ASSUME latch' = t
          PROVE  OwnerOK(t)'
      BY <1>13, <2>2, <2>4, <3>1, <3>3 DEF Good, Claims, OwnerOK, CountRight,
         Owed, Inside, Acquiring, Sane, Take
    <3>4. Gentle(t)
      BY <1>13, <2>2, <2>4, <3>1 DEF Good, Claims, Gentle, LockInv,
         Acquiring, Take
    <3> QED
      BY <3>1, <3>2, <3>3, <3>4 DEF Good
  <2> QED
    BY <2>1, <2>3, <2>4, Frame
<1>14. ASSUME NEW t \in Threads, First(t)
      PROVE  LockInv'
  <2>1. Only(t)
    BY <1>14 DEF Only, First, Deeper
  <2>2. Sane(t) /\ (~raced => Good(t))
    BY DEF LockInv
  <2>3. Sane(t)'
    BY <1>14, <2>2 DEF Sane, Inside, Acquiring, First, Deeper
  <2>4. ASSUME ~raced'
        PROVE  ~raced /\ Good(t)' /\ Gentle(t)
    <3>1. ~raced
      BY <1>14, <2>4 DEF First, Deeper
    <3>2. Claims(t)'
      BY <1>14, <2>2, <2>4, <3>1 DEF Good, Claims, Inside, Acquiring,
         OwnerOK, First, Deeper
    <3>3. ASSUME latch' = t
          PROVE  OwnerOK(t)'
      BY <1>14, <2>2, <2>4, <3>1, <3>3 DEF Good, Claims, OwnerOK, CountRight,
         Owed, Inside, Acquiring, Sane, First, Deeper
    <3>4. Gentle(t)
      BY <1>14, <2>2, <2>4, <3>1 DEF Good, Claims, Gentle, LockInv,
         Acquiring, First, Deeper
    <3> QED
      BY <3>1, <3>2, <3>3, <3>4 DEF Good
  <2> QED
    BY <2>1, <2>3, <2>4, Frame
<1>15. ASSUME NEW t \in Threads, Clear(t)
      PROVE  LockInv'
  <2>1. Only(t)
    BY <1>15 DEF Only, Clear
  <2>2. Sane(t) /\ (~raced => Good(t))
    BY DEF LockInv
  <2>3. Sane(t)'
    BY <1>15, <2>2 DEF Sane, Inside, Acquiring, Clear
  <2>4. ASSUME ~raced'
        PROVE  ~raced /\ Good(t)' /\ Gentle(t)
    <3>1. ~raced
      BY <1>15, <2>4 DEF Clear
    <3>2. Claims(t)'
      BY <1>15, <2>2, <2>4, <3>1 DEF Good, Claims, Inside, Acquiring,
         OwnerOK, Clear
    <3>3. ASSUME latch' = t
          PROVE  OwnerOK(t)'
      BY <1>15, <2>2, <2>4, <3>1, <3>3 DEF Good, Claims, OwnerOK, CountRight,
         Owed, Inside, Acquiring, Sane, Clear
    <3>4. Gentle(t)
      BY <1>15, <2>2, <2>4, <3>1 DEF Good, Claims, Gentle, LockInv,
         Acquiring, Clear
    <3> QED
      BY <3>1, <3>2, <3>3, <3>4 DEF Good
  <2> QED
    BY <2>1, <2>3, <2>4, Frame
<1>16. ASSUME NEW t \in Threads, Wake(t)
      PROVE  LockInv'
  <2>1. Only(t)
    BY <1>16 DEF Only, Wake
  <2>2. Sane(t) /\ (~raced => Good(t))
    BY DEF LockInv
  <2>3. Sane(t)'
    BY <1>16, <2>2 DEF Sane, Inside, Acquiring, Wake
  <2>4. ASSUME ~raced'
        PROVE  ~raced /\ Good(t)' /\ Gentle(t)
    <3>1. ~raced
      BY <1>16, <2>4 DEF Wake
    <3>2. Claims(t)'
      BY <1>16, <2>2, <2>4, <3>1 DEF Good, Claims, Inside, Acquiring,
         OwnerOK, Wake
    <3>3. ASSUME latch' = t
          PROVE  OwnerOK(t)'
      BY <1>16, <2>2, <2>4, <3>1, <3>3 DEF Good, Claims, OwnerOK, CountRight,
         Owed, Inside, Acquiring, Sane, Wake
    <3>4. Gentle(t)
      BY <1>16, <2>2, <2>4, <3>1 DEF Good, Claims, Gentle, LockInv,
         Acquiring, Wake
    <3> QED
      BY <3>1, <3>2, <3>3, <3>4 DEF Good
  <2> QED
    BY <2>1, <2>3, <2>4, Frame
<1>17. ASSUME NEW t \in Threads, Kernel(t)
      PROVE  LockInv'
  <2>1. Only(t)
    BY <1>17 DEF Only, Kernel, TimeOut, Interrupt, W!GiveUp
  <2>2. Sane(t) /\ (~raced => Good(t))
    BY DEF LockInv
  <2>3. Sane(t)'
    BY <1>17, <2>2 DEF Sane, Inside, Acquiring, Kernel, TimeOut, Interrupt,
       W!GiveUp
  <2>4. ASSUME ~raced'
        PROVE  ~raced /\ Good(t)' /\ Gentle(t)
    <3>1. ~raced
      BY <1>17, <2>4 DEF Kernel, TimeOut, Interrupt, W!GiveUp
    <3>2. Claims(t)'
      BY <1>17, <2>2, <2>4, <3>1 DEF Good, Claims, Inside, Acquiring,
         OwnerOK, Kernel, TimeOut, Interrupt, W!GiveUp
    <3>3. ASSUME latch' = t
          PROVE  OwnerOK(t)'
      BY <1>17, <2>2, <2>4, <3>1, <3>3 DEF Good, Claims, OwnerOK, CountRight,
         Owed, Inside, Acquiring, Sane, Kernel, TimeOut, Interrupt, W!GiveUp
    <3>4. Gentle(t)
      BY <1>17, <2>2, <2>4, <3>1 DEF Good, Claims, Gentle, LockInv,
         Acquiring, Kernel, TimeOut, Interrupt, W!GiveUp
    <3> QED
      BY <3>1, <3>2, <3>3, <3>4 DEF Good
  <2> QED
    BY <2>1, <2>3, <2>4, Frame
<1>18. CASE UNCHANGED lockVars
  <2>1. ASSUME NEW t \in Threads, Sane(t)
        PROVE  Sane(t)'
    BY <1>18, <2>1 DEF lockVars, Sane, Inside, Acquiring
  <2>2. ASSUME NEW t \in Threads, Good(t)
        PROVE  Good(t)'
    BY <1>18, <2>2 DEF lockVars, Good, Claims, OwnerOK, CountRight, Owed,
       Inside, Acquiring
  <2>3. raced' = raced
    BY <1>18 DEF lockVars
  <2> QED
    BY <2>1, <2>2, <2>3 DEF LockInv
<1> QED
  BY <1>1, <1>2, <1>3, <1>4, <1>5, <1>6, <1>7, <1>8, <1>9, <1>10, <1>11,
     <1>12, <1>13, <1>14, <1>15, <1>16, <1>17, <1>18
     DEF LockNext, Step

(* A fresh lock satisfies the strengthening.                               *)
LEMMA InitInv == LockInit => LockInv
  BY DEF LockInit, LockInv, Sane, Good, Claims, OwnerOK, Inside,
     Acquiring, ReleaseCall
-----------------------------------------------------------------------------
(* Every variable of the lock keeps its type.                              *)
THEOREM TypeCorrect == LockSpec => []LockTypeOK
<1>1. LockTypeOK /\ [LockNext]_lockVars => LockTypeOK'
  BY CountsStep, ControlStep DEF LockTypeOK
<1> QED
  BY <1>1, InitType, PTL DEF LockSpec

(* The strengthening holds whatever the threads, their number and their    *)
(* nesting.                                                                *)
THEOREM InvCorrect == LockSpec => []LockInv
<1>1. LockTypeOK /\ LockInv /\ [LockNext]_lockVars => LockInv'
  BY InvStep
<1> QED
  BY <1>1, InitInv, TypeCorrect, PTL DEF LockSpec

(* Until two threads have passed the test of the latch together, the       *)
(* threads inside are one, not counting those that entered on a failed     *)
(* wait: lock-release and the re-entrant lock-acquire are right.           *)
THEOREM Exclusive == LockSpec => []ExclusiveUnlessRaced
<1>1. LockTypeOK /\ LockInv => ExclusiveUnlessRaced
  BY DEF LockInv, Good, Claims, ExclusiveUnlessRaced
<1> QED
  BY <1>1, TypeCorrect, InvCorrect, PTL

(* The count of the owner is the number of its acquires still open.        *)
THEOREM Counted == LockSpec => []CountIsDepth
<1>1. LockTypeOK /\ LockInv => CountIsDepth
  <2> SUFFICES ASSUME LockTypeOK, LockInv, ~raced, NEW t \in Threads,
                      latch = t, pc[t] = "idle", ~unheld[t]
               PROVE  count = depth[t] /\ count > 0
    BY DEF CountIsDepth
  <2>1. CountRight(t)
    BY DEF LockInv, Good, OwnerOK
  <2>2. Owed(t) = depth[t]
    BY DEF Owed, LockTypeOK, CountsOK
  <2> QED
    BY <2>1, <2>2 DEF CountRight, LockTypeOK, CountsOK
<1> QED
  BY <1>1, TypeCorrect, InvCorrect, PTL
-----------------------------------------------------------------------------
(* The latch and the count as a re-entrant lock.  Only the stores of the   *)
(* count change what they stand for: the store of the latch comes before   *)
(* the first, its clearing after the last.                                 *)
Between == {"first", "clear"}

LEMMA SameOwner ==
  ASSUME UNCHANGED memVars, LockTypeOK,
         \A s \in Threads : pc'[s] \in Between <=> pc[s] \in Between
  PROVE  UNCHANGED <<Owner, Nest>>
  BY DEF memVars, Between, Owner, Nest, LockTypeOK, ControlOK

(* Every step of a thread is an acquire or a release of its, or shows      *)
(* nowhere.                                                                *)
LEMMA ReentrantStep ==
  ASSUME LockTypeOK, LockInv, [LockNext]_lockVars, ~raced, ~raced'
  PROVE  [Reentrant!Next]_<<Owner, Nest>>
<1> USE DEF LockTypeOK, CountsOK, ControlOK, Goto
<1>a. \A t \in Threads : Good(t) /\ Sane(t)
  BY DEF LockInv
<1>1. ASSUME NEW t \in Threads, StoreCount(t)
      PROVE  Reentrant!Next
  <2>1. latch = t /\ pc[t] = "store-count" /\ CountRight(t) /\ seen[t] = count
    BY <1>a, <1>1 DEF StoreCount, Good, Claims, OwnerOK
  <2>2. Owner = t /\ Nest = count /\ count > 0
    BY <2>1 DEF Owner, Nest, CountRight
  <2>3. CASE Acquiring(t)
    <3>1. Owner' = t /\ Nest' = count + 1
      BY <1>1, <2>1, <2>3 DEF StoreCount, Owner, Nest
    <3> QED
      BY <2>2, <3>1 DEF Reentrant!Next, Reentrant!Acquire
  <2>4. CASE ~Acquiring(t)
    <3>1. latch' = t /\ count' = count - 1
      BY <1>1, <2>1, <2>4 DEF StoreCount
    <3>2. pc'[t] = IF count = 1 THEN "clear" ELSE "idle"
      BY <1>1, <2>1, <2>2, <2>4 DEF StoreCount
    <3>3. Owner' = IF count = 1 THEN Free ELSE t
      BY <3>1, <3>2 DEF Owner
    <3>4. Nest' = count - 1
      BY <3>1, <3>3 DEF Nest
    <3> QED
      BY <2>2, <3>3, <3>4 DEF Reentrant!Next, Reentrant!Release
  <2> QED
    BY <2>3, <2>4
<1>2. ASSUME NEW t \in Threads, First(t)
      PROVE  Reentrant!Next
  <2>1. latch = t /\ pc[t] = "first"
    BY <1>a, <1>2 DEF First, Good, Claims
  <2>2. Owner = Free /\ Nest = 0
    BY <2>1 DEF Owner, Nest
  <2>3. Owner' = t /\ Nest' = 1
    BY <1>2, <2>1 DEF First, Owner, Nest
  <2> QED
    BY <2>2, <2>3 DEF Reentrant!Next, Reentrant!Acquire
<1>3. ASSUME NEW t \in Threads, Take(t)
      PROVE  UNCHANGED <<Owner, Nest>>
  <2>1. latch = Free
    BY <1>a, <1>3 DEF Take, Good, Claims
  <2>2. latch' = t /\ pc'[t] = "first"
    BY <1>3 DEF Take
  <2> QED
    BY <2>1, <2>2 DEF Owner, Nest
<1>4. ASSUME NEW t \in Threads, Clear(t)
      PROVE  UNCHANGED <<Owner, Nest>>
  <2>1. latch = t /\ pc[t] = "clear"
    BY <1>a, <1>4 DEF Clear, Good, Claims
  <2>2. latch' = Free
    BY <1>4 DEF Clear
  <2> QED
    BY <2>1, <2>2 DEF Owner, Nest
<1>5. ASSUME NEW t \in Threads, (\E c \in Calls : Acquire(t, c)) \/ Release(t)
      PROVE  UNCHANGED <<Owner, Nest>>
  <2>1. UNCHANGED memVars
    BY <1>5 DEF Acquire, Release
  <2>2. \A s \in Threads : pc'[s] \in Between <=> pc[s] \in Between
    BY <1>5 DEF Acquire, Release, Between
  <2> QED
    BY <2>1, <2>2, SameOwner
<1>6. ASSUME NEW t \in Threads,
             \/ Ours(t) \/ LoadCount(t) \/ Locked(t) \/ OursToo(t) \/ Failed(t) \/ Wake(t)
      PROVE  UNCHANGED <<Owner, Nest>>
  <2>1. UNCHANGED memVars
    BY <1>6 DEF Ours, LoadCount, Locked, OursToo, Failed, Wake
  <2>2. \A s \in Threads : pc'[s] \in Between <=> pc[s] \in Between
    BY <1>6 DEF Ours, LoadCount, Locked, OursToo, Failed, Wake, Granted, Between
  <2> QED
    BY <2>1, <2>2, SameOwner
<1>7. ASSUME NEW t \in Threads, WaitTest(t) \/ WaitPeek(t) \/ WaitEnter(t) \/ WaitWoken(t)
      PROVE  UNCHANGED <<Owner, Nest>>
  <2>1. UNCHANGED memVars
    BY <1>7 DEF WaitTest, WaitPeek, WaitEnter, WaitWoken
  <2>2. \A s \in Threads : pc'[s] \in Between <=> pc[s] \in Between
    BY <1>7 DEF WaitTest, WaitPeek, WaitEnter, WaitWoken, W!Test, W!Peek, W!Enter,
       W!Woken, W!Goto, Granted, Between
  <2> QED
    BY <2>1, <2>2, SameOwner
<1>8. ASSUME NEW t \in Threads, Kernel(t)
      PROVE  UNCHANGED <<Owner, Nest>>
  BY <1>8, SameOwner DEF Kernel, TimeOut, Interrupt, W!GiveUp
<1>9. CASE UNCHANGED lockVars
  BY <1>9, SameOwner DEF lockVars, memVars
<1> QED
  BY <1>1, <1>2, <1>3, <1>4, <1>5, <1>6, <1>7, <1>8, <1>9 DEF LockNext, Step

(* Until two threads have passed the test of the latch together, the lock  *)
(* implements the re-entrant lock, for any number of threads, any nesting  *)
(* and with signals and timeouts.                                          *)
THEOREM Implements == LockSpec => LockIsReentrant
<1>1. LockInit => Reentrant!Init
  BY DEF LockInit, Reentrant!Init, Owner, Nest
<1>2. LockTypeOK /\ LockInv /\ [LockNext]_lockVars
        => [raced \/ raced' \/ Reentrant!Next]_<<Owner, Nest>>
  BY ReentrantStep
<1> QED
  BY <1>1, <1>2, TypeCorrect, InvCorrect, PTL DEF LockSpec, LockIsReentrant
-----------------------------------------------------------------------------
(* The inductive invariant behind SleeperHasWaker, where lock-wait-for/2   *)
(* is only called by lock-acquire: a thread asleep waits for the latch to  *)
(* acquire it, and the thread on its way is one about to wake a sleeper or *)
(* to store the latch, or one that was woken and will take a free lock:    *)
(* an error would send it away.                                            *)
Waiting == {"locked?", "ours too?", "test", "peek", "enter", "woken"}

AsleepOK(t) ==
  /\ asleep[t] # Awake => pc[t] = "woken" /\ asleep[t] = "latch"
  /\ pc[t] \in Waiting => Acquiring(t)

OnItsWay(u) ==
  \/ pc[u] \in {"wake", "take"}
  \/ pc[u] = "woken" /\ asleep[u] = Awake /\ result[u] = "ok"

SomeoneComes ==
  (\E t \in Threads : asleep[t] # Awake /\ expected[t] # Free) /\ latch = Free
    => \E u \in Threads : OnItsWay(u)

SleepInv == (\A t \in Threads : AsleepOK(t)) /\ SomeoneComes

(* A thread is asleep in its wait, and it waits to acquire.                *)
LEMMA AsleepStep ==
  ASSUME ~BareWaits, LockTypeOK, \A t \in Threads : AsleepOK(t), [LockNext]_lockVars
  PROVE  \A t \in Threads : AsleepOK(t)'
<1> SUFFICES ASSUME NEW s \in Threads
             PROVE  AsleepOK(s)'
  OBVIOUS
<1> USE DEF AsleepOK, Waiting, Acquiring, Goto, waitVars, LockTypeOK, ControlOK,
            W!WaitTypeOK, W!F!FutexTypeOK
<1>1. ASSUME NEW t \in Threads, NEW c \in Calls, Acquire(t, c)
      PROVE  AsleepOK(s)'
  BY <1>1 DEF Acquire, Calls, Words
<1>2. ASSUME NEW t \in Threads, Release(t)
      PROVE  AsleepOK(s)'
  BY <1>2 DEF Release
<1>3. ASSUME NEW t \in Threads, Ours(t) \/ LoadCount(t) \/ StoreCount(t)
      PROVE  AsleepOK(s)'
  BY <1>3 DEF Ours, LoadCount, StoreCount
<1>4. ASSUME NEW t \in Threads, Locked(t) \/ OursToo(t)
      PROVE  AsleepOK(s)'
  BY <1>4 DEF Locked, OursToo, Granted
<1>5. ASSUME NEW t \in Threads, WaitTest(t)
      PROVE  AsleepOK(s)'
  BY <1>5 DEF WaitTest, W!Test, W!Goto, Granted
<1>6. ASSUME NEW t \in Threads, WaitPeek(t)
      PROVE  AsleepOK(s)'
  BY <1>6 DEF WaitPeek, W!Peek, W!Goto
<1>7. ASSUME NEW t \in Threads, WaitEnter(t)
      PROVE  AsleepOK(s)'
  BY <1>7 DEF WaitEnter, W!Enter, W!Goto, W!F!FutexWait
<1>8. ASSUME NEW t \in Threads, WaitWoken(t)
      PROVE  AsleepOK(s)'
  BY <1>8 DEF WaitWoken, W!Woken, W!Goto, W!F!FutexForget, Granted
<1>9. ASSUME NEW t \in Threads, Failed(t) \/ Take(t) \/ First(t) \/ Clear(t)
      PROVE  AsleepOK(s)'
  BY <1>9 DEF Failed, Take, First, Clear
<1>10. ASSUME NEW t \in Threads, Wake(t)
       PROVE  AsleepOK(s)'
  BY <1>10 DEF Wake, W!F!FutexWakeOne, W!F!futexVars
<1>11. ASSUME NEW t \in Threads, Kernel(t)
       PROVE  AsleepOK(s)'
  BY <1>11 DEF Kernel, TimeOut, Interrupt, W!GiveUp, W!F!FutexGiveUp
<1>12. CASE UNCHANGED lockVars
  BY <1>12 DEF lockVars
<1> QED
  BY <1>1, <1>2, <1>3, <1>4, <1>5, <1>6, <1>7, <1>8, <1>9, <1>10, <1>11, <1>12
     DEF LockNext, Step

(* Whoever is on its way to a sleeper stays so until it has taken the      *)
(* latch, woken somebody who will, or found nobody to wake.                *)
LEMMA ComesStep ==
  ASSUME ~BareWaits, LockTypeOK, SleepInv, [LockNext]_lockVars
  PROVE  SomeoneComes'
<1> SUFFICES ASSUME NEW s \in Threads,
                    asleep'[s] # Awake, expected'[s] # Free, latch' = Free
             PROVE  (\E u \in Threads : OnItsWay(u))'
  BY DEF SomeoneComes
<1> USE DEF OnItsWay, Goto, waitVars, memVars, LockTypeOK, ControlOK,
            W!WaitTypeOK, W!F!FutexTypeOK
<1>a. asleep[s] # Awake /\ expected[s] # Free /\ latch = Free
        => \E u \in Threads : OnItsWay(u)
  BY DEF SleepInv, SomeoneComes
<1>b. \A u \in Threads : AsleepOK(u)
  BY DEF SleepInv
<1>1. ASSUME NEW t \in Threads, NEW c \in Calls, Acquire(t, c)
      PROVE  (\E u \in Threads : OnItsWay(u))'
  BY <1>1, <1>a DEF Acquire
<1>2. ASSUME NEW t \in Threads, Release(t)
      PROVE  (\E u \in Threads : OnItsWay(u))'
  BY <1>2, <1>a DEF Release
<1>3. ASSUME NEW t \in Threads, Ours(t) \/ LoadCount(t) \/ StoreCount(t)
      PROVE  (\E u \in Threads : OnItsWay(u))'
  BY <1>3, <1>a DEF Ours, LoadCount, StoreCount
<1>4. ASSUME NEW t \in Threads, Locked(t) \/ OursToo(t)
      PROVE  (\E u \in Threads : OnItsWay(u))'
  BY <1>4, <1>a DEF Locked, OursToo
<1>5. ASSUME NEW t \in Threads, WaitTest(t)
      PROVE  (\E u \in Threads : OnItsWay(u))'
  BY <1>5, <1>a DEF WaitTest, W!Test, W!Goto
<1>6. ASSUME NEW t \in Threads, WaitPeek(t)
      PROVE  (\E u \in Threads : OnItsWay(u))'
  <2>1. s # t /\ asleep[s] # Awake /\ expected[s] # Free
    BY <1>6, <1>b DEF WaitPeek, W!Peek, W!Goto, AsleepOK
  <2> QED
    BY <1>6, <1>a, <2>1 DEF WaitPeek, W!Peek, W!Goto
<1>7. ASSUME NEW t \in Threads, WaitEnter(t)
      PROVE  (\E u \in Threads : OnItsWay(u))'
  <2>1. asleep[s] # Awake
    BY <1>7 DEF WaitEnter, W!Enter, W!F!FutexWait
  <2>2. PICK u \in Threads : OnItsWay(u)
    BY <1>7, <1>a, <2>1 DEF WaitEnter, W!Enter
  <2>3. OnItsWay(u)'
    BY <1>7, <2>2 DEF WaitEnter, W!Enter, W!Goto, W!F!FutexWait
  <2> QED
    BY <2>3
<1>8. ASSUME NEW t \in Threads, WaitWoken(t)
      PROVE  (\E u \in Threads : OnItsWay(u))'
  <2>1. s # t /\ asleep[s] # Awake /\ expected[s] # Free /\ latch = Free
    BY <1>8 DEF WaitWoken, W!Woken, W!F!FutexForget
  <2>2. PICK u \in Threads : OnItsWay(u)
    BY <1>a, <2>1
  <2>3. CASE u = t
    <3>1. Granted(t) = "take"
      BY <1>8, <1>b DEF WaitWoken, W!Woken, AsleepOK, Waiting, Granted
    <3>2. pc'[t] = "take"
      BY <1>8, <2>1, <2>2, <2>3, <3>1 DEF WaitWoken, W!Woken, W!Goto, W!F!Errors
    <3> QED
      BY <3>2
  <2>4. CASE u # t
    BY <1>8, <2>2, <2>4 DEF WaitWoken, W!Woken, W!Goto, W!F!FutexForget
  <2> QED
    BY <2>3, <2>4
<1>9. ASSUME NEW t \in Threads, Failed(t) \/ First(t)
      PROVE  (\E u \in Threads : OnItsWay(u))'
  BY <1>9, <1>a DEF Failed, First
<1>10. ASSUME NEW t \in Threads, Take(t) \/ Clear(t)
       PROVE  (\E u \in Threads : OnItsWay(u))'
  BY <1>10, LockAssumption DEF Take, Clear
<1>11. ASSUME NEW t \in Threads, Wake(t)
       PROVE  (\E u \in Threads : OnItsWay(u))'
  <2>1. asleep[s] = "latch"
    BY <1>11, <1>b DEF Wake, W!F!FutexWakeOne, W!F!futexVars, AsleepOK
  <2>2. PICK v \in Threads : /\ asleep[v] = "latch"
                             /\ asleep' = [asleep EXCEPT ![v] = Awake]
                             /\ result' = [result EXCEPT ![v] = "ok"]
    BY <1>11, <2>1 DEF Wake, W!F!FutexWakeOne, W!F!Sleepers
  <2>3. pc[v] = "woken" /\ v # t
    BY <1>11, <1>b, <2>2, LockAssumption DEF AsleepOK, Wake
  <2>4. pc'[v] = "woken" /\ asleep'[v] = Awake /\ result'[v] = "ok"
    BY <1>11, <2>2, <2>3 DEF Wake
  <2> QED
    BY <2>4
<1>12. ASSUME NEW t \in Threads, Kernel(t)
       PROVE  (\E u \in Threads : OnItsWay(u))'
  <2>1. asleep[t] # Awake /\ asleep[s] # Awake /\ UNCHANGED <<pc, expected, latch>>
    BY <1>12 DEF Kernel, TimeOut, Interrupt, W!GiveUp, W!F!FutexGiveUp
  <2>2. PICK u \in Threads : OnItsWay(u)
    BY <1>a, <2>1
  <2>3. OnItsWay(u)'
    BY <1>12, <2>1, <2>2 DEF Kernel, TimeOut, Interrupt, W!GiveUp, W!F!FutexGiveUp
  <2> QED
    BY <2>3
<1>13. CASE UNCHANGED lockVars
  BY <1>13, <1>a DEF lockVars
<1> QED
  BY <1>1, <1>2, <1>3, <1>4, <1>5, <1>6, <1>7, <1>8, <1>9, <1>10, <1>11, <1>12,
     <1>13 DEF LockNext, Step

(* Where lock-wait-for/2 is only called by lock-acquire, as it is in the   *)
(* library, nobody sleeps on an owner that has gone while the lock is free *)
(* and no thread is on its way, for any number of threads, with timeouts   *)
(* and signals, and even after a race has let two threads in.              *)
THEOREM SleepersWoken == ASSUME ~BareWaits PROVE LockSpec => []SleeperHasWaker
<1>1. LockInit => SleepInv
  BY DEF LockInit, W!WaitInit, W!F!FutexInit, SleepInv, AsleepOK, Waiting,
         SomeoneComes
<1>2. LockTypeOK /\ SleepInv /\ [LockNext]_lockVars => SleepInv'
  BY AsleepStep, ComesStep DEF SleepInv
<1>3. SleepInv => SleeperHasWaker
  BY DEF SleepInv, SomeoneComes, OnItsWay, SleeperHasWaker
<1> QED
  BY <1>1, <1>2, <1>3, TypeCorrect, PTL DEF LockSpec
-----------------------------------------------------------------------------
(* The threads of the barrier use the lock as LockSpec lets them, so the   *)
(* inductive invariant of the lock holds here too.                         *)
USE BarrierAssumption

(* The call inside of which a thread may be, by its stage, and the         *)
(* acquires it has not released: none before lock-acquire has returned,    *)
(* one until lock-release is called.                                       *)
StageOK(t) ==
  \/ At(t, "idle") /\ depth[t] = 0
  \/ /\ stage[t] = "locking" /\ call[t] = AcquireCall
     /\ pc[t] \notin {"clear", "wake"}
     /\ depth[t] = IF pc[t] = "idle" THEN 1 ELSE 0
  \/ (At(t, "store") \/ At(t, "unlock")) /\ depth[t] = 1
  \/ /\ stage[t] = "wake" /\ call[t] = ReleaseCall /\ depth[t] = 0
     /\ pc[t] \in {"idle", "ours?", "load-count", "store-count", "clear", "wake"}

(* While the lock has not failed, what a thread has loaded is still the    *)
(* count when it is about to store it, and nothing was lost so far.        *)
CountInv ==
  /\ \A t \in Threads : StageOK(t)
  /\ ~spoiled => /\ ~raced
                 /\ \A t \in Threads : ~unheld[t]
                 /\ \A t \in Threads : stage[t] = "store" => loaded[t] = value
                 /\ value = applied

(* A waiter sleeps nowhere but in its wait.                                *)
WaiterAsleep ==
  \A w \in Waiters : wasleep[w] # Awake => wpc[w] = "woken" /\ wasleep[w] = "count"
-----------------------------------------------------------------------------
LEMMA AcquireCallType == AcquireCall \in Calls
  BY DEF AcquireCall, Calls, Words

(* Of the lock the barrier makes no more than what a lock allows.          *)
LEMMA LockStep == [Next]_barrierVars => [LockNext]_lockVars
<1> SUFFICES ASSUME [Next]_barrierVars
             PROVE  [LockNext]_lockVars
  OBVIOUS
<1>1. ASSUME NEW t \in Threads, NEW d \in {1, -1}, Count(t, d)
      PROVE  LockNext
  BY <1>1, AcquireCallType DEF Count, LockNext
<1>2. ASSUME NEW t \in Threads, InLock(t) \/ Disturbed(t) \/ Unlock(t)
      PROVE  LockNext
  BY <1>2 DEF InLock, Disturbed, Unlock, LockNext
<1>3. ASSUME NEW t \in Threads, Load(t) \/ Store(t) \/ WakeAll(t)
      PROVE  UNCHANGED lockVars
  BY <1>3 DEF Load, Store, WakeAll
<1>4. ASSUME NEW w \in Waiters,
             \/ \E v \in Targets, b \in BOOLEAN : WaitFor(w, v, b)
             \/ WaitStep(w) \/ WaitKernel(w)
      PROVE  UNCHANGED lockVars
  BY <1>4 DEF WaitFor, WaitStep, WaitKernel
<1>5. CASE UNCHANGED barrierVars
  BY <1>5 DEF barrierVars
<1> QED
  BY <1>1, <1>2, <1>3, <1>4, <1>5 DEF Next, Counting

(* What the barrier adds to the types of the lock.                         *)
CounterOK ==
  /\ value \in Int
  /\ stage \in [Threads -> Stages]
  /\ delta \in [Threads -> {1, -1}]
  /\ loaded \in [Threads -> Int]
  /\ ops \in 0 .. MaxOps
  /\ applied \in Int
  /\ spoiled \in BOOLEAN

WaitersOK ==
  /\ wpc \in [Waiters -> {"idle", "true", "false"} \cup C!WaitLabels]
  /\ want \in [Waiters -> Targets]
  /\ limited \in [Waiters -> BOOLEAN]
  /\ C!WaitTypeOK

LEMMA CounterStep ==
  ASSUME LockTypeOK', CounterOK, [Next]_barrierVars
  PROVE  CounterOK'
<1> USE DEF CounterOK, Stage, Stages
<1>1. ASSUME Noted
      PROVE  spoiled' \in BOOLEAN
  BY <1>1, Zenon DEF Noted
<1>2. ASSUME NEW t \in Threads, NEW d \in {1, -1}, Count(t, d), Noted
      PROVE  CounterOK'
  BY <1>1, <1>2 DEF Count
<1>3. ASSUME NEW t \in Threads, InLock(t) \/ Disturbed(t) \/ Unlock(t), Noted
      PROVE  CounterOK'
  BY <1>1, <1>3 DEF InLock, Disturbed, Unlock, countVars
<1>4. ASSUME NEW t \in Threads, Load(t) \/ Store(t) \/ WakeAll(t), Noted
      PROVE  CounterOK'
  BY <1>1, <1>4 DEF Load, Store, WakeAll
<1>5. ASSUME NEW w \in Waiters, Noted,
             \/ \E v \in Targets, b \in BOOLEAN : WaitFor(w, v, b)
             \/ WaitStep(w) \/ WaitKernel(w)
      PROVE  CounterOK'
  BY <1>1, <1>5 DEF WaitFor, WaitStep, WaitKernel, countVars
<1>6. CASE UNCHANGED barrierVars
  BY <1>6 DEF barrierVars, countVars
<1> QED
  BY <1>2, <1>3, <1>4, <1>5, <1>6 DEF Next, Counting

LEMMA WaitersStep ==
  ASSUME CounterOK, WaitersOK, [Next]_barrierVars
  PROVE  WaitersOK'
<1> USE DEF WaitersOK, C!WaitTypeOK, C!F!FutexTypeOK, C!WaitLabels, C!F!Results,
            C!F!Errors, waiterVars
<1>1. ASSUME NEW t \in Threads, NEW d \in {1, -1}, Count(t, d)
      PROVE  WaitersOK'
  BY <1>1 DEF Count
<1>2. ASSUME NEW t \in Threads,
             InLock(t) \/ Disturbed(t) \/ Unlock(t) \/ Load(t) \/ Store(t)
      PROVE  WaitersOK'
  BY <1>2 DEF InLock, Disturbed, Unlock, Load, Store
<1>3. ASSUME NEW t \in Threads, WakeAll(t)
      PROVE  WaitersOK'
  BY <1>3 DEF WakeAll, C!F!FutexWakeAll
<1>4. ASSUME NEW w \in Waiters, NEW v \in Targets, NEW b \in BOOLEAN, WaitFor(w, v, b)
      PROVE  WaitersOK'
  BY <1>4 DEF WaitFor
<1>5. ASSUME NEW w \in Waiters, WaitStep(w)
      PROVE  WaitersOK'
  BY <1>5 DEF WaitStep, C!Test, C!Peek, C!Enter, C!Woken, C!Goto, C!F!FutexWait,
              C!F!FutexForget, CounterOK
<1>6. ASSUME NEW w \in Waiters, WaitKernel(w)
      PROVE  WaitersOK'
  BY <1>6 DEF WaitKernel, C!GiveUp, C!F!FutexGiveUp
<1>7. CASE UNCHANGED barrierVars
  BY <1>7 DEF barrierVars
<1> QED
  BY <1>1, <1>2, <1>3, <1>4, <1>5, <1>6, <1>7 DEF Next, Counting

(* Every variable of the barrier and of its lock keeps its type.           *)
THEOREM BarrierTypeCorrect == Spec => []BarrierTypeOK
<1>1. Init => LockTypeOK /\ CounterOK /\ WaitersOK
  <2> SUFFICES ASSUME Init
               PROVE  LockTypeOK /\ CounterOK /\ WaitersOK
    OBVIOUS
  <2>1. LockTypeOK
    BY InitType DEF Init
  <2>2. CounterOK
    <3>1. 0 \in 0 .. MaxOps
      OBVIOUS
    <3>2. stage \in [Threads -> Stages] /\ delta \in [Threads -> {1, -1}]
      BY DEF Init, Stages
    <3>3. loaded \in [Threads -> Int]
      BY DEF Init
    <3>4. value \in Int /\ applied \in Int
      BY DEF Init
    <3>5. spoiled \in BOOLEAN
      BY DEF Init
    <3>6. ops \in 0 .. MaxOps
      BY <3>1 DEF Init
    <3> QED
      BY <3>2, <3>3, <3>4, <3>5, <3>6 DEF CounterOK
  <2>3. WaitersOK
    BY DEF Init, WaitersOK, C!WaitInit, C!F!FutexInit, C!WaitTypeOK,
           C!F!FutexTypeOK, C!F!Results
  <2> QED
    BY <2>1, <2>2, <2>3
<1>2. LockTypeOK /\ CounterOK /\ WaitersOK /\ [Next]_barrierVars
        => LockTypeOK' /\ CounterOK' /\ WaitersOK'
  BY LockStep, CountsStep, ControlStep, CounterStep, WaitersStep DEF LockTypeOK
<1>3. LockTypeOK /\ CounterOK /\ WaitersOK <=> BarrierTypeOK
  BY DEF CounterOK, WaitersOK, BarrierTypeOK
<1> QED
  BY <1>1, <1>2, <1>3, PTL DEF Spec

(* The invariant of the lock holds in the barrier.                         *)
LEMMA LockInvCorrect == Spec => []LockInv
<1>1. Init => LockInv
  BY InitInv DEF Init
<1>2. BarrierTypeOK /\ LockInv /\ [Next]_barrierVars => LockInv'
  BY LockStep, InvStep DEF BarrierTypeOK
<1> QED
  BY <1>1, <1>2, BarrierTypeCorrect, PTL DEF Spec
-----------------------------------------------------------------------------
(* Inside the lock a thread keeps to the call of its stage, and has one    *)
(* acquire more exactly when lock-acquire returns.                         *)
LEMMA InLockStage ==
  ASSUME LockTypeOK, \A t \in Threads : StageOK(t), NEW t \in Threads, Step(t),
         UNCHANGED stage, NEW s \in Threads
  PROVE  StageOK(s)'
<1> USE DEF StageOK, At, Goto, Acquiring, AcquireCall, ReleaseCall, LockTypeOK,
            CountsOK, ControlOK, memVars, waitVars, histVars
<1>1. CASE Ours(t)
  BY <1>1 DEF Ours
<1>2. CASE LoadCount(t)
  BY <1>2 DEF LoadCount
<1>3. CASE StoreCount(t)
  BY <1>3 DEF StoreCount, Deeper
<1>4. CASE Locked(t) \/ OursToo(t)
  <2>1. stage[t] = "locking" /\ Granted(t) = "take" /\ depth[t] = 0
    <3>1. pc[t] \in {"locked?", "ours too?"}
      BY <1>4 DEF Locked, OursToo
    <3>2. stage[t] = "locking" /\ call[t] = AcquireCall /\ depth[t] = 0
      BY <3>1
    <3> QED
      BY <3>2 DEF Granted
  <2>2. \E p \in {"ours too?", "take", "test"} : pc' = [pc EXCEPT ![t] = p]
    BY <1>4, <2>1 DEF Locked, OursToo
  <2>3. UNCHANGED <<call, depth>>
    BY <1>4 DEF Locked, OursToo
  <2> QED
    BY <2>1, <2>2, <2>3
<1>5. CASE WaitTest(t)
  BY <1>5 DEF WaitTest, W!Test, W!Goto, Granted
<1>6. CASE WaitPeek(t)
  BY <1>6 DEF WaitPeek, W!Peek, W!Goto
<1>7. CASE WaitEnter(t)
  BY <1>7 DEF WaitEnter, W!Enter, W!Goto
<1>8. CASE WaitWoken(t)
  BY <1>8 DEF WaitWoken, W!Woken, W!Goto, Granted
<1>9. CASE Failed(t)
  BY <1>9 DEF Failed, Deeper
<1>10. CASE Take(t)
  BY <1>10 DEF Take
<1>11. CASE First(t)
  BY <1>11 DEF First, Deeper
<1>12. CASE Clear(t)
  BY <1>12 DEF Clear
<1>13. CASE Wake(t)
  BY <1>13 DEF Wake
<1> QED
  BY <1>1, <1>2, <1>3, <1>4, <1>5, <1>6, <1>7, <1>8,
     <1>9, <1>10, <1>11, <1>12, <1>13 DEF Step

LEMMA StageStep ==
  ASSUME BarrierTypeOK, \A t \in Threads : StageOK(t), [Next]_barrierVars
  PROVE  \A t \in Threads : StageOK(t)'
<1> SUFFICES ASSUME NEW s \in Threads
             PROVE  StageOK(s)'
  OBVIOUS
<1> USE DEF StageOK, At, Stage, BarrierTypeOK, LockTypeOK, CountsOK, ControlOK,
            lockVars, countVars
<1>1. ASSUME NEW t \in Threads, NEW d \in {1, -1}, Count(t, d)
      PROVE  StageOK(s)'
  BY <1>1 DEF Count, Acquire, Goto, AcquireCall
<1>2. ASSUME NEW t \in Threads, InLock(t)
      PROVE  StageOK(s)'
  BY <1>2, InLockStage DEF InLock
<1>3. ASSUME NEW t \in Threads, Disturbed(t)
      PROVE  StageOK(s)'
  BY <1>3 DEF Disturbed, Kernel, TimeOut, Interrupt, W!GiveUp, histVars
<1>4. ASSUME NEW t \in Threads, Load(t) \/ Store(t)
      PROVE  StageOK(s)'
  BY <1>4 DEF Load, Store
<1>5. ASSUME NEW t \in Threads, Unlock(t)
      PROVE  StageOK(s)'
  <2>1. /\ At(t, "unlock") /\ depth[t] = 1 /\ stage' = [stage EXCEPT ![t] = "wake"]
        /\ pc' = [pc EXCEPT ![t] = "ours?"] /\ call' = [call EXCEPT ![t] = ReleaseCall]
        /\ depth' = [depth EXCEPT ![t] = @ - 1]
    BY <1>5 DEF Unlock, Release, Goto
  <2>2. CASE s = t
    BY <2>1, <2>2
  <2>3. CASE s # t
    BY <2>1, <2>3
  <2> QED
    BY <2>2, <2>3
<1>6. ASSUME NEW t \in Threads, WakeAll(t)
      PROVE  StageOK(s)'
  BY <1>6 DEF WakeAll
<1>7. ASSUME NEW w \in Waiters,
             \/ \E v \in Targets, b \in BOOLEAN : WaitFor(w, v, b)
             \/ WaitStep(w) \/ WaitKernel(w)
      PROVE  StageOK(s)'
  BY <1>7 DEF WaitFor, WaitStep, WaitKernel
<1>8. CASE UNCHANGED barrierVars
  BY <1>8 DEF barrierVars
<1> QED
  BY <1>1, <1>2, <1>3, <1>4, <1>5, <1>6, <1>7, <1>8 DEF Next, Counting

(* Two threads that have loaded and not released are one, while the lock   *)
(* has not failed.                                                         *)
LEMMA OneInside ==
  ASSUME BarrierTypeOK, LockInv, CountInv, ~spoiled,
         NEW t \in Threads, NEW s \in Threads,
         stage[t] = "store", stage[s] = "store" \/ At(s, "locking")
  PROVE  s = t
<1>1. Inside(t) /\ Inside(s)
  BY DEF CountInv, StageOK, At, Inside
<1> QED
  BY <1>1 DEF LockInv, Good, Claims, CountInv

LEMMA CountStep ==
  ASSUME BarrierTypeOK, BarrierTypeOK', LockInv, CountInv, [Next]_barrierVars
  PROVE  CountInv'
<1> SUFFICES ASSUME ~spoiled'
             PROVE  /\ ~raced' /\ \A t \in Threads : ~unheld'[t]
                    /\ \A t \in Threads : stage'[t] = "store" => loaded'[t] = value'
                    /\ value' = applied'
  BY StageStep DEF CountInv
<1>1. ~spoiled /\ ~raced' /\ \A t \in Threads : ~unheld'[t]
  <2>1. CASE Noted
    BY <2>1, Zenon DEF Noted
  <2>2. CASE UNCHANGED barrierVars
    BY <2>2 DEF barrierVars, lockVars, CountInv
  <2> QED
    BY <2>1, <2>2 DEF Next
<1>2. /\ \A t \in Threads : stage[t] = "store" => loaded[t] = value
      /\ value = applied
  BY <1>1 DEF CountInv
<1> USE DEF BarrierTypeOK, Stage, At, countVars
<1>3. ASSUME NEW t \in Threads, NEW d \in {1, -1}, Count(t, d)
      PROVE  /\ \A s \in Threads : stage'[s] = "store" => loaded'[s] = value'
             /\ value' = applied'
  BY <1>2, <1>3 DEF Count
<1>4. ASSUME NEW t \in Threads, InLock(t) \/ Disturbed(t)
      PROVE  /\ \A s \in Threads : stage'[s] = "store" => loaded'[s] = value'
             /\ value' = applied'
  BY <1>2, <1>4 DEF InLock, Disturbed
<1>5. ASSUME NEW t \in Threads, Load(t)
      PROVE  /\ \A s \in Threads : stage'[s] = "store" => loaded'[s] = value'
             /\ value' = applied'
  BY <1>2, <1>5 DEF Load
<1>6. ASSUME NEW t \in Threads, Store(t)
      PROVE  /\ \A s \in Threads : stage'[s] = "store" => loaded'[s] = value'
             /\ value' = applied'
  <2>1. \A s \in Threads : stage'[s] # "store"
    BY <1>1, <1>6, OneInside DEF Store
  <2>2. loaded[t] = value
    BY <1>2, <1>6 DEF Store
  <2>3. value' = applied'
    BY <1>2, <1>6, <2>2 DEF Store
  <2> QED
    BY <2>1, <2>3
<1>7. ASSUME NEW t \in Threads, Unlock(t) \/ WakeAll(t)
      PROVE  /\ \A s \in Threads : stage'[s] = "store" => loaded'[s] = value'
             /\ value' = applied'
  BY <1>2, <1>7 DEF Unlock, WakeAll
<1>8. ASSUME NEW w \in Waiters,
             \/ \E v \in Targets, b \in BOOLEAN : WaitFor(w, v, b)
             \/ WaitStep(w) \/ WaitKernel(w)
      PROVE  /\ \A s \in Threads : stage'[s] = "store" => loaded'[s] = value'
             /\ value' = applied'
  BY <1>2, <1>8 DEF WaitFor, WaitStep, WaitKernel
<1>9. CASE UNCHANGED barrierVars
  <2>1. UNCHANGED <<stage, loaded, value, applied>>
    BY <1>9 DEF barrierVars
  <2> QED
    BY <1>1, <1>2, <2>1
<1> QED
  BY <1>1, <1>3, <1>4, <1>5, <1>6, <1>7, <1>8, <1>9 DEF Next, Counting

(* No increment and no decrement is lost unless the lock has let two       *)
(* threads in, or one in vain.                                             *)
THEOREM NothingLost == Spec => []NothingLostUnderLock
<1>1. Init => CountInv
  BY DEF Init, LockInit, CountInv, StageOK, At
<1>2. /\ BarrierTypeOK /\ BarrierTypeOK' /\ LockInv /\ CountInv /\ [Next]_barrierVars
      => CountInv'
  BY CountStep
<1>3. CountInv => NothingLostUnderLock
  BY DEF CountInv, NothingLostUnderLock
<1> QED
  BY <1>1, <1>2, <1>3, BarrierTypeCorrect, LockInvCorrect, PTL DEF Spec
-----------------------------------------------------------------------------
(* WaiterHasWaker asks nothing of the lock: it is inductive as soon as a   *)
(* waiter is known to sleep nowhere but in its wait.                       *)
WakerInv == WaiterAsleep /\ WaiterHasWaker

LEMMA WakerStep ==
  ASSUME BarrierTypeOK, WakerInv, [Next]_barrierVars
  PROVE  WakerInv'
<1> SUFFICES ASSUME NEW x \in Waiters
             PROVE  /\ wasleep'[x] # Awake => wpc'[x] = "woken" /\ wasleep'[x] = "count"
                    /\ wasleep'[x] # Awake /\ peeked'[x] # want'[x] /\ value' = want'[x]
                         => \E t \in Threads : stage'[t] \in {"unlock", "wake"}
  BY DEF WakerInv, WaiterAsleep, WaiterHasWaker, Holds
<1> DEFINE Asleep(w) == wasleep[w] # Awake => wpc[w] = "woken" /\ wasleep[w] = "count"
           Heard(w)  == wasleep[w] # Awake /\ peeked[w] # want[w] /\ value = want[w]
                          => \E t \in Threads : stage[t] \in {"unlock", "wake"}
<1>a. Asleep(x) /\ Heard(x)
  BY DEF WakerInv, WaiterAsleep, WaiterHasWaker, Holds
<1> USE DEF BarrierTypeOK, Stage, At, countVars, waiterVars
<1>1. ASSUME NEW t \in Threads, NEW d \in {1, -1}, Count(t, d)
      PROVE  Asleep(x)' /\ Heard(x)'
  BY <1>a, <1>1 DEF Count
<1>2. ASSUME NEW t \in Threads, InLock(t) \/ Disturbed(t)
      PROVE  Asleep(x)' /\ Heard(x)'
  BY <1>a, <1>2 DEF InLock, Disturbed
<1>3. ASSUME NEW t \in Threads, Load(t)
      PROVE  Asleep(x)' /\ Heard(x)'
  BY <1>a, <1>3 DEF Load
<1>4. ASSUME NEW t \in Threads, Store(t)
      PROVE  Asleep(x)' /\ Heard(x)'
  <2>1. stage'[t] = "unlock"
    BY <1>4 DEF Store
  <2> QED
    BY <1>a, <1>4, <2>1 DEF Store
<1>5. ASSUME NEW t \in Threads, Unlock(t)
      PROVE  Asleep(x)' /\ Heard(x)'
  <2>1. stage'[t] = "wake"
    BY <1>5 DEF Unlock
  <2> QED
    BY <1>a, <1>5, <2>1 DEF Unlock
<1>6. ASSUME NEW t \in Threads, WakeAll(t)
      PROVE  Asleep(x)' /\ Heard(x)'
  <2>1. wasleep'[x] = Awake
    BY <1>a, <1>6 DEF WakeAll, C!F!FutexWakeAll
  <2> QED
    BY <2>1
<1>7. ASSUME NEW w \in Waiters, NEW v \in Targets, NEW b \in BOOLEAN, WaitFor(w, v, b)
      PROVE  Asleep(x)' /\ Heard(x)'
  BY <1>a, <1>7 DEF WaitFor
<1>8. ASSUME NEW w \in Waiters, WaitStep(w)
      PROVE  Asleep(x)' /\ Heard(x)'
  <2> USE DEF WaitStep, C!WaitTypeOK, C!F!FutexTypeOK, C!Goto
  <2>1. CASE C!Test(w, Holds(w), "true")
    BY <1>a, <1>8, <2>1 DEF C!Test
  <2>2. CASE C!Peek(w, value)
    BY <1>a, <1>8, <2>2 DEF C!Peek
  <2>3. CASE C!Enter(w, "count", value)
    BY <1>a, <1>8, <2>3 DEF C!Enter, C!F!FutexWait
  <2>4. CASE C!Woken(w, Holds(w), limited[w], "true", "false")
    BY <1>a, <1>8, <2>4 DEF C!Woken, C!F!FutexForget
  <2> QED
    BY <1>8, <2>1, <2>2, <2>3, <2>4
<1>9. ASSUME NEW w \in Waiters, WaitKernel(w)
      PROVE  Asleep(x)' /\ Heard(x)'
  BY <1>a, <1>9 DEF WaitKernel, C!GiveUp, C!F!FutexGiveUp, C!WaitTypeOK, C!F!FutexTypeOK
<1>10. CASE UNCHANGED barrierVars
  BY <1>a, <1>10 DEF barrierVars
<1> QED
  BY <1>1, <1>2, <1>3, <1>4, <1>5, <1>6, <1>7, <1>8, <1>9, <1>10 DEF Next, Counting

(* A waiter never sleeps on through the value it waits for, whatever locks *)
(* are raced, waits time out and signals come.                             *)
THEOREM WaitersWoken == Spec => []WaiterHasWaker
<1>1. Init => WakerInv
  BY DEF Init, C!WaitInit, C!F!FutexInit, WakerInv, WaiterAsleep, WaiterHasWaker
<1>2. BarrierTypeOK /\ WakerInv /\ [Next]_barrierVars => WakerInv'
  BY WakerStep
<1> QED
  BY <1>1, <1>2, BarrierTypeCorrect, PTL DEF Spec, WakerInv
=============================================================================
