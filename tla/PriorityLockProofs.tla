------------------------- MODULE PriorityLockProofs -------------------------
(***************************************************************************)
(* The priority lock, for every set of threads and locks and every depth   *)
(* of nesting.                                                             *)
(***************************************************************************)
EXTENDS PriorityLockUse, TLAPS

USE PriorityLockAssumption, UseAssumption

(* What can be stored to the word of a lock.                               *)
LEMMA WordType ==
  ASSUME NEW o \in Threads \cup {Nobody}, NEW b \in BOOLEAN
  PROVE  /\ PI!Word(o, b) \in [owner : Threads \cup {Nobody}, waiters : BOOLEAN]
         /\ PI!Word(o, b).owner = o
         /\ PI!Word(o, b).waiters = b
  BY DEF PI!Word

(* The lemmas are about any use of the locks that acquires one at a time   *)
(* and releases what it acquired, the bounds of PriorityLockUse aside.     *)
CalledStep ==
  \/ \E t \in Threads :
       CallAcquire(t) \/ CallRelease(t) \/ (Step(t) /\ UNCHANGED depth)
  \/ UNCHANGED <<priorityVars, depth>>

(* Every variable keeps its type.                                          *)
LEMMA TypeStep ==
  ASSUME UseTypeOK, CalledStep
  PROVE  UseTypeOK'
<1> USE DEF UseTypeOK, PriorityTypeOK, PI!PITypeOK, Labels, Goto, stackVars, histVars
<1>1. ASSUME NEW t \in Threads, CallAcquire(t)
      PROVE  UseTypeOK'
  BY <1>1 DEF CallAcquire, Enter
<1>2. ASSUME NEW t \in Threads, CallRelease(t)
      PROVE  UseTypeOK'
  BY <1>2 DEF CallRelease, Enter
<1>3. ASSUME NEW t \in Threads, IsOurs(t), UNCHANGED depth
      PROVE  UseTypeOK'
  BY <1>3 DEF IsOurs
<1>4. ASSUME NEW t \in Threads, LoadCount(t), UNCHANGED depth
      PROVE  UseTypeOK'
  BY <1>4 DEF LoadCount
<1>5. ASSUME NEW t \in Threads, StoreCount(t), UNCHANGED depth
      PROVE  UseTypeOK'
  BY <1>5 DEF StoreCount
<1>6. ASSUME NEW t \in Threads, IsLocked(t), UNCHANGED depth
      PROVE  UseTypeOK'
  BY <1>6 DEF IsLocked, Grant
<1>7. ASSUME NEW t \in Threads, LockPI(t), UNCHANGED depth
      PROVE  UseTypeOK'
  <2>1. CASE PI!LockFree(t, lock[t])
    BY <1>7, <2>1, WordType DEF LockPI, PI!LockFree, PI!Store
  <2>2. CASE PI!LockBlocks(t, lock[t])
    <3>1. lock[t] \in Locks /\ latch[lock[t]].owner \in Threads \cup {Nobody}
      OBVIOUS
    <3>2. latch' \in [Locks -> [owner : Threads \cup {Nobody}, waiters : BOOLEAN]]
      <4>1. PI!Word(latch[lock[t]].owner, TRUE)
              \in [owner : Threads \cup {Nobody}, waiters : BOOLEAN]
        BY <3>1, WordType
      <4> QED
        BY <2>2, <3>1, <4>1 DEF PI!LockBlocks
    <3>3. /\ waiting' \in [Locks -> SUBSET Threads]
          /\ piOwner' \in [Locks -> Threads \cup {Nobody}]
      BY <2>2, <3>1 DEF PI!LockBlocks
    <3> QED
      BY <1>7, <3>2, <3>3 DEF LockPI
  <2> QED
    BY <1>7, <2>1, <2>2 DEF LockPI
<1>8. ASSUME NEW t \in Threads, LockFails(t), UNCHANGED depth
      PROVE  UseTypeOK'
  BY <1>8 DEF LockFails, PI!LockRefused, PI!piVars
<1>9. ASSUME NEW t \in Threads, Handed(t), UNCHANGED depth
      PROVE  UseTypeOK'
  BY <1>9 DEF Handed, Grant
<1>10. ASSUME NEW t \in Threads, Take(t), UNCHANGED depth
      PROVE  UseTypeOK'
  BY <1>10, WordType DEF Take, PI!Store
<1>11. ASSUME NEW t \in Threads, First(t), UNCHANGED depth
      PROVE  UseTypeOK'
  BY <1>11 DEF First
<1>12. ASSUME NEW t \in Threads, HasWaiters(t), UNCHANGED depth
      PROVE  UseTypeOK'
  BY <1>12 DEF HasWaiters
<1>13. ASSUME NEW t \in Threads, Clear(t), UNCHANGED depth
      PROVE  UseTypeOK'
  BY <1>13, WordType DEF Clear, PI!Store
<1>14. ASSUME NEW t \in Threads, UnlockPI(t), UNCHANGED depth
      PROVE  UseTypeOK'
  <2>1. CASE PI!HandOver(t, lock[t])
    <3>1. PICK w \in waiting[lock[t]] :
            /\ latch' = [latch EXCEPT ![lock[t]] = PI!Word(w, TRUE)]
            /\ waiting' = [waiting EXCEPT ![lock[t]] = @ \ {w}]
            /\ piOwner' = [piOwner EXCEPT
                            ![lock[t]] = IF waiting[lock[t]] = {w} THEN Nobody ELSE w]
      BY <2>1 DEF PI!HandOver
    <3>2. lock[t] \in Locks /\ w \in Threads
      OBVIOUS
    <3>3. latch' \in [Locks -> [owner : Threads \cup {Nobody}, waiters : BOOLEAN]]
      <4>1. PI!Word(w, TRUE) \in [owner : Threads \cup {Nobody}, waiters : BOOLEAN]
        BY <3>2, WordType
      <4> QED
        BY <3>1, <3>2, <4>1
    <3>4. /\ waiting' \in [Locks -> SUBSET Threads]
          /\ piOwner' \in [Locks -> Threads \cup {Nobody}]
      BY <3>1, <3>2
    <3> QED
      BY <1>14, <3>3, <3>4 DEF UnlockPI
  <2>2. CASE PI!UnlockRefused(t, lock[t])
    BY <1>14, <2>2 DEF UnlockPI, PI!UnlockRefused, PI!piVars
  <2> QED
    BY <1>14, <2>1, <2>2 DEF UnlockPI
<1>15. CASE UNCHANGED <<priorityVars, depth>>
  BY <1>15 DEF priorityVars
<1> QED
  BY <1>1, <1>2, <1>3, <1>4, <1>5, <1>6, <1>7, <1>8, <1>9, <1>10, <1>11, <1>12,
     <1>13, <1>14, <1>15
     DEF CalledStep, Step

(* What a thread is doing agrees with the word it runs.                    *)
LEMMA SaneStep ==
  ASSUME UseTypeOK, PriorityInv, CalledStep
  PROVE  \A s \in Threads : Sane(s)'
<1> USE DEF UseTypeOK, PriorityTypeOK, PI!PITypeOK, Goto, stackVars, histVars
<1>0. \A s \in Threads : Sane(s)
  BY DEF PriorityInv
<1>1. ASSUME NEW t \in Threads, CallAcquire(t)
      PROVE  \A s \in Threads : Sane(s)'
  BY <1>0, <1>1 DEF CallAcquire, Enter, Sane
<1>2. ASSUME NEW t \in Threads, CallRelease(t)
      PROVE  \A s \in Threads : Sane(s)'
  BY <1>0, <1>2 DEF CallRelease, Enter, Sane
<1>3. ASSUME NEW t \in Threads, IsOurs(t), UNCHANGED depth
      PROVE  \A s \in Threads : Sane(s)'
  BY <1>0, <1>3 DEF IsOurs, Sane
<1>4. ASSUME NEW t \in Threads, LoadCount(t), UNCHANGED depth
      PROVE  \A s \in Threads : Sane(s)'
  BY <1>0, <1>4 DEF LoadCount, Sane
<1>5. ASSUME NEW t \in Threads, StoreCount(t), UNCHANGED depth
      PROVE  \A s \in Threads : Sane(s)'
  BY <1>0, <1>5 DEF StoreCount, Sane
<1>6. ASSUME NEW t \in Threads, IsLocked(t), UNCHANGED depth
      PROVE  \A s \in Threads : Sane(s)'
  <2>1. ASSUME NEW s \in Threads \ {t}
        PROVE  Sane(s)'
    BY <1>0, <1>6, <2>1 DEF IsLocked, Grant, Sane
  <2>2. Sane(t)'
    BY <1>0, <1>6 DEF IsLocked, Grant, Sane
  <2> QED
    BY <2>1, <2>2
<1>7. ASSUME NEW t \in Threads, LockPI(t), UNCHANGED depth
      PROVE  \A s \in Threads : Sane(s)'
  BY <1>0, <1>7 DEF LockPI, Sane
<1>8. ASSUME NEW t \in Threads, LockFails(t), UNCHANGED depth
      PROVE  \A s \in Threads : Sane(s)'
  BY <1>0, <1>8 DEF LockFails, Sane
<1>9. ASSUME NEW t \in Threads, Handed(t), UNCHANGED depth
      PROVE  \A s \in Threads : Sane(s)'
  BY <1>0, <1>9 DEF Handed, Grant, Sane
<1>10. ASSUME NEW t \in Threads, Take(t), UNCHANGED depth
      PROVE  \A s \in Threads : Sane(s)'
  BY <1>0, <1>10 DEF Take, Sane
<1>11. ASSUME NEW t \in Threads, First(t), UNCHANGED depth
      PROVE  \A s \in Threads : Sane(s)'
  BY <1>0, <1>11 DEF First, Sane
<1>12. ASSUME NEW t \in Threads, HasWaiters(t), UNCHANGED depth
      PROVE  \A s \in Threads : Sane(s)'
  BY <1>0, <1>12 DEF HasWaiters, Sane
<1>13. ASSUME NEW t \in Threads, Clear(t), UNCHANGED depth
      PROVE  \A s \in Threads : Sane(s)'
  BY <1>0, <1>13 DEF Clear, Sane
<1>14. ASSUME NEW t \in Threads, UnlockPI(t), UNCHANGED depth
      PROVE  \A s \in Threads : Sane(s)'
  BY <1>0, <1>14 DEF UnlockPI, Sane
<1>15. CASE UNCHANGED <<priorityVars, depth>>
  BY <1>0, <1>15 DEF priorityVars, Sane
<1> QED
  BY <1>1, <1>2, <1>3, <1>4, <1>5, <1>6, <1>7, <1>8, <1>9, <1>10, <1>11, <1>12,
     <1>13, <1>14, <1>15
     DEF CalledStep, Step

(* What the kernel keeps is right, whatever is stored to the word.         *)
LEMMA KernelStep ==
  ASSUME UseTypeOK, PriorityInv, CalledStep
  PROVE  \A l \in Locks : KernelOK(l)'
<1> USE DEF UseTypeOK, PriorityTypeOK, PI!PITypeOK, Goto, stackVars, histVars
<1>0. \A l \in Locks : KernelOK(l)
  BY DEF PriorityInv
<1>1. ASSUME NEW t \in Threads, CallAcquire(t)
      PROVE  \A l \in Locks : KernelOK(l)'
  BY <1>0, <1>1 DEF CallAcquire, Enter, KernelOK
<1>2. ASSUME NEW t \in Threads, CallRelease(t)
      PROVE  \A l \in Locks : KernelOK(l)'
  BY <1>0, <1>2 DEF CallRelease, Enter, KernelOK
<1>3. ASSUME NEW t \in Threads, IsOurs(t), UNCHANGED depth
      PROVE  \A l \in Locks : KernelOK(l)'
  BY <1>0, <1>3 DEF IsOurs, KernelOK
<1>4. ASSUME NEW t \in Threads, LoadCount(t), UNCHANGED depth
      PROVE  \A l \in Locks : KernelOK(l)'
  BY <1>0, <1>4 DEF LoadCount, KernelOK
<1>5. ASSUME NEW t \in Threads, StoreCount(t), UNCHANGED depth
      PROVE  \A l \in Locks : KernelOK(l)'
  BY <1>0, <1>5 DEF StoreCount, KernelOK
<1>6. ASSUME NEW t \in Threads, IsLocked(t), UNCHANGED depth
      PROVE  \A l \in Locks : KernelOK(l)'
  <2>1. \A l \in Locks : t \notin waiting[l]
    BY <1>0, <1>6 DEF IsLocked, KernelOK
  <2>2. \A s \in Threads \ {t} : at'[s] = at[s]
    <3>1. \/ at' = [at EXCEPT ![t] = "take"]
          \/ at' = [at EXCEPT ![t] = "lock-pi"]
      BY <1>6 DEF IsLocked, Grant
    <3> QED
      BY <3>1
  <2>3. UNCHANGED <<latch, waiting, piOwner, lock>>
    BY <1>0, <1>6 DEF IsLocked, KernelOK
  <2> QED
    BY <1>0, <2>1, <2>2, <2>3 DEF KernelOK
<1>7. ASSUME NEW t \in Threads, LockPI(t), UNCHANGED depth
      PROVE  \A l \in Locks : KernelOK(l)'
  <2>1. \A l \in Locks : t \notin waiting[l]
    BY <1>0, <1>7 DEF LockPI, KernelOK
  <2>2. at' = [at EXCEPT ![t] = "handed?"] /\ UNCHANGED lock
    BY <1>0, <1>7 DEF LockPI, KernelOK
  <2>3. SUFFICES ASSUME NEW l \in Locks
                 PROVE  KernelOK(l)'
    OBVIOUS
  <2>4. KernelOK(l)
    BY <1>0
  <2>5. CASE l # lock[t]
    <3>1. /\ latch'[l] = latch[l] /\ waiting'[l] = waiting[l]
          /\ piOwner'[l] = piOwner[l]
      BY <1>7, <2>5 DEF LockPI, PI!LockFree, PI!LockBlocks, PI!Store
    <3> QED
      BY <2>1, <2>2, <2>4, <3>1 DEF KernelOK
  <2>6. CASE l = lock[t] /\ PI!LockFree(t, l)
    <3>1. /\ ~latch'[l].waiters /\ waiting'[l] = {}
      BY <2>6 DEF PI!LockFree, PI!Store, PI!Word
    <3> QED
      BY <3>1 DEF KernelOK
  <2>7. CASE l = lock[t] /\ PI!LockBlocks(t, l)
    <3>1. waiting'[l] = waiting[l] \cup {t}
      BY <2>7 DEF PI!LockBlocks
    <3>2. \A s \in waiting'[l] : at'[s] = "handed?" /\ lock'[s] = l
      BY <2>1, <2>2, <2>4, <2>7, <3>1 DEF KernelOK
    <3>3. piOwner'[l] = latch'[l].owner
      <4>1. PI!Word(latch[l].owner, TRUE).owner = latch[l].owner
        BY DEF PI!Word
      <4>2. latch' = [latch EXCEPT ![l] = PI!Word(latch[l].owner, TRUE)]
              => latch'[l].owner = latch[l].owner
        BY <4>1
      <4> QED
        BY <2>7, <4>2 DEF PI!LockBlocks
    <3>4. piOwner'[l] # Nobody
      BY <2>4, <2>7 DEF PI!LockBlocks, KernelOK
    <3> QED
      BY <3>2, <3>3, <3>4 DEF KernelOK
  <2> QED
    BY <1>7, <2>5, <2>6, <2>7 DEF LockPI
<1>8. ASSUME NEW t \in Threads, LockFails(t), UNCHANGED depth
      PROVE  \A l \in Locks : KernelOK(l)'
  BY <1>0, <1>8 DEF LockFails, PI!LockRefused, PI!piVars, KernelOK
<1>9. ASSUME NEW t \in Threads, Handed(t), UNCHANGED depth
      PROVE  \A l \in Locks : KernelOK(l)'
  BY <1>0, <1>9 DEF Handed, Grant, KernelOK
<1>10. ASSUME NEW t \in Threads, Take(t), UNCHANGED depth
      PROVE  \A l \in Locks : KernelOK(l)'
  BY <1>0, <1>10 DEF Take, PI!Word, PI!Store, KernelOK
<1>11. ASSUME NEW t \in Threads, First(t), UNCHANGED depth
      PROVE  \A l \in Locks : KernelOK(l)'
  BY <1>0, <1>11 DEF First, KernelOK
<1>12. ASSUME NEW t \in Threads, HasWaiters(t), UNCHANGED depth
      PROVE  \A l \in Locks : KernelOK(l)'
  BY <1>0, <1>12 DEF HasWaiters, KernelOK
<1>13. ASSUME NEW t \in Threads, Clear(t), UNCHANGED depth
      PROVE  \A l \in Locks : KernelOK(l)'
  BY <1>0, <1>13 DEF Clear, PI!Word, PI!Store, KernelOK
<1>14. ASSUME NEW t \in Threads, UnlockPI(t), UNCHANGED depth
      PROVE  \A l \in Locks : KernelOK(l)'
  <2>1. \A l \in Locks : t \notin waiting[l]
    BY <1>0, <1>14 DEF UnlockPI, KernelOK
  <2>2. at' = [at EXCEPT ![t] = "idle"] /\ UNCHANGED lock
    BY <1>0, <1>14 DEF UnlockPI, KernelOK
  <2>3. SUFFICES ASSUME NEW l \in Locks
                 PROVE  KernelOK(l)'
    OBVIOUS
  <2>4. KernelOK(l)
    BY <1>0
  <2>5. CASE l # lock[t] \/ PI!UnlockRefused(t, lock[t])
    <3>1. /\ latch'[l] = latch[l] /\ waiting'[l] = waiting[l]
          /\ piOwner'[l] = piOwner[l]
      BY <1>14, <2>5 DEF UnlockPI, PI!HandOver, PI!UnlockRefused, PI!piVars
    <3> QED
      BY <2>1, <2>2, <2>4, <3>1 DEF KernelOK
  <2>6. CASE l = lock[t] /\ PI!HandOver(t, l)
    <3>1. PICK w \in waiting[l] :
            /\ latch' = [latch EXCEPT ![l] = PI!Word(w, TRUE)]
            /\ waiting' = [waiting EXCEPT ![l] = @ \ {w}]
            /\ piOwner' = [piOwner EXCEPT
                             ![l] = IF waiting[l] = {w} THEN Nobody ELSE w]
      BY <2>6 DEF PI!HandOver
    <3>2. latch'[l].owner = w
      BY <3>1 DEF PI!Word
    <3>3. waiting'[l] \subseteq waiting[l] /\ (waiting'[l] # {} => piOwner'[l] = w)
      BY <3>1
    <3>4. w # Nobody
      BY <3>1
    <3> QED
      BY <2>1, <2>2, <2>4, <3>2, <3>3, <3>4 DEF KernelOK
  <2> QED
    BY <1>14, <2>5, <2>6 DEF UnlockPI
<1>15. CASE UNCHANGED <<priorityVars, depth>>
  BY <1>0, <1>15 DEF priorityVars, KernelOK
<1> QED
  BY <1>1, <1>2, <1>3, <1>4, <1>5, <1>6, <1>7, <1>8, <1>9, <1>10, <1>11, <1>12,
     <1>13, <1>14, <1>15
     DEF CalledStep, Step

(* A step of t touches nothing of the other threads, ...                   *)
Only(t) ==
  \A s \in Threads \ {t} :
    /\ at'[s] = at[s] /\ lock'[s] = lock[s] /\ acquiring'[s] = acquiring[s]
    /\ seen'[s] = seen[s] /\ depth'[s] = depth[s] /\ alone'[s] = alone[s]

(* ... takes nothing back of what history has recorded, ...                *)
Remembers ==
  \A l \in Locks : (breached[l] => breached'[l]) /\ (forgotten[l] => forgotten'[l])

(* ... leaves a lock to the thread that holds it or is about to take it,   *)
(* and gives one only to a thread that waits for it.                       *)
Calm(t) ==
  \A s \in Threads \ {t} :
    /\ Holds(s) /\ ~breached'[lock[s]] =>
         /\ latch'[lock[s]].owner = s
         /\ latch[lock[s]].waiters => latch'[lock[s]].waiters
         /\ count'[lock[s]] = count[lock[s]]
    /\ at[s] = "take" /\ ~breached'[lock[s]] /\ lock'[t] = lock[s]
         => at'[t] # "take" /\ ~Holds(t)'
    /\ \A l \in Locks : latch'[l].owner = s
         => latch[l].owner = s \/ (at[s] = "handed?" /\ lock[s] = l)

Named(t) ==
  \A l \in Locks : ~breached[l] /\ latch[l].owner = t
    => lock[t] = l /\ (Holds(t) \/ at[t] \in {"handed?", "take"})

(* For such a step it is enough to look at t itself.                       *)
LEMMA Frame ==
  ASSUME UseTypeOK, PriorityInv, NEW t \in Threads, Only(t), Remembers, Calm(t),
         Good(t)', Named(t)'
  PROVE  /\ \A s \in Threads : Good(s)'
         /\ \A l \in Locks : OwnerOK(l)'
<1> USE DEF UseTypeOK, PriorityTypeOK
<1>1. ASSUME NEW s \in Threads \ {t}
      PROVE  Good(s)'
  <2>1. SUFFICES ASSUME ~breached'[lock[s]]
                 PROVE  /\ Holds(s)' => HolderOK(s)'
                        /\ at'[s] = "take" => TakerOK(s)'
                        /\ at'[s] \in {"locked?", "lock-pi", "handed?", "take"}
                             => depth'[s] = 1
    BY DEF Good, Only
  <2>2. lock[s] \in Locks /\ ~breached[lock[s]] /\ Good(s)
    BY <2>1 DEF Remembers, PriorityInv
  <2>3. Holds(s)' <=> Holds(s)
    BY DEF Only, Holds
  <2>4. ASSUME Holds(s)
        PROVE  HolderOK(s)'
    <3>1. HolderOK(s)
      BY <2>2, <2>4 DEF Good
    <3>2. /\ latch'[lock[s]].owner = s
          /\ latch[lock[s]].waiters => latch'[lock[s]].waiters
          /\ count'[lock[s]] = count[lock[s]]
      BY <2>1, <2>4 DEF Calm
    <3>3. Counted(s)' = Counted(s)
      BY DEF Counted, Only
    <3>4. ~forgotten'[lock[s]] => ~forgotten[lock[s]]
      BY <2>2 DEF Remembers
    <3> QED
      BY <3>1, <3>2, <3>3, <3>4 DEF HolderOK, Only
  <2>5. ASSUME at[s] = "take"
        PROVE  TakerOK(s)'
    <3>1. TakerOK(s)
      BY <2>2, <2>5 DEF Good
    <3>2. ASSUME NEW u \in Threads \ {s}, lock'[u] = lock[s]
          PROVE  at'[u] # "take" /\ ~Holds(u)'
      <4>1. CASE u = t
        BY <2>1, <2>5, <3>2, <4>1 DEF Calm
      <4>2. CASE u # t
        BY <3>1, <3>2, <4>2 DEF TakerOK, Only, Holds
      <4> QED
        BY <4>1, <4>2
    <3> QED
      BY <3>2 DEF TakerOK, Only
  <2> QED
    BY <2>2, <2>3, <2>4, <2>5 DEF Good, Only
<1>2. ASSUME NEW l \in Locks, ~breached'[l], NEW s \in Threads, latch'[l].owner = s
      PROVE  lock'[s] = l /\ (Holds(s)' \/ at'[s] \in {"handed?", "take"})
  <2>1. CASE s = t
    BY <1>2, <2>1 DEF Named
  <2>2. CASE s # t
    <3>1. latch[l].owner = s \/ (at[s] = "handed?" /\ lock[s] = l)
      BY <1>2, <2>2 DEF Calm
    <3>2. ~breached[l] /\ OwnerOK(l)
      BY <1>2 DEF Remembers, PriorityInv
    <3>3. lock[s] = l /\ (Holds(s) \/ at[s] \in {"handed?", "take"})
      BY <3>1, <3>2 DEF OwnerOK
    <3> QED
      BY <2>2, <3>3 DEF Only, Holds
  <2> QED
    BY <2>1, <2>2
<1> QED
  BY <1>1, <1>2 DEF OwnerOK

(* Holders, takers and the named owners of the locks stay right.           *)
LEMMA GoodStep ==
  ASSUME UseTypeOK, PriorityInv, CalledStep
  PROVE  (\A s \in Threads : Good(s)') /\ (\A l \in Locks : OwnerOK(l)')
<1> USE DEF UseTypeOK, PriorityTypeOK, PI!PITypeOK, Goto, stackVars, histVars
<1>1. ASSUME NEW t \in Threads, CallAcquire(t)
      PROVE  (\A s \in Threads : Good(s)') /\ (\A l \in Locks : OwnerOK(l)')
  <2>0. Sane(t) /\ Good(t) /\ Named(t) /\ (\A s \in Threads : Good(s)) /\ lock[t] \in Locks
    BY DEF PriorityInv, OwnerOK, Named
  <2>1. Only(t)
    BY <1>1 DEF Only, CallAcquire, Enter
  <2>2. Remembers
    BY <1>1 DEF Remembers, CallAcquire, Enter
  <2>3. Good(t)'
    BY <1>1, <2>0 DEF Good, HolderOK, TakerOK, Holds, Counted, Sane, CallAcquire, Enter
  <2>4. Named(t)'
    BY <1>1, <2>0 DEF Named, Good, HolderOK, Holds, Sane, CallAcquire, Enter
  <2>5. Calm(t)
    BY <1>1, <2>0 DEF Calm, Good, HolderOK, TakerOK, Holds, Sane, CallAcquire, Enter
  <2> QED
    BY <2>1, <2>2, <2>3, <2>4, <2>5, Frame
<1>2. ASSUME NEW t \in Threads, CallRelease(t)
      PROVE  (\A s \in Threads : Good(s)') /\ (\A l \in Locks : OwnerOK(l)')
  <2>0. Sane(t) /\ Good(t) /\ Named(t) /\ (\A s \in Threads : Good(s)) /\ lock[t] \in Locks
    BY DEF PriorityInv, OwnerOK, Named
  <2>1. Only(t)
    BY <1>2 DEF Only, CallRelease, Enter
  <2>2. Remembers
    BY <1>2 DEF Remembers, CallRelease, Enter
  <2>3. Good(t)'
    BY <1>2, <2>0 DEF Good, HolderOK, TakerOK, Holds, Counted, Sane, CallRelease, Enter
  <2>4. Named(t)'
    BY <1>2, <2>0 DEF Named, Good, HolderOK, Holds, Sane, CallRelease, Enter
  <2>5. Calm(t)
    BY <1>2, <2>0 DEF Calm, Good, HolderOK, TakerOK, Holds, Sane, CallRelease, Enter
  <2> QED
    BY <2>1, <2>2, <2>3, <2>4, <2>5, Frame
<1>3. ASSUME NEW t \in Threads, IsOurs(t), UNCHANGED depth
      PROVE  (\A s \in Threads : Good(s)') /\ (\A l \in Locks : OwnerOK(l)')
  <2>0. Sane(t) /\ Good(t) /\ Named(t) /\ (\A s \in Threads : Good(s)) /\ lock[t] \in Locks
    BY DEF PriorityInv, OwnerOK, Named
  <2>1. Only(t)
    BY <1>3 DEF Only, IsOurs, Ours
  <2>2. Remembers
    BY <1>3 DEF Remembers, IsOurs, Ours
  <2>3. /\ UNCHANGED <<latch, count, lock, acquiring, seen, depth, breached, forgotten>>
        /\ \A s \in Threads \ {t} : at'[s] = at[s]
        /\ at[t] = "ours?" /\ at'[t] # "take"
        /\ at'[t] = (IF Ours(t) THEN "load-count"
                     ELSE IF acquiring[t] THEN "locked?" ELSE "idle")
    BY <1>3 DEF IsOurs
  <2>4. ASSUME ~breached[lock[t]], Ours(t)
        PROVE  Good(t)'
    <3>1. Holds(t)
      BY <2>0, <2>3, <2>4 DEF Named, Ours
    <3>2. HolderOK(t)
      BY <2>0, <2>4, <3>1 DEF Good
    <3>3. at'[t] = "load-count" /\ (acquiring[t] => depth[t] > 1)
      BY <2>3, <2>4, <3>1 DEF Holds
    <3>4. HolderOK(t)'
      BY <2>3, <3>2, <3>3 DEF HolderOK, Counted
    <3> QED
      BY <2>3, <3>3, <3>4 DEF Good, Holds
  <2>5. ASSUME ~breached[lock[t]], ~Ours(t)
        PROVE  Good(t)'
    <3>1. ~Holds(t)
      BY <2>0, <2>5 DEF Good, HolderOK, Ours
    <3>2. acquiring[t] /\ ~(depth[t] > 1) /\ depth[t] > 0
      BY <2>0, <2>3, <3>1 DEF Holds, Sane
    <3>3. at'[t] = "locked?" /\ depth'[t] = 1
      BY <2>3, <2>5, <3>2
    <3>4. ~Holds(t)'
      BY <3>3 DEF Holds
    <3> QED
      BY <3>3, <3>4 DEF Good
  <2>6. Good(t)'
    BY <2>3, <2>4, <2>5 DEF Good
  <2>7. Named(t)'
    BY <2>0, <2>3 DEF Named, Holds, Ours
  <2>8. ASSUME NEW s \in Threads \ {t}, at[s] = "take", ~breached[lock[s]],
               lock[t] = lock[s]
        PROVE  ~Holds(t)'
    <3>1. ~Holds(t)
      BY <2>0, <2>8 DEF Good, TakerOK
    <3>2. ~Ours(t)
      BY <2>0, <2>3, <2>8, <3>1 DEF Named, Ours
    <3>3. acquiring[t]
      BY <2>3, <3>1 DEF Holds
    <3> QED
      BY <2>3, <3>2, <3>3 DEF Holds
  <2>9. Calm(t)
    BY <2>0, <2>3, <2>8 DEF Calm, Good, HolderOK
  <2> QED
    BY <2>1, <2>2, <2>6, <2>7, <2>9, Frame
<1>4. ASSUME NEW t \in Threads, LoadCount(t), UNCHANGED depth
      PROVE  (\A s \in Threads : Good(s)') /\ (\A l \in Locks : OwnerOK(l)')
  <2>0. Sane(t) /\ Good(t) /\ Named(t) /\ (\A s \in Threads : Good(s)) /\ lock[t] \in Locks
    BY DEF PriorityInv, OwnerOK, Named
  <2>1. Only(t)
    BY <1>4 DEF Only, LoadCount
  <2>2. Remembers
    BY <1>4 DEF Remembers, LoadCount
  <2>3. Good(t)'
    BY <1>4, <2>0 DEF Good, HolderOK, TakerOK, Holds, Counted, Sane, LoadCount
  <2>4. Named(t)'
    BY <1>4, <2>0 DEF Named, Good, HolderOK, Holds, Sane, LoadCount
  <2>5. Calm(t)
    BY <1>4, <2>0 DEF Calm, Good, HolderOK, TakerOK, Holds, Sane, LoadCount
  <2> QED
    BY <2>1, <2>2, <2>3, <2>4, <2>5, Frame
<1>5. ASSUME NEW t \in Threads, StoreCount(t), UNCHANGED depth
      PROVE  (\A s \in Threads : Good(s)') /\ (\A l \in Locks : OwnerOK(l)')
  <2>0. Sane(t) /\ Good(t) /\ Named(t) /\ (\A s \in Threads : Good(s)) /\ lock[t] \in Locks
    BY DEF PriorityInv, OwnerOK, Named
  <2>1. Only(t)
    BY <1>5 DEF Only, StoreCount
  <2>2. Remembers
    BY <1>5 DEF Remembers, StoreCount
  <2>3. Good(t)'
    BY <1>5, <2>0 DEF Good, HolderOK, TakerOK, Holds, Counted, Sane, StoreCount
  <2>4. Named(t)'
    BY <1>5, <2>0 DEF Named, Good, HolderOK, Holds, Counted, Sane, StoreCount
  <2>5. Calm(t)
    BY <1>5, <2>0 DEF Calm, Good, HolderOK, TakerOK, Holds, Sane, StoreCount
  <2> QED
    BY <2>1, <2>2, <2>3, <2>4, <2>5, Frame
<1>6. ASSUME NEW t \in Threads, IsLocked(t), UNCHANGED depth
      PROVE  (\A s \in Threads : Good(s)') /\ (\A l \in Locks : OwnerOK(l)')
  <2>0. Sane(t) /\ Good(t) /\ Named(t) /\ (\A s \in Threads : Good(s)) /\ lock[t] \in Locks
    BY DEF PriorityInv, OwnerOK, Named
  <2>1. Only(t)
    BY <1>6 DEF Only, IsLocked, Grant, PI!Word
  <2>2. Remembers
    BY <1>6 DEF Remembers, IsLocked, Grant, PI!Word
  <2>3. Good(t)'
    BY <1>6, <2>0
       DEF Good, HolderOK, TakerOK, Holds, Counted, Sane, IsLocked, Grant,
           PI!Word
  <2>4. Named(t)'
    BY <1>6, <2>0 DEF Named, Good, HolderOK, Holds, Sane, IsLocked, Grant, PI!Word
  <2>5. Calm(t)
    BY <1>6, <2>0
       DEF Calm, Good, HolderOK, TakerOK, Holds, Sane, IsLocked, Grant,
           PI!Word
  <2> QED
    BY <2>1, <2>2, <2>3, <2>4, <2>5, Frame
<1>7. ASSUME NEW t \in Threads, LockPI(t), UNCHANGED depth
      PROVE  (\A s \in Threads : Good(s)') /\ (\A l \in Locks : OwnerOK(l)')
  <2>0. Sane(t) /\ Good(t) /\ Named(t) /\ (\A s \in Threads : Good(s)) /\ lock[t] \in Locks
    BY DEF PriorityInv, OwnerOK, Named
  <2>1. Only(t)
    BY <1>7 DEF Only, LockPI, PI!LockFree, PI!LockBlocks, PI!Word, PI!Store
  <2>2. Remembers
    BY <1>7 DEF Remembers, LockPI, PI!LockFree, PI!LockBlocks, PI!Word, PI!Store
  <2>3. Good(t)'
    BY <1>7, <2>0
       DEF Good, HolderOK, TakerOK, Holds, Counted, Sane, LockPI, PI!LockFree,
           PI!LockBlocks, PI!Word, PI!Store
  <2>4. Named(t)'
    BY <1>7, <2>0
       DEF Named, Good, HolderOK, Holds, Sane, LockPI, PI!LockFree,
           PI!LockBlocks, PI!Word, PI!Store
  <2>6. /\ UNCHANGED <<count, lock, breached>>
        /\ ~Holds(t)' /\ at'[t] # "take"
    BY <1>7 DEF LockPI, Holds
  <2>7. ASSUME NEW s \in Threads \ {t}, Holds(s), ~breached[lock[s]]
        PROVE  /\ latch'[lock[s]].owner = s
               /\ latch[lock[s]].waiters => latch'[lock[s]].waiters
    <3>1. lock[s] \in Locks /\ latch[lock[s]].owner = s /\ s # Nobody
      BY <2>0, <2>7 DEF Good, HolderOK
    <3>2. CASE lock[s] # lock[t]
      BY <1>7, <2>0, <3>1, <3>2 DEF LockPI, PI!LockFree, PI!LockBlocks, PI!Store
    <3>3. CASE lock[s] = lock[t]
      <4>1. PI!LockBlocks(t, lock[t])
        BY <1>7, <3>1, <3>3 DEF LockPI, PI!LockFree
      <4>2. \/ latch'[lock[t]] = PI!Word(latch[lock[t]].owner, TRUE)
            \/ latch' = latch
        BY <2>0, <4>1 DEF PI!LockBlocks
      <4> QED
        BY <3>1, <3>3, <4>2 DEF PI!Word
    <3> QED
      BY <3>2, <3>3
  <2>8. ASSUME NEW s \in Threads \ {t}, NEW l \in Locks, latch'[l].owner = s
        PROVE  latch[l].owner = s
    <3>1. CASE l # lock[t]
      BY <1>7, <2>0, <2>8, <3>1 DEF LockPI, PI!LockFree, PI!LockBlocks, PI!Store
    <3>2. CASE l = lock[t]
      <4>1. \/ latch'[l] = PI!Word(t, FALSE)
            \/ latch'[l] = PI!Word(latch[l].owner, TRUE)
            \/ latch' = latch
        BY <1>7, <3>2 DEF LockPI, PI!LockFree, PI!LockBlocks, PI!Store
      <4> QED
        BY <2>8, <4>1 DEF PI!Word
    <3> QED
      BY <3>1, <3>2
  <2>5. Calm(t)
    BY <2>6, <2>7, <2>8 DEF Calm
  <2> QED
    BY <2>1, <2>2, <2>3, <2>4, <2>5, Frame
<1>8. ASSUME NEW t \in Threads, LockFails(t), UNCHANGED depth
      PROVE  (\A s \in Threads : Good(s)') /\ (\A l \in Locks : OwnerOK(l)')
  <2>0. Sane(t) /\ Good(t) /\ Named(t) /\ (\A s \in Threads : Good(s)) /\ lock[t] \in Locks
    BY DEF PriorityInv, OwnerOK, Named
  <2>1. Only(t)
    BY <1>8 DEF Only, LockFails, PI!LockRefused, PI!piVars
  <2>2. Remembers
    BY <1>8 DEF Remembers, LockFails, PI!LockRefused, PI!piVars
  <2>3. Good(t)'
    BY <1>8, <2>0
       DEF Good, HolderOK, TakerOK, Holds, Counted, Sane, LockFails,
           PI!LockRefused, PI!piVars
  <2>4. Named(t)'
    BY <1>8, <2>0
       DEF Named, Good, HolderOK, Holds, Sane, LockFails, PI!LockRefused,
           PI!piVars
  <2>5. Calm(t)
    BY <1>8, <2>0
       DEF Calm, Good, HolderOK, TakerOK, Holds, Sane, LockFails,
           PI!LockRefused, PI!piVars
  <2> QED
    BY <2>1, <2>2, <2>3, <2>4, <2>5, Frame
<1>9. ASSUME NEW t \in Threads, Handed(t), UNCHANGED depth
      PROVE  (\A s \in Threads : Good(s)') /\ (\A l \in Locks : OwnerOK(l)')
  <2>0. Sane(t) /\ Good(t) /\ Named(t) /\ (\A s \in Threads : Good(s)) /\ lock[t] \in Locks
    BY DEF PriorityInv, OwnerOK, Named
  <2>1. Only(t)
    BY <1>9 DEF Only, Handed, Ours, Grant
  <2>2. Remembers
    BY <1>9 DEF Remembers, Handed, Ours, Grant
  <2>3. Good(t)'
    BY <1>9, <2>0 DEF Good, HolderOK, TakerOK, Holds, Counted, Sane, Handed, Ours, Grant
  <2>4. Named(t)'
    BY <1>9, <2>0 DEF Named, Good, HolderOK, Holds, Sane, Handed, Ours, Grant
  <2>5. Calm(t)
    BY <1>9, <2>0 DEF Calm, Good, HolderOK, TakerOK, Holds, Sane, Handed, Ours, Grant
  <2> QED
    BY <2>1, <2>2, <2>3, <2>4, <2>5, Frame
<1>10. ASSUME NEW t \in Threads, Take(t), UNCHANGED depth
      PROVE  (\A s \in Threads : Good(s)') /\ (\A l \in Locks : OwnerOK(l)')
  <2>0. Sane(t) /\ Good(t) /\ Named(t) /\ (\A s \in Threads : Good(s)) /\ lock[t] \in Locks
    BY DEF PriorityInv, OwnerOK, Named
  <2>1. Only(t)
    BY <1>10 DEF Only, Take, PI!Word, PI!Store
  <2>2. Remembers
    BY <1>10 DEF Remembers, Take, PI!Word, PI!Store
  <2>3. Good(t)'
    BY <1>10, <2>0
       DEF Good, HolderOK, TakerOK, Holds, Counted, Sane, Take, PI!Word,
           PI!Store
  <2>4. Named(t)'
    BY <1>10, <2>0 DEF Named, Good, HolderOK, Holds, Sane, Take, PI!Word, PI!Store
  <2>5. Calm(t)
    BY <1>10, <2>0
       DEF Calm, Good, HolderOK, TakerOK, Holds, Sane, Take, PI!Word, PI!Store
  <2> QED
    BY <2>1, <2>2, <2>3, <2>4, <2>5, Frame
<1>11. ASSUME NEW t \in Threads, First(t), UNCHANGED depth
      PROVE  (\A s \in Threads : Good(s)') /\ (\A l \in Locks : OwnerOK(l)')
  <2>0. Sane(t) /\ Good(t) /\ Named(t) /\ (\A s \in Threads : Good(s)) /\ lock[t] \in Locks
    BY DEF PriorityInv, OwnerOK, Named
  <2>1. Only(t)
    BY <1>11 DEF Only, First
  <2>2. Remembers
    BY <1>11 DEF Remembers, First
  <2>3. Good(t)'
    BY <1>11, <2>0 DEF Good, HolderOK, TakerOK, Holds, Counted, Sane, First
  <2>4. Named(t)'
    BY <1>11, <2>0 DEF Named, Good, HolderOK, Holds, Sane, First
  <2>5. Calm(t)
    BY <1>11, <2>0 DEF Calm, Good, HolderOK, TakerOK, Holds, Sane, First
  <2> QED
    BY <2>1, <2>2, <2>3, <2>4, <2>5, Frame
<1>12. ASSUME NEW t \in Threads, HasWaiters(t), UNCHANGED depth
      PROVE  (\A s \in Threads : Good(s)') /\ (\A l \in Locks : OwnerOK(l)')
  <2>0. Sane(t) /\ Good(t) /\ Named(t) /\ (\A s \in Threads : Good(s)) /\ lock[t] \in Locks
    BY DEF PriorityInv, OwnerOK, Named
  <2>1. Only(t)
    BY <1>12 DEF Only, HasWaiters
  <2>2. Remembers
    BY <1>12 DEF Remembers, HasWaiters
  <2>6. ~latch[lock[t]].waiters /\ ~breached[lock[t]] /\ ~forgotten[lock[t]]
          => waiting[lock[t]] = {}
    BY <2>0 DEF PriorityInv, Hidden, PI!Word
  <2>7. /\ UNCHANGED <<latch, count, lock, acquiring, seen, depth, breached, forgotten>>
        /\ at[t] = "waiters?"
        /\ at'[t] = (IF latch[lock[t]].waiters THEN "unlock-pi" ELSE "clear")
        /\ alone'[t] = (waiting[lock[t]] = {})
    BY <1>12 DEF HasWaiters
  <2>8. ASSUME ~breached[lock[t]]
        PROVE  HolderOK(t)'
    <3>1. HolderOK(t)
      BY <2>0, <2>7, <2>8 DEF Good, Holds
    <3>2. latch[lock[t]].owner = t /\ depth[t] = 0
      BY <2>7, <3>1 DEF HolderOK
    <3>3. CASE latch[lock[t]].waiters
      <4>1. at'[t] = "unlock-pi"
        BY <2>7, <3>3
      <4> QED
        BY <2>7, <3>2, <3>3, <4>1 DEF HolderOK
    <3>4. CASE ~latch[lock[t]].waiters
      <4>1. at'[t] = "clear"
        BY <2>7, <3>4
      <4>2. ~forgotten[lock[t]] => alone'[t]
        BY <2>6, <2>7, <2>8, <3>4
      <4> QED
        BY <2>7, <3>2, <4>1, <4>2 DEF HolderOK
    <3> QED
      BY <3>3, <3>4
  <2>3. Good(t)'
    BY <2>7, <2>8 DEF Good
  <2>4. Named(t)'
    BY <1>12, <2>0 DEF Named, Good, HolderOK, Holds, Sane, HasWaiters
  <2>5. Calm(t)
    BY <1>12, <2>0 DEF Calm, Good, HolderOK, TakerOK, Holds, Sane, HasWaiters
  <2> QED
    BY <2>1, <2>2, <2>3, <2>4, <2>5, Frame
<1>13. ASSUME NEW t \in Threads, Clear(t), UNCHANGED depth
      PROVE  (\A s \in Threads : Good(s)') /\ (\A l \in Locks : OwnerOK(l)')
  <2>0. Sane(t) /\ Good(t) /\ Named(t) /\ (\A s \in Threads : Good(s)) /\ lock[t] \in Locks
    BY DEF PriorityInv, OwnerOK, Named
  <2>1. Only(t)
    BY <1>13 DEF Only, Clear, PI!Word, PI!Store
  <2>2. Remembers
    BY <1>13 DEF Remembers, Clear, PI!Word, PI!Store
  <2>3. Good(t)'
    BY <1>13, <2>0
       DEF Good, HolderOK, TakerOK, Holds, Counted, Sane, Clear, PI!Word,
           PI!Store
  <2>4. Named(t)'
    BY <1>13, <2>0 DEF Named, Good, HolderOK, Holds, Sane, Clear, PI!Word, PI!Store
  <2>5. Calm(t)
    BY <1>13, <2>0
       DEF Calm, Good, HolderOK, TakerOK, Holds, Sane, Clear, PI!Word,
           PI!Store
  <2> QED
    BY <2>1, <2>2, <2>3, <2>4, <2>5, Frame
<1>14. ASSUME NEW t \in Threads, UnlockPI(t), UNCHANGED depth
      PROVE  (\A s \in Threads : Good(s)') /\ (\A l \in Locks : OwnerOK(l)')
  <2>0. Sane(t) /\ Good(t) /\ Named(t) /\ (\A s \in Threads : Good(s)) /\ lock[t] \in Locks
    BY DEF PriorityInv, OwnerOK, Named
  <2>1. Only(t)
    BY <1>14 DEF Only, UnlockPI, PI!HandOver, PI!UnlockRefused, PI!piVars, PI!Word
  <2>2. Remembers
    BY <1>14 DEF Remembers, UnlockPI, PI!HandOver, PI!UnlockRefused, PI!piVars, PI!Word
  <2>3. Good(t)'
    BY <1>14, <2>0
       DEF Good, HolderOK, TakerOK, Holds, Counted, Sane, UnlockPI,
           PI!HandOver, PI!UnlockRefused, PI!piVars, PI!Word
  <2>6. /\ UNCHANGED <<count, lock, breached>>
        /\ at[t] = "unlock-pi" /\ Holds(t) /\ at'[t] # "take"
    BY <1>14 DEF UnlockPI, Holds
  <2>10. \A l \in Locks \ {lock[t]} : latch'[l] = latch[l]
    BY <1>14, <2>0 DEF UnlockPI, PI!HandOver, PI!UnlockRefused, PI!piVars
  <2>7. ASSUME ~breached[lock[t]]
        PROVE  \E w \in Threads \ {t} : /\ latch'[lock[t]] = PI!Word(w, TRUE)
                                        /\ at[w] = "handed?" /\ lock[w] = lock[t]
    <3>1. latch[lock[t]].owner = t /\ latch[lock[t]].waiters
      BY <2>0, <2>6, <2>7 DEF Good, HolderOK
    <3>2. KernelOK(lock[t])
      BY <2>0 DEF PriorityInv
    <3>3. ~PI!UnlockRefused(t, lock[t])
      BY <3>1, <3>2 DEF KernelOK, PI!UnlockRefused
    <3>4. PICK w \in waiting[lock[t]] :
            latch' = [latch EXCEPT ![lock[t]] = PI!Word(w, TRUE)]
      BY <1>14, <3>3 DEF UnlockPI, PI!HandOver
    <3>5. w \in Threads /\ at[w] = "handed?" /\ lock[w] = lock[t]
      BY <2>0, <3>2, <3>4 DEF KernelOK
    <3> QED
      BY <2>0, <2>6, <3>4, <3>5
  <2>4. Named(t)'
    <3>1. SUFFICES ASSUME NEW l \in Locks, ~breached[l], latch'[l].owner = t
                   PROVE  FALSE
      BY <2>6 DEF Named
    <3>2. l = lock[t]
      BY <2>0, <2>10, <3>1 DEF Named
    <3>3. PICK w \in Threads \ {t} : latch'[l] = PI!Word(w, TRUE)
      BY <2>7, <3>1, <3>2
    <3> QED
      BY <3>1, <3>3 DEF PI!Word
  <2>8. ASSUME NEW s \in Threads \ {t}, NEW l \in Locks, latch'[l].owner = s
        PROVE  latch[l].owner = s \/ (at[s] = "handed?" /\ lock[s] = l)
    <3>1. CASE l # lock[t]
      BY <2>8, <2>10, <3>1
    <3>2. CASE l = lock[t]
      BY <1>14, <2>0, <2>8, <3>2
         DEF UnlockPI, PI!HandOver, PI!UnlockRefused, PI!piVars, PI!Word,
             PriorityInv, KernelOK
    <3> QED
      BY <3>1, <3>2
  <2>9. ASSUME NEW s \in Threads \ {t}, Holds(s), ~breached[lock[s]]
        PROVE  latch'[lock[s]] = latch[lock[s]] /\ latch[lock[s]].owner = s
    <3>1. lock[s] \in Locks /\ latch[lock[s]].owner = s
      BY <2>0, <2>9 DEF Good, HolderOK
    <3>2. lock[s] # lock[t]
      BY <2>0, <2>6, <2>9, <3>1 DEF Good, HolderOK
    <3> QED
      BY <2>10, <3>1, <3>2
  <2>5. Calm(t)
    BY <2>0, <2>6, <2>8, <2>9 DEF Calm, Good, TakerOK
  <2> QED
    BY <2>1, <2>2, <2>3, <2>4, <2>5, Frame
<1>15. CASE UNCHANGED <<priorityVars, depth>>
  BY <1>15
     DEF priorityVars, PriorityInv, Good, HolderOK, TakerOK, Holds,
         Counted, OwnerOK
<1> QED
  BY <1>1, <1>2, <1>3, <1>4, <1>5, <1>6, <1>7, <1>8, <1>9, <1>10, <1>11, <1>12,
     <1>13, <1>14, <1>15
     DEF CalledStep, Step

(* The kernel and the word of a lock agree unless a plain store has hidden *)
(* the waiters or the lock has let a second thread in.                     *)
LEMMA HiddenStep ==
  ASSUME UseTypeOK, PriorityInv, CalledStep
  PROVE  \A l \in Locks : Hidden(l)'
<1> USE DEF UseTypeOK, PriorityTypeOK, PI!PITypeOK, Goto, stackVars, histVars
<1>0. \A l \in Locks : Hidden(l)
  BY DEF PriorityInv
<1>1. ASSUME NEW t \in Threads, CallAcquire(t)
      PROVE  \A l \in Locks : Hidden(l)'
  BY <1>0, <1>1 DEF CallAcquire, Enter, Hidden
<1>2. ASSUME NEW t \in Threads, CallRelease(t)
      PROVE  \A l \in Locks : Hidden(l)'
  BY <1>0, <1>2 DEF CallRelease, Enter, Hidden
<1>3. ASSUME NEW t \in Threads, IsOurs(t), UNCHANGED depth
      PROVE  \A l \in Locks : Hidden(l)'
  BY <1>0, <1>3 DEF IsOurs, Ours, Hidden
<1>4. ASSUME NEW t \in Threads, LoadCount(t), UNCHANGED depth
      PROVE  \A l \in Locks : Hidden(l)'
  BY <1>0, <1>4 DEF LoadCount, Hidden
<1>5. ASSUME NEW t \in Threads, StoreCount(t), UNCHANGED depth
      PROVE  \A l \in Locks : Hidden(l)'
  BY <1>0, <1>5 DEF StoreCount, Hidden
<1>6. ASSUME NEW t \in Threads, IsLocked(t), UNCHANGED depth
      PROVE  \A l \in Locks : Hidden(l)'
  BY <1>0, <1>6 DEF IsLocked, Grant, PI!Word, Hidden
<1>7. ASSUME NEW t \in Threads, LockPI(t), UNCHANGED depth
      PROVE  \A l \in Locks : Hidden(l)'
  <2>1. SUFFICES ASSUME NEW l \in Locks
                 PROVE  Hidden(l)'
    OBVIOUS
  <2>2. Hidden(l) /\ Sane(t) /\ Good(t) /\ lock[t] \in Locks
    BY DEF PriorityInv
  <2>3. CASE l # lock[t]
    BY <1>7, <2>2, <2>3 DEF Hidden, LockPI, PI!LockFree, PI!LockBlocks, PI!Store
  <2>4. CASE l = lock[t] /\ PI!LockFree(t, l)
    BY <2>4 DEF Hidden, PI!LockFree
  <2>5. CASE l = lock[t] /\ PI!LockBlocks(t, l)
    <3>1. \/ /\ latch'[l] = PI!Word(latch[l].owner, TRUE)
             /\ piOwner'[l] = latch[l].owner
          \/ waiting[l] # {} /\ latch'[l] = latch[l] /\ piOwner'[l] = piOwner[l]
      BY <2>5 DEF PI!LockBlocks
    <3>2. UNCHANGED <<breached, forgotten>>
      BY <1>0, <1>7 DEF LockPI
    <3> QED
      BY <2>2, <3>1, <3>2 DEF Hidden
  <2> QED
    BY <1>7, <2>3, <2>4, <2>5 DEF LockPI
<1>8. ASSUME NEW t \in Threads, LockFails(t), UNCHANGED depth
      PROVE  \A l \in Locks : Hidden(l)'
  BY <1>0, <1>8 DEF LockFails, PI!LockRefused, PI!piVars, Hidden, PriorityInv
<1>9. ASSUME NEW t \in Threads, Handed(t), UNCHANGED depth
      PROVE  \A l \in Locks : Hidden(l)'
  BY <1>0, <1>9 DEF Handed, Ours, Grant, Hidden
<1>10. ASSUME NEW t \in Threads, Take(t), UNCHANGED depth
      PROVE  \A l \in Locks : Hidden(l)'
  <2>1. SUFFICES ASSUME NEW l \in Locks
                 PROVE  Hidden(l)'
    OBVIOUS
  <2>2. Hidden(l) /\ Sane(t) /\ Good(t) /\ lock[t] \in Locks
    BY DEF PriorityInv
  <2>3. CASE l # lock[t]
    BY <1>10, <2>2, <2>3 DEF Hidden, Take, PI!Store
  <2>4. CASE l = lock[t]
    BY <1>10, <2>2, <2>4 DEF Hidden, Take
  <2> QED
    BY <2>3, <2>4
<1>11. ASSUME NEW t \in Threads, First(t), UNCHANGED depth
      PROVE  \A l \in Locks : Hidden(l)'
  BY <1>0, <1>11 DEF First, Hidden
<1>12. ASSUME NEW t \in Threads, HasWaiters(t), UNCHANGED depth
      PROVE  \A l \in Locks : Hidden(l)'
  BY <1>0, <1>12 DEF HasWaiters, Hidden
<1>13. ASSUME NEW t \in Threads, Clear(t), UNCHANGED depth
      PROVE  \A l \in Locks : Hidden(l)'
  <2>1. SUFFICES ASSUME NEW l \in Locks
                 PROVE  Hidden(l)'
    OBVIOUS
  <2>2. Hidden(l) /\ Sane(t) /\ Good(t) /\ lock[t] \in Locks
    BY DEF PriorityInv
  <2>3. CASE l # lock[t]
    BY <1>13, <2>2, <2>3 DEF Hidden, Clear, PI!Store
  <2>4. CASE l = lock[t]
    <3>1. SUFFICES ASSUME waiting[l] # {}, ~breached[l], ~forgotten[l], ~alone[t]
                   PROVE  FALSE
      BY <1>13, <2>2, <2>4 DEF Hidden, Clear
    <3>2. at[t] = "clear" /\ Holds(t)
      BY <1>0, <1>13 DEF Clear, Holds
    <3> QED
      BY <2>2, <2>4, <3>1, <3>2 DEF Good, HolderOK
  <2> QED
    BY <2>3, <2>4
<1>14. ASSUME NEW t \in Threads, UnlockPI(t), UNCHANGED depth
      PROVE  \A l \in Locks : Hidden(l)'
  <2>1. SUFFICES ASSUME NEW l \in Locks
                 PROVE  Hidden(l)'
    OBVIOUS
  <2>2. Hidden(l) /\ Sane(t) /\ Good(t) /\ lock[t] \in Locks
    BY DEF PriorityInv
  <2>3. CASE l # lock[t]
    BY <1>14, <2>2, <2>3 DEF Hidden, UnlockPI, PI!HandOver, PI!UnlockRefused, PI!piVars
  <2>4. CASE l = lock[t] /\ PI!HandOver(t, l)
    <3>1. PICK w \in waiting[l] :
            /\ latch' = [latch EXCEPT ![l] = PI!Word(w, TRUE)]
            /\ waiting' = [waiting EXCEPT ![l] = @ \ {w}]
            /\ piOwner' = [piOwner EXCEPT
                             ![l] = IF waiting[l] = {w} THEN Nobody ELSE w]
      BY <2>4 DEF PI!HandOver
    <3>2. latch'[l] = PI!Word(w, TRUE)
      BY <3>1
    <3>3. waiting'[l] # {} => piOwner'[l] = w
      BY <3>1
    <3> QED
      BY <3>2, <3>3 DEF Hidden
  <2>5. CASE PI!UnlockRefused(t, lock[t])
    BY <1>14, <2>2, <2>5 DEF UnlockPI, Hidden, PI!UnlockRefused, PI!piVars
  <2> QED
    BY <1>14, <2>3, <2>4, <2>5 DEF UnlockPI
<1>15. CASE UNCHANGED <<priorityVars, depth>>
  BY <1>0, <1>15 DEF priorityVars, Hidden
<1> QED
  BY <1>1, <1>2, <1>3, <1>4, <1>5, <1>6, <1>7, <1>8, <1>9, <1>10, <1>11, <1>12,
     <1>13, <1>14, <1>15
     DEF CalledStep, Step

(* What the invariant says is true of the first state, ...                 *)
LEMMA InvInit ==
  ASSUME PriorityInit, depth = [t \in Threads |-> 0]
  PROVE  UseTypeOK /\ PriorityInv
<1>1. lock \in [Threads -> Locks]
  BY DEF PriorityInit
<1>2. latch \in [Locks -> [owner : Threads \cup {Nobody}, waiters : BOOLEAN]]
  <2>1. PI!Word(Nobody, FALSE) \in [owner : Threads \cup {Nobody}, waiters : BOOLEAN]
    BY WordType
  <2> QED
    BY <2>1 DEF PriorityInit, PI!PIInit
<1>3. UseTypeOK
  <2>1. PI!PITypeOK
    BY <1>2 DEF PriorityInit, PI!PIInit, PI!PITypeOK
  <2>2. /\ count \in [Locks -> Int] /\ at \in [Threads -> Labels]
        /\ acquiring \in [Threads -> BOOLEAN] /\ seen \in [Threads -> Int]
        /\ breached \in [Locks -> BOOLEAN] /\ forgotten \in [Locks -> BOOLEAN]
        /\ alone \in [Threads -> BOOLEAN]
    BY DEF PriorityInit, Labels
  <2>3. depth \in [Threads -> Nat]
    OBVIOUS
  <2> QED
    BY <1>1, <2>1, <2>2, <2>3 DEF UseTypeOK, PriorityTypeOK
<1>4. ASSUME NEW t \in Threads
      PROVE  at[t] = "idle" /\ depth[t] = 0 /\ ~Holds(t)
  <2>1. at[t] = "idle" /\ depth[t] = 0
    BY DEF PriorityInit
  <2> QED
    BY <2>1 DEF Holds
<1>5. \A l \in Locks : latch[l].owner = Nobody /\ ~latch[l].waiters /\ waiting[l] = {}
  BY DEF PriorityInit, PI!PIInit, PI!Word
<1> QED
  BY <1>3, <1>4, <1>5
     DEF PriorityInv, Sane, Good, OwnerOK, KernelOK, Hidden

(* ... and stays true.                                                     *)
LEMMA InvStep ==
  ASSUME UseTypeOK, PriorityInv, CalledStep
  PROVE  UseTypeOK' /\ PriorityInv'
<1>1. /\ \A t \in Threads : Sane(t)' /\ Good(t)'
      /\ \A l \in Locks : OwnerOK(l)' /\ KernelOK(l)' /\ Hidden(l)'
  BY SaneStep, GoodStep, KernelStep, HiddenStep
<1> QED
  BY <1>1, TypeStep DEF PriorityInv

LEMMA InvAlways ==
  Spec => [](UseTypeOK /\ PriorityInv)
<1>1. Init => UseTypeOK /\ PriorityInv
  BY InvInit DEF Init
<1>2. [Next]_useVars => CalledStep
  BY DEF Next, Acquire, Release, Run, CalledStep, useVars
<1> QED
  BY <1>1, <1>2, InvStep, PTL DEF Spec

(* The words, the counts and the kernel's lists keep their types.          *)
THEOREM PriorityTypeCorrect == Spec => []PriorityTypeOK
<1>1. UseTypeOK => PriorityTypeOK
  BY DEF UseTypeOK
<1> QED
  BY <1>1, InvAlways, PTL

(* One thread is inside and the lock counts its acquires: nested words of  *)
(* any depth balance, and the last release gives the lock up, unless       *)
(* priority-lock-wait-for/2 has let a second thread pass.                  *)
THEOREM OwnerCountsCorrect == Spec => []OwnerCounts
<1>1. UseTypeOK /\ PriorityInv => OwnerCounts
  <2>1. SUFFICES ASSUME UseTypeOK, PriorityInv, NEW t \in Threads,
                        ~breached[lock[t]], at[t] = "idle"
                 PROVE  IF depth[t] > 0
                        THEN latch[lock[t]].owner = t /\ count[lock[t]] = depth[t]
                        ELSE latch[lock[t]].owner # t
    BY DEF OwnerCounts
  <2>2. Good(t) /\ OwnerOK(lock[t])
    BY <2>1 DEF PriorityInv, UseTypeOK, PriorityTypeOK
  <2>3. CASE depth[t] > 0
    BY <2>1, <2>2, <2>3 DEF Good, Holds, HolderOK, Counted
  <2>4. CASE ~(depth[t] > 0)
    BY <2>1, <2>2, <2>4 DEF OwnerOK, Holds
  <2> QED
    BY <2>3, <2>4
<1> QED
  BY <1>1, InvAlways, PTL

(* A release finds FUTEX_WAITERS whenever somebody waits, unless           *)
(* priority-lock-acquire/2 has stored its id over the bit: until then the  *)
(* word names the owner the kernel knows, who has yet to give it up.       *)
THEOREM WaitersKnownCorrect == Spec => []WaitersKnown
<1>1. UseTypeOK /\ PriorityInv => WaitersKnown
  <2>1. SUFFICES ASSUME UseTypeOK, PriorityInv, NEW l \in Locks,
                        waiting[l] # {}, ~breached[l], ~forgotten[l]
                 PROVE  /\ latch[l] = PI!Word(piOwner[l], TRUE)
                        /\ \/ Inside(piOwner[l])
                           \/ at[piOwner[l]] \notin {"idle", "clear"}
                           \/ at[piOwner[l]] = "clear" /\ alone[piOwner[l]]
    BY DEF WaitersKnown
  <2>2. latch[l] = PI!Word(piOwner[l], TRUE)
    BY <2>1 DEF PriorityInv, Hidden
  <2>3. piOwner[l] \in Threads /\ latch[l].owner = piOwner[l]
    <3>1. PI!Word(piOwner[l], TRUE).owner = piOwner[l]
      BY DEF PI!Word
    <3>2. piOwner[l] \in Threads \cup {Nobody} /\ piOwner[l] # Nobody
      BY <2>1 DEF PriorityInv, KernelOK, UseTypeOK, PriorityTypeOK, PI!PITypeOK
    <3> QED
      BY <2>2, <3>1, <3>2
  <2>4. /\ lock[piOwner[l]] = l
        /\ Holds(piOwner[l]) \/ at[piOwner[l]] \in {"handed?", "take"}
    BY <2>1, <2>3 DEF PriorityInv, OwnerOK
  <2>5. Holds(piOwner[l]) => HolderOK(piOwner[l])
    BY <2>1, <2>3, <2>4 DEF PriorityInv, Good
  <2> QED
    BY <2>1, <2>2, <2>4, <2>5 DEF Inside, Holds, HolderOK
<1> QED
  BY <1>1, InvAlways, PTL
-----------------------------------------------------------------------------
(* The re-entrant lock behind the word and the count.                      *)
Acting(t) == at[t] \in {"idle", "ours?", "load-count", "store-count"}

(* A step that leaves the owner, the count and the owner's place alone     *)
(* changes nothing of it, ...                                              *)
LEMMA SameOwner ==
  ASSUME NEW l \in Locks, latch'[l].owner = latch[l].owner, count'[l] = count[l],
         latch[l].owner # Nobody
           => (Acting(latch[l].owner)' <=> Acting(latch[l].owner))
  PROVE  UNCHANGED <<Owner(l), Nest(l)>>
<1>1. Owner(l)' = Owner(l)
  BY DEF Owner, Acting
<1> QED
  BY <1>1 DEF Nest

(* ... and so does one of a thread the lock does not name.                 *)
LEMMA OthersStep ==
  ASSUME UseTypeOK, NEW t \in Threads, NEW l \in Locks,
         latch'[l] = latch[l], count'[l] = count[l], Only(t),
         latch[l].owner = t => (Acting(t)' <=> Acting(t))
  PROVE  UNCHANGED <<Owner(l), Nest(l)>>
<1>1. latch[l].owner \in Threads \cup {Nobody}
  BY DEF UseTypeOK, PriorityTypeOK, PI!PITypeOK
<1>2. latch[l].owner # Nobody
        => (Acting(latch[l].owner)' <=> Acting(latch[l].owner))
  BY <1>1 DEF Only, Acting
<1> QED
  BY <1>2, SameOwner

(* While a lock lets nobody else in, a step on it acquires it, releases it *)
(* or changes neither its owner nor how often it is acquired.              *)
LEMMA ReentrantStep ==
  ASSUME UseTypeOK, PriorityInv, CalledStep, NEW l \in Locks,
         ~breached[l], ~breached'[l]
  PROVE  [Reentrant(l)!Next]_<<Owner(l), Nest(l)>>
<1> USE DEF UseTypeOK, PriorityTypeOK, PI!PITypeOK, Goto, stackVars, histVars
<1>0. /\ \A t \in Threads : Sane(t) /\ Good(t)
      /\ OwnerOK(l) /\ KernelOK(l)
  BY DEF PriorityInv
<1>a. \A t \in Threads : latch[l].owner = t => lock[t] = l
  BY <1>0 DEF OwnerOK
<1>b. ASSUME NEW t \in Threads, Only(t), latch'[l] = latch[l], count'[l] = count[l],
             l = lock[t] => (Acting(t)' <=> Acting(t))
      PROVE  UNCHANGED <<Owner(l), Nest(l)>>
  BY <1>a, <1>b, OthersStep
<1>1. ASSUME NEW t \in Threads, StoreCount(t), UNCHANGED depth
      PROVE  [Reentrant(l)!Next]_<<Owner(l), Nest(l)>>
  <2>1. CASE l = lock[t]
    <3>1. /\ latch[l].owner = t /\ at[t] = "store-count"
          /\ seen[t] = count[l] /\ count[l] = Counted(t)
          /\ acquiring[t] => depth[t] > 1
      BY <1>0, <1>1, <2>1 DEF StoreCount, Good, Holds, HolderOK
    <3>2. Owner(l) = t /\ Nest(l) = count[l] /\ count[l] \in Int /\ count[l] >= 1
      BY <3>1 DEF Owner, Nest, Counted
    <3>3. CASE acquiring[t]
      <4>1. latch'[l].owner = t /\ at'[t] = "idle" /\ count'[l] = count[l] + 1
        BY <1>1, <2>1, <3>1, <3>3 DEF StoreCount
      <4>2. Owner(l)' = t /\ Nest(l)' = count[l] + 1
        BY <4>1 DEF Owner, Nest
      <4> QED
        BY <3>2, <4>2 DEF Reentrant!Next, Reentrant!Acquire
    <3>4. CASE ~acquiring[t]
      <4>1. latch'[l].owner = t /\ count'[l] = count[l] - 1
        BY <1>1, <2>1, <3>1, <3>2, <3>4 DEF StoreCount
      <4>2. CASE count[l] = 1
        <5>1. at'[t] = "waiters?"
          BY <1>1, <3>1, <3>4, <4>2 DEF StoreCount
        <5>2. Owner(l)' = Nobody /\ Nest(l)' = 0
          BY <4>1, <5>1 DEF Owner, Nest
        <5> QED
          BY <3>2, <4>2, <5>2 DEF Reentrant!Next, Reentrant!Release
      <4>3. CASE count[l] # 1
        <5>1. ~(seen[t] <= 1)
          BY <3>1, <3>2, <4>3
        <5>2. at'[t] = "idle"
          BY <1>1, <5>1 DEF StoreCount
        <5>3. Owner(l)' = t /\ Nest(l)' = count[l] - 1
          BY <4>1, <5>2 DEF Owner, Nest
        <5> QED
          BY <3>2, <4>3, <5>3 DEF Reentrant!Next, Reentrant!Release
      <4> QED
        BY <4>2, <4>3
    <3> QED
      BY <3>3, <3>4
  <2>2. CASE l # lock[t]
    BY <1>1, <1>b, <2>2 DEF StoreCount, Only
  <2> QED
    BY <2>1, <2>2
<1>2. ASSUME NEW t \in Threads, First(t), UNCHANGED depth
      PROVE  [Reentrant(l)!Next]_<<Owner(l), Nest(l)>>
  <2>1. CASE l = lock[t]
    <3>1. latch[l].owner = t /\ at[t] = "first"
      BY <1>0, <1>2, <2>1 DEF First, Good, Holds, HolderOK
    <3>2. Owner(l) = Nobody /\ Nest(l) = 0
      BY <3>1 DEF Owner, Nest
    <3>3. latch'[l].owner = t /\ at'[t] = "idle" /\ count'[l] = 1
      BY <1>2, <2>1, <3>1 DEF First
    <3>4. Owner(l)' = t /\ Nest(l)' = 1
      BY <3>3 DEF Owner, Nest
    <3> QED
      BY <3>2, <3>4 DEF Reentrant!Next, Reentrant!Acquire
  <2>2. CASE l # lock[t]
    BY <1>2, <1>b, <2>2 DEF First, Only
  <2> QED
    BY <2>1, <2>2
<1>3. ASSUME NEW t \in Threads, CallAcquire(t) \/ CallRelease(t)
      PROVE  UNCHANGED <<Owner(l), Nest(l)>>
  <2>1. latch'[l] = latch[l] /\ count'[l] = count[l]
    BY <1>3 DEF CallAcquire, CallRelease, Enter
  <2>2. Only(t) /\ (Acting(t)' <=> Acting(t))
    BY <1>3 DEF CallAcquire, CallRelease, Enter, Only, Acting
  <2> QED
    BY <1>b, <2>1, <2>2
<1>4. ASSUME NEW t \in Threads, IsOurs(t), UNCHANGED depth
      PROVE  UNCHANGED <<Owner(l), Nest(l)>>
  <2>1. latch[l].owner = t => (Acting(t)' <=> Acting(t))
    BY <1>4, <1>a DEF IsOurs, Ours, Acting
  <2>2. Only(t) /\ latch'[l] = latch[l] /\ count'[l] = count[l]
    BY <1>4 DEF IsOurs, Only
  <2> QED
    BY <2>1, <2>2, OthersStep
<1>5. ASSUME NEW t \in Threads, UNCHANGED depth,
             LoadCount(t) \/ IsLocked(t) \/ Handed(t) \/ HasWaiters(t)
      PROVE  UNCHANGED <<Owner(l), Nest(l)>>
  <2>1. latch'[l] = latch[l] /\ count'[l] = count[l]
    BY <1>5 DEF LoadCount, IsLocked, Handed, HasWaiters
  <2>2. Only(t)
    BY <1>5 DEF LoadCount, IsLocked, Handed, HasWaiters, Grant, Only
  <2>3. Acting(t)' <=> Acting(t)
    <3>1. CASE LoadCount(t)
      BY <3>1 DEF LoadCount, Acting
    <3>2. CASE IsLocked(t)
      BY <3>2 DEF IsLocked, Grant, Acting
    <3>3. CASE Handed(t)
      BY <3>3 DEF Handed, Grant, Acting
    <3>4. CASE HasWaiters(t)
      BY <3>4 DEF HasWaiters, Acting
    <3> QED
      BY <1>5, <3>1, <3>2, <3>3, <3>4
  <2> QED
    BY <1>b, <2>1, <2>2, <2>3
<1>6. ASSUME NEW t \in Threads, LockPI(t), UNCHANGED depth
      PROVE  UNCHANGED <<Owner(l), Nest(l)>>
  <2>1. /\ count' = count /\ Only(t)
        /\ at[t] = "lock-pi" /\ at'[t] = "handed?" /\ lock[t] \in Locks
    BY <1>6 DEF LockPI, Only
  <2>2. CASE l # lock[t]
    <3>1. latch'[l] = latch[l]
      BY <1>6, <2>2 DEF LockPI, PI!LockFree, PI!LockBlocks, PI!Store
    <3> QED
      BY <1>b, <2>1, <2>2, <3>1
  <2>3. CASE l = lock[t] /\ PI!LockFree(t, l)
    <3>1. latch[l].owner = Nobody /\ latch'[l].owner = t
      BY <2>3 DEF PI!LockFree, PI!Store, PI!Word
    <3> QED
      BY <2>1, <3>1 DEF Owner, Nest
  <2>4. CASE l = lock[t] /\ PI!LockBlocks(t, l)
    <3>1. latch'[l].owner = latch[l].owner
      <4>1. PI!Word(latch[l].owner, TRUE).owner = latch[l].owner
        BY DEF PI!Word
      <4>2. latch' = [latch EXCEPT ![l] = PI!Word(latch[l].owner, TRUE)]
              => latch'[l].owner = latch[l].owner
        BY <4>1
      <4> QED
        BY <2>4, <4>2 DEF PI!LockBlocks
    <3>2. latch[l].owner \in Threads \cup {Nobody}
      OBVIOUS
    <3>3. latch[l].owner # Nobody
            => (at'[latch[l].owner] \in {"idle", "ours?", "load-count", "store-count"}
                  <=> at[latch[l].owner] \in {"idle", "ours?", "load-count", "store-count"})
      BY <2>1, <3>2 DEF Only
    <3> QED
      BY <2>1, <3>1, <3>3, SameOwner DEF Acting
  <2> QED
    BY <1>6, <2>2, <2>3, <2>4 DEF LockPI
<1>7. ASSUME NEW t \in Threads, LockFails(t), UNCHANGED depth
      PROVE  UNCHANGED <<Owner(l), Nest(l)>>
  <2>1. l # lock[t]
    BY <1>7 DEF LockFails
  <2>2. Only(t) /\ latch'[l] = latch[l] /\ count'[l] = count[l]
    BY <1>7 DEF LockFails, PI!LockRefused, PI!piVars, Only
  <2> QED
    BY <1>b, <2>1, <2>2
<1>8. ASSUME NEW t \in Threads, Take(t), UNCHANGED depth
      PROVE  UNCHANGED <<Owner(l), Nest(l)>>
  <2>1. CASE l = lock[t]
    <3>1. at[t] = "take" /\ TakerOK(t)
      BY <1>0, <1>8, <2>1 DEF Take, Good
    <3>2. latch[l].owner \in Threads => ~Acting(latch[l].owner)
      BY <1>0, <2>1, <3>1 DEF OwnerOK, TakerOK, Acting
    <3>3. Owner(l) = Nobody
      BY <3>2 DEF Owner, Acting
    <3>4. latch'[l].owner = t /\ at'[t] = "first"
      BY <1>8, <2>1 DEF Take, PI!Store, PI!Word
    <3>5. Owner(l)' = Nobody
      BY <3>4 DEF Owner
    <3> QED
      BY <3>3, <3>5 DEF Nest
  <2>2. CASE l # lock[t]
    BY <1>8, <1>b, <2>2 DEF Take, PI!Store, Only
  <2> QED
    BY <2>1, <2>2
<1>9. ASSUME NEW t \in Threads, Clear(t), UNCHANGED depth
      PROVE  UNCHANGED <<Owner(l), Nest(l)>>
  <2>1. CASE l = lock[t]
    <3>1. latch[l].owner = t /\ at[t] = "clear"
      BY <1>0, <1>9, <2>1 DEF Clear, Good, Holds, HolderOK
    <3>2. latch'[l].owner = Nobody
      BY <1>9, <2>1 DEF Clear, PI!Store, PI!Word
    <3> QED
      BY <3>1, <3>2 DEF Owner, Nest
  <2>2. CASE l # lock[t]
    BY <1>9, <1>b, <2>2 DEF Clear, PI!Store, Only
  <2> QED
    BY <2>1, <2>2
<1>10. ASSUME NEW t \in Threads, UnlockPI(t), UNCHANGED depth
       PROVE  UNCHANGED <<Owner(l), Nest(l)>>
  <2>1. CASE l = lock[t]
    <3>1. /\ latch[l].owner = t /\ latch[l].waiters /\ at[t] = "unlock-pi"
      BY <1>0, <1>10, <2>1 DEF UnlockPI, Good, Holds, HolderOK
    <3>2. ~PI!UnlockRefused(t, l)
      BY <1>0, <3>1 DEF KernelOK, PI!UnlockRefused
    <3>3. PICK w \in waiting[l] : latch' = [latch EXCEPT ![l] = PI!Word(w, TRUE)]
      BY <1>10, <2>1, <3>2 DEF UnlockPI, PI!HandOver
    <3>4. at[w] = "handed?" /\ w \in Threads
      BY <1>0, <3>3 DEF KernelOK
    <3>5. at' = [at EXCEPT ![t] = "idle"] /\ w # t
      BY <1>10, <3>1, <3>4 DEF UnlockPI
    <3>6. latch'[l].owner = w /\ at'[w] = "handed?"
      BY <3>3, <3>4, <3>5 DEF PI!Word
    <3> QED
      BY <3>1, <3>6 DEF Owner, Nest
  <2>2. CASE l # lock[t]
    <3>1. latch'[l] = latch[l] /\ count'[l] = count[l] /\ Only(t)
      BY <1>10, <2>2 DEF UnlockPI, PI!HandOver, PI!UnlockRefused, PI!piVars, Only
    <3> QED
      BY <1>b, <2>2, <3>1
  <2> QED
    BY <2>1, <2>2
<1>11. CASE UNCHANGED <<priorityVars, depth>>
  <2>1. latch'[l] = latch[l] /\ count'[l] = count[l] /\ at' = at
    BY <1>11 DEF priorityVars
  <2> QED
    BY <2>1, SameOwner DEF Acting
<1> QED
  BY <1>1, <1>2, <1>3, <1>4, <1>5, <1>6, <1>7, <1>8, <1>9, <1>10, <1>11
     DEF CalledStep, Step

(* For every number of threads and locks: as long as a lock has not let a  *)
(* second thread in, its threads and the kernel together do no more to it  *)
(* than acquire and release one re-entrant lock.                           *)
THEOREM PriorityImplements == Spec => PriorityLockIsReentrant
<1>1. Init => \A l \in Locks : Reentrant(l)!Init
  BY DEF Init, PriorityInit, PI!PIInit, PI!Word, Owner, Nest, Reentrant!Init
<1>2. [Next]_useVars => CalledStep
  BY DEF Next, Acquire, Release, Run, CalledStep, useVars
<1>3. UseTypeOK /\ PriorityInv /\ [Next]_useVars
        => [\A l \in Locks :
              breached[l] \/ breached[l]' \/ [Reentrant(l)!Next]_<<Owner(l), Nest(l)>>]_useVars
  BY <1>2, ReentrantStep
<1> QED
  BY <1>1, <1>3, InvAlways, PTL DEF Spec, PriorityLockIsReentrant
=============================================================================
