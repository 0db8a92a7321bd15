--------------------------- MODULE MailboxProofs ---------------------------
(***************************************************************************)
(* The mailbox, for any number of producers and consumers and every size   *)
(* of the buffer.  It uses its two priority locks as PriorityLockUse does, *)
(* one acquire deep, so what is proved of them there holds here.           *)
(***************************************************************************)
EXTENDS Mailbox, RingBufferProofs

U == INSTANCE PriorityLockProofs WITH
  depth <- [t \in Threads |-> IF stage[t] \in {"locking", "working"} THEN 1 ELSE 0],
  uses <- [t \in Threads |-> 0], MaxDepth <- 1, MaxUses <- 1

Stages == {"idle", "waiting", "locking", "working", "releasing"}

(* Between mailbox-push/3 or -pop/2, the ring buffer and the lock only one *)
(* is in progress, and the lock is the one of the thread's side.           *)
StageOK(t) ==
  /\ stage[t] \in {"idle", "waiting", "working"} => at[t] = "idle"
  /\ stage[t] \notin {"waiting", "working"} => pc[t] = "idle"
  /\ stage[t] \in {"locking", "working", "releasing"} => lock[t] = SideOf(t)
  /\ stage[t] = "locking" => acquiring[t]
  /\ stage[t] = "releasing" => ~acquiring[t]

StagesOK ==
  /\ stage \in [Threads -> Stages]
  /\ pc \in [Threads -> Labels]
  /\ \A t \in Threads : StageOK(t)

LockInv == U!UseTypeOK /\ U!PriorityInv

LEMMA UseAssumed == U!PriorityLockAssumption /\ U!UseAssumption
  BY MailboxAssumption DEF MailboxAssumption, U!PriorityLockAssumption, U!UseAssumption, Locks

(* The words of the lock are the same in both instances.                   *)
LEMMA SameStep ==
  ASSUME NEW t \in Threads
  PROVE  L!Step(t) <=> U!Step(t)
<1> USE DEF L!Goto, U!Goto, L!stackVars, U!stackVars, L!histVars, U!histVars, L!Ours, U!Ours
<1>1. (L!IsOurs(t) <=> U!IsOurs(t)) /\ (L!LoadCount(t) <=> U!LoadCount(t))
  BY DEF L!IsOurs, U!IsOurs, L!LoadCount, U!LoadCount
<1>2. L!StoreCount(t) <=> U!StoreCount(t)
  BY DEF L!StoreCount, U!StoreCount
<1>3. L!IsLocked(t) <=> U!IsLocked(t)
  BY DEF L!IsLocked, U!IsLocked, L!Grant, U!Grant, L!PI!Word, U!PI!Word
<1>4. L!LockPI(t) <=> U!LockPI(t)
  BY DEF L!LockPI, U!LockPI, L!PI!LockFree, U!PI!LockFree, L!PI!LockBlocks, U!PI!LockBlocks,
         L!PI!Store, U!PI!Store, L!PI!Word, U!PI!Word
<1>5. L!LockFails(t) <=> U!LockFails(t)
  BY DEF L!LockFails, U!LockFails, L!PI!LockRefused, U!PI!LockRefused, L!PI!piVars,
         U!PI!piVars
<1>6. L!Handed(t) <=> U!Handed(t)
  BY DEF L!Handed, U!Handed, L!Grant, U!Grant
<1>7. (L!Take(t) <=> U!Take(t)) /\ (L!First(t) <=> U!First(t))
  BY DEF L!Take, U!Take, L!First, U!First, L!PI!Store, U!PI!Store, L!PI!Word, U!PI!Word
<1>8. (L!HasWaiters(t) <=> U!HasWaiters(t)) /\ (L!Clear(t) <=> U!Clear(t))
  BY DEF L!HasWaiters, U!HasWaiters, L!Clear, U!Clear, L!PI!Store, U!PI!Store, L!PI!Word,
         U!PI!Word
<1>9. L!UnlockPI(t) <=> U!UnlockPI(t)
  BY DEF L!UnlockPI, U!UnlockPI, L!PI!HandOver, U!PI!HandOver, L!PI!UnlockRefused,
         U!PI!UnlockRefused, L!PI!piVars, U!PI!piVars, L!PI!Word, U!PI!Word
<1> QED
  BY <1>1, <1>2, <1>3, <1>4, <1>5, <1>6, <1>7, <1>8, <1>9 DEF L!Step, U!Step

(* What a step of either part leaves alone.                                *)
LEMMA LockMoves ==
  ASSUME NEW t \in Threads, L!Step(t)
  PROVE  /\ at[t] # "idle" /\ UNCHANGED <<lock, acquiring>>
         /\ \A s \in Threads \ {t} : at'[s] = at[s]
<1> USE DEF L!Goto, L!stackVars, L!histVars
<1>1. at[t] # "idle" /\ UNCHANGED <<lock, acquiring>>
  BY DEF L!Step, L!IsOurs, L!LoadCount, L!StoreCount, L!IsLocked, L!LockPI, L!LockFails,
         L!Handed, L!Take, L!First, L!HasWaiters, L!Clear, L!UnlockPI
<1>2. \E label : at' = [at EXCEPT ![t] = label]
  BY DEF L!Step, L!IsOurs, L!LoadCount, L!StoreCount, L!IsLocked, L!LockPI, L!LockFails,
         L!Handed, L!Take, L!First, L!HasWaiters, L!Clear, L!UnlockPI, L!Grant
<1>3. PICK label : at' = [at EXCEPT ![t] = label]
  BY <1>2
<1> QED
  BY <1>1, <1>3

LEMMA RingMoves ==
  ASSUME NEW t \in Threads, Step(t), pc \in [Threads -> Labels]
  PROVE  /\ pc[t] # "idle" /\ pc' \in [Threads -> Labels]
         /\ \A s \in Threads \ {t} : pc'[s] = pc[s]
<1>1. pc[t] # "idle"
  BY DEF Step, LoadIn, LoadOut, Expect, FutexEnter, LoadSlot, Access, LoadInc, StoreInc, Wake
<1>2. \E label \in Labels : pc' = [pc EXCEPT ![t] = label]
  BY DEF Step, LoadIn, LoadOut, WaitDone, WaitFailed, WaitAgain, WaitBegin, Refuse, Proceed,
         Expect, FutexEnter, LoadSlot, Access, LoadInc, StoreInc, Wake, Return, Goto, Labels
<1>3. PICK label \in Labels : pc' = [pc EXCEPT ![t] = label]
  BY <1>2
<1> QED
  BY <1>1, <1>3

LEMMA StagesStep ==
  ASSUME StagesOK, LockInv, [Next]_vars
  PROVE  StagesOK'
<1>a. /\ at \in [Threads -> U!Labels] /\ lock \in [Threads -> Locks]
      /\ acquiring \in [Threads -> BOOLEAN]
  BY DEF LockInv, U!UseTypeOK, U!PriorityTypeOK
<1> USE <1>a DEF StagesOK, StageOK, Stages, Stage, Done, lockVars, SideOf
<1>1. ASSUME NEW t \in Threads, MailboxCall(t)
      PROVE  StagesOK'
  BY <1>1 DEF MailboxCall, Call, Goto, Labels
<1>2. ASSUME NEW t \in Threads, GiveUp(t)
      PROVE  StagesOK'
  BY <1>2 DEF GiveUp, ringVars
<1>3. ASSUME NEW t \in Threads, Acquire(t)
      PROVE  StagesOK'
  BY <1>3 DEF Acquire, ringVars, L!Enter, L!Goto
<1>4. ASSUME NEW t \in Threads, Work(t)
      PROVE  StagesOK'
  BY <1>4 DEF Work, Call, Goto, Labels
<1>5. ASSUME NEW t \in Threads, Release(t)
      PROVE  StagesOK'
  BY <1>5 DEF Release, ringVars, L!Enter, L!Goto
<1>6. ASSUME NEW t \in Threads, Finish(t)
      PROVE  StagesOK'
  BY <1>6 DEF Finish, ringVars
<1>7. ASSUME NEW t \in Threads, Step(t), UNCHANGED <<lockVars, mailVars>>
      PROVE  StagesOK'
  BY <1>7, RingMoves DEF mailVars
<1>8. ASSUME NEW t \in Threads, L!Step(t), UNCHANGED <<ringVars, mailVars>>
      PROVE  StagesOK'
  BY <1>8, LockMoves DEF mailVars, ringVars
<1>9. ASSUME NEW t \in Threads, Timer(t)
      PROVE  StagesOK'
  BY <1>9 DEF Timer, TimeOut, mailVars
<1>10. CASE UNCHANGED vars
  BY <1>10 DEF vars, ringVars, mailVars
<1> QED
  BY <1>1, <1>2, <1>3, <1>4, <1>5, <1>6, <1>7, <1>8, <1>9, <1>10
     DEF Next, MailboxPush, MailboxPop, Inside

(* The mailbox acquires a lock it does not have, and releases that one.    *)
LEMMA UseStep ==
  ASSUME StagesOK, LockInv, [Next]_vars
  PROVE  U!CalledStep
<1> DEFINE depth == [t \in Threads |-> IF stage[t] \in {"locking", "working"} THEN 1 ELSE 0]
<1>a. at \in [Threads -> U!Labels] /\ lock \in [Threads -> Locks]
  BY DEF LockInv, U!UseTypeOK, U!PriorityTypeOK
<1>b. ASSUME UNCHANGED <<lockVars, stage>>
      PROVE  U!CalledStep
  BY <1>b DEF U!CalledStep, U!priorityVars, lockVars
<1>1. ASSUME NEW t \in Threads, MailboxCall(t) \/ GiveUp(t) \/ Work(t) \/ Finish(t)
      PROVE  U!CalledStep
  <2>1. UNCHANGED lockVars
    BY <1>1 DEF MailboxCall, GiveUp, Work, Finish
  <2>2. depth' = depth
    BY <1>1 DEF MailboxCall, GiveUp, Work, Finish, Stage, Done, StagesOK
  <2> QED
    BY <2>1, <2>2 DEF U!CalledStep, U!priorityVars, lockVars
<1>2. ASSUME NEW t \in Threads, Acquire(t)
      PROVE  U!CalledStep
  <2>1. stage[t] = "waiting" /\ stage' = [stage EXCEPT ![t] = "locking"]
    BY <1>2 DEF Acquire, Done, Stage
  <2>2. depth[t] = 0 /\ depth' = [depth EXCEPT ![t] = 1]
    BY <2>1 DEF StagesOK
  <2>3. U!Enter(t, SideOf(t), TRUE) /\ SideOf(t) \in Locks
    BY <1>2 DEF Acquire, L!Enter, U!Enter, L!Goto, U!Goto, L!histVars, U!histVars, SideOf, Locks
  <2>4. ~(depth[t] > 0) /\ depth[t] + 1 = 1
    BY <2>2
  <2>5. depth' = [depth EXCEPT ![t] = @ + 1]
    BY <2>2, <2>4
  <2> HIDE DEF depth
  <2>6. /\ \E l \in Locks : (depth[t] > 0 => lock[t] = l) /\ U!Enter(t, l, TRUE)
        /\ depth' = [depth EXCEPT ![t] = @ + 1]
    BY <2>3, <2>4, <2>5
  <2> USE DEF depth
  <2>7. U!CallAcquire(t)
    BY <2>6 DEF U!CallAcquire
  <2> QED
    BY <2>7 DEF U!CalledStep
<1>3. ASSUME NEW t \in Threads, Release(t)
      PROVE  U!CalledStep
  <2>1. stage[t] = "working" /\ stage' = [stage EXCEPT ![t] = "releasing"]
    BY <1>3 DEF Release, Done, Stage
  <2>2. depth[t] = 1 /\ depth' = [depth EXCEPT ![t] = 0]
    BY <2>1 DEF StagesOK
  <2>3. U!Enter(t, lock[t], FALSE)
    BY <1>3, <2>1 DEF Release, StagesOK, StageOK, L!Enter, U!Enter, L!Goto, U!Goto,
                L!histVars, U!histVars
  <2>4. depth[t] > 0 /\ depth[t] - 1 = 0
    BY <2>2
  <2>5. depth' = [depth EXCEPT ![t] = @ - 1]
    BY <2>2, <2>4
  <2> HIDE DEF depth
  <2>6. depth[t] > 0 /\ U!Enter(t, lock[t], FALSE) /\ depth' = [depth EXCEPT ![t] = @ - 1]
    BY <2>3, <2>4, <2>5
  <2> USE DEF depth
  <2>7. U!CallRelease(t)
    BY <2>6 DEF U!CallRelease
  <2> QED
    BY <2>7 DEF U!CalledStep
<1>4. ASSUME NEW t \in Threads, L!Step(t), UNCHANGED mailVars
      PROVE  U!CalledStep
  BY <1>4, SameStep DEF U!CalledStep, mailVars
<1>5. ASSUME NEW t \in Threads, Timer(t) \/ (Step(t) /\ UNCHANGED <<lockVars, mailVars>>)
      PROVE  U!CalledStep
  BY <1>b, <1>5 DEF Timer, mailVars
<1>6. CASE UNCHANGED vars
  BY <1>b, <1>6 DEF vars, mailVars
<1> QED
  BY <1>1, <1>2, <1>3, <1>4, <1>5, <1>6 DEF Next, MailboxPush, MailboxPop, Inside

LEMMA LocksStep ==
  ASSUME StagesOK, LockInv, [Next]_vars
  PROVE  StagesOK' /\ LockInv'
<1>1. U!CalledStep
  BY UseStep
<1>2. U!UseTypeOK' /\ U!PriorityInv'
  BY <1>1, UseAssumed, U!InvStep DEF LockInv
<1> QED
  BY <1>2, StagesStep DEF LockInv

LEMMA LocksInit == Init => StagesOK /\ LockInv
<1> SUFFICES ASSUME Init PROVE StagesOK /\ LockInv
  OBVIOUS
<1>1. /\ stage = [t \in Threads |-> "idle"] /\ at = [t \in Threads |-> "idle"]
      /\ pc = [t \in Threads |-> "idle"]
  BY DEF Init, RingInit, L!PriorityInit
<1>2. StagesOK
  BY <1>1 DEF StagesOK, StageOK, Stages, Labels
<1>3. U!PriorityInit
  BY DEF Init, L!PriorityInit, U!PriorityInit, L!PI!PIInit, U!PI!PIInit, L!PI!Word, U!PI!Word
<1>4. [t \in Threads |-> IF stage[t] \in {"locking", "working"} THEN 1 ELSE 0]
        = [t \in Threads |-> 0]
  BY <1>1
<1>5. U!UseTypeOK /\ U!PriorityInv
  BY <1>3, <1>4, UseAssumed, U!InvInit
<1> QED
  BY <1>2, <1>5 DEF LockInv

LEMMA LocksCorrect == Spec => [](StagesOK /\ LockInv)
<1>1. StagesOK /\ LockInv /\ [Next]_vars => (StagesOK /\ LockInv)'
  BY LocksStep
<1> QED
  BY <1>1, LocksInit, PTL DEF Spec

(* Whoever works on a side holds its lock, and the word of the lock names  *)
(* one thread.                                                             *)
LEMMA WorkerHolds == StagesOK /\ LockInv => OneWorker
<1> SUFFICES ASSUME StagesOK, LockInv, NEW t \in Threads, ~breached[SideOf(t)]
             PROVE  /\ Working(t) => latch[SideOf(t)].owner = t
                    /\ Done(t, "idle") => latch[SideOf(t)].owner # t
  BY DEF OneWorker
<1> DEFINE depth == [s \in Threads |-> IF stage[s] \in {"locking", "working"} THEN 1 ELSE 0]
<1>1. /\ U!Good(t) /\ U!OwnerOK(SideOf(t)) /\ StageOK(t) /\ stage[t] \in Stages
      /\ depth[t] = IF stage[t] \in {"locking", "working"} THEN 1 ELSE 0
  BY DEF LockInv, U!PriorityInv, SideOf, Locks, StagesOK
<1>2. ASSUME Working(t)
      PROVE  latch[SideOf(t)].owner = t
  <2>1. lock[t] = SideOf(t)
    BY <1>1, <1>2 DEF Working, Done, StageOK
  <2>2. U!Holds(t)
    BY <1>1, <1>2 DEF Working, Done, StageOK, U!Holds
  <2> QED
    BY <1>1, <2>1, <2>2 DEF U!Good, U!HolderOK
<1>3. ASSUME Done(t, "idle")
      PROVE  latch[SideOf(t)].owner # t
  <2>1. ~U!Holds(t) /\ at[t] = "idle"
    BY <1>1, <1>3 DEF Done, U!Holds
  <2> QED
    BY <1>1, <2>1 DEF U!OwnerOK
<1> QED
  BY <1>2, <1>3

(* One thread works on a side of the ring buffer at a time, the word of    *)
(* the lock names it, and whoever has returned from mailbox-push/3 or      *)
(* mailbox-pop/2 has given the lock up, unless the lock has let a second   *)
(* thread in.                                                              *)
THEOREM OneWorkerCorrect == Spec => []OneWorker
  BY WorkerHolds, LocksCorrect, PTL
-----------------------------------------------------------------------------
(* What the mailbox calls are words of the ring buffer.                    *)
LEMMA CallsStep ==
  ASSUME NEW t \in Threads, MailboxCall(t) \/ Work(t)
  PROVE  \E c \in Calls : Call(t, c)
<1>1. ASSUME MailboxCall(t)
      PROVE  \E c \in Calls : Call(t, c)
  BY <1>1 DEF MailboxCall, WaitCall, Calls, Words
<1>2. ASSUME Work(t), t \in Consumers
      PROVE  \E c \in Calls : Call(t, c)
  BY <1>2 DEF Work, Calls, Words
<1>3. ASSUME Work(t), t \notin Consumers
      PROVE  \E c \in Calls : Call(t, c)
  <2>1. t \in Msgs
    BY <1>3, MailboxAssumption DEF MailboxAssumption
  <2> QED
    BY <1>3, <2>1 DEF Work, Calls, Words
<1> QED
  BY <1>1, <1>2, <1>3

LEMMA RingStep == RingTypeOK /\ [Next]_vars => RingTypeOK'
<1> SUFFICES ASSUME RingTypeOK, [Next]_vars
             PROVE  RingTypeOK'
  OBVIOUS
<1>1. ASSUME NEW t \in Threads, MailboxCall(t) \/ Work(t)
      PROVE  RingTypeOK'
  BY <1>1, CallsStep, RingTypeStep
<1>2. ASSUME NEW t \in Threads, Step(t) \/ TimeOut(t)
      PROVE  RingTypeOK'
  BY <1>2, RingTypeStep DEF Kernel
<1>3. ASSUME UNCHANGED ringVars
      PROVE  RingTypeOK'
  BY <1>3 DEF ringVars, RingTypeOK, F!FutexTypeOK
<1>4. ASSUME NEW t \in Threads, GiveUp(t) \/ Acquire(t) \/ Release(t) \/ Finish(t)
      PROVE  UNCHANGED ringVars
  BY <1>4 DEF GiveUp, Acquire, Release, Finish
<1>5. UNCHANGED vars => UNCHANGED ringVars
  BY DEF vars
<1> QED
  BY <1>1, <1>2, <1>3, <1>4, <1>5 DEF Next, MailboxPush, MailboxPop, Inside, Timer

LEMMA PushesStep == pushes \in 0 .. MaxPushes /\ [Next]_vars => pushes' \in 0 .. MaxPushes
<1> USE MailboxAssumption DEF MailboxAssumption
<1> SUFFICES ASSUME pushes \in 0 .. MaxPushes, [Next]_vars
             PROVE  pushes' \in 0 .. MaxPushes
  OBVIOUS
<1>1. ASSUME NEW t \in Threads, MailboxPush(t)
      PROVE  pushes' \in 0 .. MaxPushes
  BY <1>1 DEF MailboxPush
<1>2. ASSUME NEW t \in Threads,
             \/ MailboxPop(t) \/ GiveUp(t) \/ Acquire(t) \/ Work(t) \/ Release(t)
             \/ Finish(t) \/ Inside(t) \/ Timer(t)
      PROVE  pushes' \in 0 .. MaxPushes
  BY <1>2 DEF MailboxPop, GiveUp, Acquire, Work, Release, Finish, Inside, Timer, mailVars
<1>3. CASE UNCHANGED vars
  BY <1>3 DEF vars, mailVars
<1> QED
  BY <1>1, <1>2, <1>3 DEF Next

(* Every variable of the mailbox keeps its type, those of its ring buffer  *)
(* and of its two locks included.                                          *)
THEOREM MailTypeCorrect == Spec => []MailTypeOK
<1>1. Init => RingTypeOK /\ pushes \in 0 .. MaxPushes
  BY RingInitType, MailboxAssumption DEF Init, MailboxAssumption
<1>2. RingTypeOK /\ pushes \in 0 .. MaxPushes /\ [Next]_vars
      => (RingTypeOK /\ pushes \in 0 .. MaxPushes)'
  BY RingStep, PushesStep
<1>3. RingTypeOK /\ pushes \in 0 .. MaxPushes /\ StagesOK /\ LockInv => MailTypeOK
  BY DEF MailTypeOK, StagesOK, Stages, LockInv, U!UseTypeOK, U!PriorityTypeOK,
         L!PriorityTypeOK, U!PI!PITypeOK, L!PI!PITypeOK,
         U!Labels, L!Labels
<1> QED
  BY <1>1, <1>2, <1>3, LocksCorrect, PTL DEF Spec
-----------------------------------------------------------------------------
(* The inductive invariant behind MailArrives: the word a thread runs is   *)
(* the one its stage calls for, and while no lock has let a second thread  *)
(* in, what the thread that works on a side has loaded of its index is     *)
(* current, and the other side has only made more room or more messages.   *)
Copying == {"slot", "access", "load-inc", "store-inc"}

CallOK(t) ==
  /\ stage[t] = "waiting" => call[t].word \in Waits
  /\ stage[t] = "working" => IF t \in Consumers THEN call[t].word = "pop"
                             ELSE call[t].word = "push" /\ call[t].msg = t
  /\ pc[t] \in Copying => call[t].word \notin Waits

PusherOK(t) ==
  /\ pc[t] = "load-out" => seenIn[t] = inIndex
  /\ pc[t] \in Copying => ~Full(inIndex, outIndex)
  /\ pc[t] \in {"access", "store-inc"} => index[t] = inIndex
  /\ pc[t] \in {"load-inc", "store-inc"} => buffer[inIndex] = t

PopperOK(t) ==
  /\ pc[t] = "load-out" => Ahead(outIndex, seenIn[t]) <= Ahead(outIndex, inIndex)
  /\ pc[t] \in Copying => ~Empty(inIndex, outIndex)
  /\ pc[t] \in {"access", "store-inc"} => index[t] = outIndex
  /\ pc[t] \in {"load-inc", "store-inc"} => held[t] = buffer[outIndex]

WorkOK(t) ==
  stage[t] = "working" => IF t \in Consumers THEN PopperOK(t) ELSE PusherOK(t)

WorkInv == (\A t \in Threads : CallOK(t)) /\ (~Breached => \A t \in Threads : WorkOK(t))

(* The steps of one thread, and of the kernel beside it.                   *)
ThreadStep(t) ==
  \/ MailboxPush(t) \/ MailboxPop(t) \/ GiveUp(t) \/ Acquire(t) \/ Work(t)
  \/ Release(t) \/ Finish(t) \/ Inside(t) \/ Timer(t)

(* Those that move a thread from one part of the mailbox to the next.      *)
StageMove(t) == GiveUp(t) \/ Acquire(t) \/ Release(t) \/ Finish(t)

(* The others' place, call and loads are theirs.                           *)
Others(t) ==
  \A s \in Threads \ {t} :
    /\ stage'[s] = stage[s] /\ pc'[s] = pc[s] /\ call'[s] = call[s]
    /\ seenIn'[s] = seenIn[s] /\ index'[s] = index[s] /\ held'[s] = held[s]

LEMMA RingOthers ==
  ASSUME RingTypeOK, NEW t \in Threads, Step(t), UNCHANGED stage
  PROVE  Others(t) /\ UNCHANGED call
<1> USE DEF RingTypeOK, Others, Goto, stackVars
<1>1. CASE LoadOut(t)
  BY <1>1 DEF LoadOut, WaitDone, WaitFailed, WaitAgain, WaitBegin, Refuse, Proceed, Return
<1>2. CASE LoadIn(t) \/ Expect(t) \/ FutexEnter(t) \/ LoadSlot(t) \/ LoadInc(t)
  BY <1>2 DEF LoadIn, Expect, FutexEnter, LoadSlot, LoadInc
<1>3. CASE Access(t) \/ StoreInc(t) \/ Wake(t)
  BY <1>3 DEF Access, StoreInc, Wake, Return
<1> QED
  BY <1>1, <1>2, <1>3 DEF Step

(* A lock that has let a second thread in is not forgotten.                *)
LEMMA BreachedStays ==
  ASSUME LockInv, NEW t \in Threads, ThreadStep(t), Breached
  PROVE  Breached'
<1> USE DEF L!Goto, L!histVars
<1>1. breached \in [Locks -> BOOLEAN] /\ lock \in [Threads -> Locks]
  BY DEF LockInv, U!UseTypeOK, U!PriorityTypeOK
<1>2. CASE L!Step(t)
  <2>1. \/ UNCHANGED breached
        \/ \E b \in BOOLEAN : breached' = [breached EXCEPT ![lock[t]] = @ \/ b]
    BY <1>2 DEF L!Step, L!IsOurs, L!LoadCount, L!StoreCount, L!IsLocked, L!LockPI,
                L!LockFails, L!Handed, L!Take, L!First, L!HasWaiters, L!Clear,
                L!UnlockPI, L!Grant
  <2> QED
    BY <1>1, <2>1 DEF Breached
<1>3. CASE ~L!Step(t)
  <2>1. UNCHANGED breached
    BY <1>3 DEF ThreadStep, MailboxPush, MailboxPop, MailboxCall, GiveUp, Acquire,
                Work, Release, Finish, Inside, Timer, L!Enter, lockVars
  <2> QED
    BY <2>1 DEF Breached
<1> QED
  BY <1>2, <1>3

(* A thread runs the word its stage calls for.                             *)
LEMMA CallsKept ==
  ASSUME RingTypeOK, StagesOK, \A s \in Threads : CallOK(s), NEW t \in Threads, ThreadStep(t)
  PROVE  \A s \in Threads : CallOK(s)'
<1> USE DEF CallOK, RingTypeOK, Copying, Waits
<1>1. CASE MailboxCall(t)
  BY <1>1 DEF MailboxCall, Call, WaitCall, Stage, Goto, StagesOK
<1>2. CASE Work(t)
  BY <1>2 DEF Work, Call, Stage, Goto, StagesOK
<1>3. CASE StageMove(t)
  <2>1. /\ UNCHANGED <<call, pc>>
        /\ \E now \in {"idle", "locking", "releasing"} : stage' = [stage EXCEPT ![t] = now]
    BY <1>3 DEF StageMove, GiveUp, Acquire, Release, Finish, Stage, ringVars
  <2> QED
    BY <2>1 DEF StagesOK
<1>4. CASE Step(t) /\ UNCHANGED stage
  <2>1. Others(t) /\ UNCHANGED call
    BY <1>4, RingOthers
  <2>2. CallOK(t)'
    <3>1. pc'[t] \in Copying => call[t].word \notin Waits
      <4>1. CASE LoadOut(t)
        BY <4>1 DEF LoadOut, WaitDone, WaitFailed, WaitAgain, WaitBegin, Refuse, Proceed,
                    Return, Goto
      <4>2. CASE ~LoadOut(t)
        BY <1>4, <4>2 DEF Step, LoadIn, Expect, FutexEnter, LoadSlot, Access, LoadInc,
                          StoreInc, Wake, Return, Goto
      <4> QED
        BY <4>1, <4>2
    <3> QED
      BY <1>4, <2>1, <3>1
  <2> QED
    BY <1>4, <2>1, <2>2 DEF Others
<1>5. CASE UNCHANGED <<stage, call, pc>>
  BY <1>5
<1> QED
  BY <1>1, <1>2, <1>3, <1>4, <1>5
     DEF ThreadStep, MailboxPush, MailboxPop, Inside, Timer, TimeOut, StageMove, ringVars,
         mailVars

(* Two that work on a side, while no lock has let a second thread in, are  *)
(* one.                                                                    *)
LEMMA WorksAlone ==
  ASSUME StagesOK, LockInv, ~Breached, NEW s \in Threads, NEW t \in Threads,
         stage[s] = "working", stage[t] = "working", SideOf(s) = SideOf(t)
  PROVE  s = t
  BY WorkerHolds DEF OneWorker, Working, Breached, SideOf, Locks

(* The stages, calls and loads of the others stay in every step.           *)
LEMMA OthersKept ==
  ASSUME RingTypeOK, StagesOK, NEW t \in Threads, ThreadStep(t)
  PROVE  Others(t)
<1> USE DEF RingTypeOK, StagesOK, Others, Goto, Stage
<1>1. CASE MailboxCall(t)
  BY <1>1 DEF MailboxCall, Call
<1>2. CASE Work(t)
  BY <1>2 DEF Work, Call
<1>3. CASE StageMove(t)
  BY <1>3 DEF StageMove, GiveUp, Acquire, Release, Finish, ringVars
<1>4. CASE Step(t) /\ UNCHANGED stage
  BY <1>4, RingOthers
<1>5. CASE UNCHANGED <<stage, call, pc, seenIn, index, held>>
  BY <1>5
<1> QED
  BY <1>1, <1>2, <1>3, <1>4, <1>5
     DEF ThreadStep, MailboxPush, MailboxPop, Inside, Timer, TimeOut, StageMove, ringVars,
         mailVars, stackVars

(* Only the store of an index and the write of a slot change the memory.   *)
LEMMA MemoryKept ==
  ASSUME NEW t \in Threads, ThreadStep(t), ~Access(t), ~StoreInc(t)
  PROVE  UNCHANGED memVars
<1> USE DEF memVars
<1>1. CASE Step(t)
  BY <1>1 DEF Step, LoadIn, LoadOut, Expect, FutexEnter, LoadSlot, LoadInc, Wake
<1>2. CASE ~Step(t)
  BY <1>2 DEF ThreadStep, MailboxPush, MailboxPop, MailboxCall, Call, Work, GiveUp, Acquire,
              Release, Finish, Inside, Timer, TimeOut, ringVars
<1> QED
  BY <1>1, <1>2

(* A slot and an index are only touched in the work of the mailbox.        *)
LEMMA AtWork ==
  ASSUME StagesOK, NEW t \in Threads, CallOK(t), pc[t] \in Copying
  PROVE  stage[t] = "working"
  BY DEF StagesOK, StageOK, Stages, CallOK, Copying

(* A store of the in-index leaves less space and more messages, ...        *)
LEMMA PushKeeps ==
  ASSUME RingTypeOK, NEW t \in Threads, NEW s \in Threads, ThreadStep(t), StagesOK,
         LockInv, ~Breached, \A u \in Threads : CallOK(u) /\ WorkOK(u),
         StoreInc(t), t \notin Consumers
  PROVE  WorkOK(s)'
<1>1. /\ stage[t] = "working" /\ PusherOK(t) /\ call[t].word = "push"
      /\ pc[t] = "store-inc" /\ Others(t)
  BY AtWork, OthersKept DEF StoreInc, Copying, WorkOK, CallOK
<1>2. /\ inIndex' = Next1(inIndex) /\ Next1(inIndex) # outIndex
      /\ UNCHANGED <<outIndex, buffer>> /\ pc'[t] = "wake"
  BY <1>1 DEF StoreInc, Producing, PusherOK, Copying, Full, Goto, RingTypeOK
<1>3. CASE s = t
  BY <1>1, <1>2, <1>3 DEF WorkOK, PusherOK, Copying
<1>4. CASE s # t
  <2> SUFFICES ASSUME stage[s] = "working"
               PROVE  WorkOK(s)'
    BY <1>1, <1>4 DEF WorkOK, Others
  <2>1. s \in Consumers /\ PopperOK(s)
    BY <1>1, <1>4, WorksAlone DEF SideOf, WorkOK
  <2>2. /\ pc'[s] = pc[s] /\ seenIn'[s] = seenIn[s] /\ index'[s] = index[s]
        /\ held'[s] = held[s]
    BY <1>1, <1>4 DEF Others
  <2>3. Ahead(outIndex, inIndex') = Ahead(outIndex, inIndex) + 1
    BY <1>2, AheadPush DEF RingTypeOK
  <2>4. /\ Ahead(outIndex, inIndex) \in Nat /\ Ahead(outIndex, seenIn[s]) \in Nat
    BY AheadType DEF RingTypeOK
  <2>5. PopperOK(s)'
    BY <1>2, <2>1, <2>2, <2>3, <2>4 DEF PopperOK, Empty
  <2> QED
    BY <2>1, <2>5 DEF WorkOK
<1> QED
  BY <1>3, <1>4

(* ... and one of the out-index less messages and more space.              *)
LEMMA PopKeeps ==
  ASSUME RingTypeOK, NEW t \in Threads, NEW s \in Threads, ThreadStep(t), StagesOK,
         LockInv, ~Breached, \A u \in Threads : CallOK(u) /\ WorkOK(u),
         StoreInc(t), t \in Consumers
  PROVE  WorkOK(s)'
<1>1. /\ stage[t] = "working" /\ PopperOK(t) /\ call[t].word = "pop"
      /\ pc[t] = "store-inc" /\ Others(t)
  BY AtWork, OthersKept DEF StoreInc, Copying, WorkOK, CallOK
<1>2. /\ outIndex' = Next1(outIndex) /\ inIndex # outIndex
      /\ UNCHANGED <<inIndex, buffer>> /\ pc'[t] = "wake"
  BY <1>1 DEF StoreInc, Producing, PopperOK, Copying, Empty, Goto, RingTypeOK
<1>3. CASE s = t
  BY <1>1, <1>2, <1>3 DEF WorkOK, PopperOK, Copying
<1>4. CASE s # t
  <2> SUFFICES ASSUME stage[s] = "working"
               PROVE  WorkOK(s)'
    BY <1>1, <1>4 DEF WorkOK, Others
  <2>1. s \notin Consumers /\ PusherOK(s)
    BY <1>1, <1>4, WorksAlone DEF SideOf, WorkOK
  <2>2. /\ pc'[s] = pc[s] /\ seenIn'[s] = seenIn[s] /\ index'[s] = index[s]
    BY <1>1, <1>4 DEF Others
  <2>3. Next1(inIndex) # Next1(outIndex)
    BY <1>2, AheadPop DEF RingTypeOK
  <2>4. PusherOK(s)'
    BY <1>2, <2>1, <2>2, <2>3 DEF PusherOK, Full
  <2> QED
    BY <2>1, <2>4 DEF WorkOK
<1> QED
  BY <1>3, <1>4

(* A write goes to the slot of the in-index, which no consumer reads.      *)
LEMMA AccessKeeps ==
  ASSUME RingTypeOK, NEW t \in Threads, NEW s \in Threads, ThreadStep(t), StagesOK,
         LockInv, ~Breached, \A u \in Threads : CallOK(u) /\ WorkOK(u), Access(t)
  PROVE  WorkOK(s)'
<1>1. /\ stage[t] = "working" /\ WorkOK(t) /\ CallOK(t)
      /\ pc[t] = "access" /\ pc'[t] = "load-inc" /\ Others(t)
      /\ UNCHANGED <<inIndex, outIndex, call>>
  BY AtWork, OthersKept DEF Access, Copying, Goto, RingTypeOK
<1>2. CASE t \in Consumers
  <2>1. UNCHANGED buffer /\ held'[t] = buffer[outIndex]
    BY <1>1, <1>2 DEF Access, WorkOK, CallOK, PopperOK, RingTypeOK
  <2>2. CASE s = t
    BY <1>1, <1>2, <2>1, <2>2 DEF WorkOK, PopperOK, Copying
  <2>3. CASE s # t
    BY <1>1, <2>1, <2>3 DEF WorkOK, PopperOK, PusherOK, Others
  <2> QED
    BY <2>2, <2>3
<1>3. CASE t \notin Consumers
  <2>1. /\ buffer' = [buffer EXCEPT ![inIndex] = t] /\ UNCHANGED held
    BY <1>1, <1>3 DEF Access, WorkOK, CallOK, PusherOK
  <2>2. CASE s = t
    BY <1>1, <1>3, <2>1, <2>2 DEF WorkOK, PusherOK, Copying, RingTypeOK
  <2>3. CASE s # t
    <3> SUFFICES ASSUME stage[s] = "working"
                 PROVE  WorkOK(s)'
      BY <1>1, <2>3 DEF WorkOK, Others
    <3>1. s \in Consumers /\ PopperOK(s)
      BY <1>1, <1>3, <2>3, WorksAlone DEF SideOf, WorkOK
    <3>2. pc[s] \in Copying => buffer'[outIndex] = buffer[outIndex]
      BY <2>1, <3>1 DEF PopperOK, Empty, RingTypeOK
    <3> QED
      BY <1>1, <2>1, <2>3, <3>1, <3>2 DEF WorkOK, PopperOK, Others, Copying
  <2> QED
    BY <2>2, <2>3
<1> QED
  BY <1>2, <1>3

(* In the other steps of a word its thread learns what is so.              *)
LEMMA WordKeeps ==
  ASSUME RingTypeOK, NEW t \in Threads, StagesOK, CallOK(t), WorkOK(t), Step(t),
         UNCHANGED <<stage, memVars>>, ~Access(t), ~StoreInc(t)
  PROVE  WorkOK(t)'
<1> SUFFICES ASSUME stage[t] = "working"
             PROVE  WorkOK(t)'
  BY DEF WorkOK
<1>1. call[t].word = IF t \in Consumers THEN "pop" ELSE "push"
  BY DEF CallOK
<1>2. /\ Ahead(outIndex, inIndex) \in Nat /\ Ahead(outIndex, seenIn[t]) \in Nat
      /\ Ahead(outIndex, inIndex) = 0 <=> inIndex = outIndex
      /\ Ahead(outIndex, seenIn[t]) = 0 <=> seenIn[t] = outIndex
  BY AheadType DEF RingTypeOK
<1> USE DEF WorkOK, PusherOK, PopperOK, Copying, Goto, RingTypeOK, memVars, Empty, Full
<1>3. CASE LoadIn(t)
  BY <1>2, <1>3 DEF LoadIn
<1>4. CASE LoadOut(t)
  <2>1. Refuse(t) \/ Proceed(t)
    BY <1>1, <1>4 DEF LoadOut, WaitDone, WaitFailed, WaitAgain, WaitBegin, Waits
  <2>2. CASE Refuse(t)
    BY <2>2 DEF Refuse, Return
  <2>3. CASE Proceed(t)
    BY <1>1, <1>2, <1>4, <2>3 DEF LoadOut, Proceed, Blocked
  <2> QED
    BY <2>1, <2>2, <2>3
<1>5. CASE Expect(t) \/ FutexEnter(t)
  BY <1>5 DEF Expect, FutexEnter
<1>6. CASE LoadSlot(t)
  BY <1>1, <1>6 DEF LoadSlot, OwnIndex, Producing
<1>7. CASE LoadInc(t)
  BY <1>1, <1>7 DEF LoadInc, OwnIndex, Producing
<1>8. CASE Wake(t)
  BY <1>8 DEF Wake, Return
<1> QED
  BY <1>3, <1>4, <1>5, <1>6, <1>7, <1>8 DEF Step

(* The work of a thread goes right as long as no lock has let a second one *)
(* in.                                                                     *)
LEMMA WorkStep ==
  ASSUME RingTypeOK, StagesOK, LockInv, WorkInv, NEW t \in Threads, ThreadStep(t)
  PROVE  WorkInv'
<1>1. \A s \in Threads : CallOK(s)'
  BY CallsKept DEF WorkInv
<1> SUFFICES ASSUME ~Breached', NEW s \in Threads
             PROVE  WorkOK(s)'
  BY <1>1 DEF WorkInv
<1>2. ~Breached /\ \A u \in Threads : CallOK(u) /\ WorkOK(u)
  BY BreachedStays DEF WorkInv
<1>3. CASE StoreInc(t)
  BY <1>2, <1>3, PushKeeps, PopKeeps
<1>4. CASE Access(t)
  BY <1>2, <1>4, AccessKeeps
<1>5. CASE ~StoreInc(t) /\ ~Access(t)
  <2>1. UNCHANGED memVars /\ Others(t)
    BY <1>5, MemoryKept, OthersKept
  <2>2. CASE s # t
    BY <1>2, <2>1, <2>2 DEF Others, memVars, WorkOK, PusherOK, PopperOK
  <2>3. CASE s = t
    <3>1. CASE Step(t) /\ UNCHANGED stage
      BY <1>2, <1>5, <2>1, <2>3, <3>1, WordKeeps
    <3>2. CASE MailboxCall(t) \/ StageMove(t)
      BY <2>3, <3>2 DEF MailboxCall, StageMove, GiveUp, Acquire, Release, Finish, Stage,
                        WorkOK, StagesOK
    <3>3. CASE Work(t)
      BY <2>3, <3>3 DEF Work, Call, Goto, WorkOK, PusherOK, PopperOK, Copying, RingTypeOK
    <3>4. CASE UNCHANGED <<stage, pc, seenIn, index, held>>
      BY <1>2, <2>1, <2>3, <3>4 DEF memVars, WorkOK, PusherOK, PopperOK
    <3> QED
      BY <3>1, <3>2, <3>3, <3>4
         DEF ThreadStep, MailboxPush, MailboxPop, Inside, Timer, TimeOut, StageMove,
             ringVars, mailVars, stackVars
  <2> QED
    BY <2>2, <2>3
<1> QED
  BY <1>3, <1>4, <1>5

LEMMA WorkInit == Init => WorkInv
  BY DEF Init, RingInit, WorkInv, CallOK, WorkOK, Copying

LEMMA MailInvCorrect == Spec => [](RingTypeOK /\ StagesOK /\ LockInv /\ WorkInv)
<1>1. Init => RingTypeOK /\ WorkInv
  BY RingInitType, WorkInit DEF Init
<1>2. RingTypeOK /\ StagesOK /\ LockInv /\ WorkInv /\ [Next]_vars => (RingTypeOK /\ WorkInv)'
  <2> SUFFICES ASSUME RingTypeOK, StagesOK, LockInv, WorkInv, [Next]_vars
               PROVE  WorkInv'
    BY RingStep
  <2>1. ASSUME NEW t \in Threads, ThreadStep(t)
        PROVE  WorkInv'
    BY <2>1, WorkStep
  <2>2. CASE UNCHANGED vars
    BY <2>2 DEF vars, mailVars, ringVars, lockVars, WorkInv, CallOK, WorkOK, PusherOK,
                PopperOK, Breached
  <2> QED
    BY <2>1, <2>2 DEF Next, ThreadStep
<1> QED
  BY <1>1, <1>2, LocksCorrect, PTL DEF Spec

(* Only the store of an index changes the queue.                           *)
LEMMA ContentsKept ==
  ASSUME RingTypeOK, RingTypeOK', StagesOK, WorkInv, ~Breached,
         NEW t \in Threads, ThreadStep(t), ~StoreInc(t)
  PROVE  Contents' = Contents
<1>1. CallOK(t) /\ WorkOK(t)
  BY DEF WorkInv
<1>2. CASE Access(t)
  <2>1. stage[t] = "working" /\ pc[t] = "access"
    BY <1>1, <1>2, AtWork DEF Access, Copying
  <2>2. \A i \in Indices \ {inIndex} : buffer'[i] = buffer[i]
    BY <1>1, <1>2, <2>1 DEF Access, CallOK, WorkOK, PusherOK, RingTypeOK
  <2> QED
    BY <1>2, <2>2, SameContents DEF Access
<1>3. CASE ~Access(t)
  BY <1>3, MemoryKept DEF memVars, Contents, Count
<1> QED
  BY <1>2, <1>3

(* A push appends its message to the queue and a pop takes the oldest one, *)
(* by the thread that works on that side, and no other step changes the    *)
(* queue.                                                                  *)
LEMMA ArrivesStep ==
  ASSUME RingTypeOK, RingTypeOK', StagesOK, LockInv, WorkInv, ~Breached,
         NEW t \in Threads, ThreadStep(t)
  PROVE  \/ \E p \in Producers : stage[p] = "working" /\ Contents' = Append(Contents, p)
         \/ /\ Contents # <<>> /\ Contents' = Tail(Contents)
            /\ \E c \in Consumers : stage[c] = "working" /\ held[c] = Head(Contents)
         \/ Contents' = Contents
<1>1. CallOK(t) /\ WorkOK(t)
  BY DEF WorkInv
<1>2. CASE StoreInc(t)
  <2>1. stage[t] = "working" /\ pc[t] = "store-inc"
    BY <1>1, <1>2, AtWork DEF StoreInc, Copying
  <2>2. CASE t \in Consumers
    <3>1. /\ ~Empty(inIndex, outIndex) /\ held[t] = buffer[outIndex]
          /\ outIndex' = Next1(outIndex) /\ UNCHANGED <<inIndex, buffer>>
      BY <1>1, <1>2, <2>1, <2>2 DEF StoreInc, Producing, CallOK, WorkOK, PopperOK, Copying
    <3> QED
      BY <2>1, <2>2, <3>1, GetContents
  <2>3. CASE t \notin Consumers
    <3>1. t \in Producers /\ t \in Msgs
      BY <2>3, MailboxAssumption DEF MailboxAssumption
    <3>2. /\ ~Full(inIndex, outIndex) /\ buffer[inIndex] = t
          /\ inIndex' = Next1(inIndex) /\ UNCHANGED <<outIndex, buffer>>
      BY <1>1, <1>2, <2>1, <2>3 DEF StoreInc, Producing, CallOK, WorkOK, PusherOK, Copying
    <3> QED
      BY <2>1, <3>1, <3>2, PutContents
  <2> QED
    BY <2>2, <2>3
<1>3. CASE ~StoreInc(t)
  BY <1>3, ContentsKept
<1> QED
  BY <1>2, <1>3

(* The mailbox is a first-in first-out queue for any number of producers   *)
(* and consumers, until one of its locks lets a second thread in.          *)
THEOREM Arrives == Spec => MailArrives
<1>1. RingTypeOK /\ RingTypeOK' /\ StagesOK /\ LockInv /\ WorkInv /\ [Next]_vars
      => [\/ Breached'
          \/ \E t \in Producers : stage[t] = "working" /\ Contents' = Append(Contents, t)
          \/ /\ Contents # <<>>
             /\ Contents' = Tail(Contents)
             /\ \E t \in Consumers : stage[t] = "working" /\ held[t] = Head(Contents)
         ]_Contents
  <2>1. CASE UNCHANGED vars
    BY <2>1 DEF vars, ringVars, Contents, Count
  <2>2. CASE ~UNCHANGED vars
    BY <2>2, ArrivesStep, BreachedStays DEF Next, ThreadStep
  <2> QED
    BY <2>1, <2>2
<1> QED
  BY <1>1, MailInvCorrect, PTL DEF Spec, MailArrives

-----------------------------------------------------------------------------
(* The mailbox as one bounded queue.                                       *)
Serves(t) == stage[t] = "working" /\ (pc[t] = "wake" \/ (pc[t] = "idle" /\ ret[t]))

OneAtMost ==
  \A t \in Consumers : stage[t] = "working" =>
    /\ Served = IF Serves(t) THEN {t} ELSE {}
    /\ Taken = IF Serves(t) THEN held[t] ELSE NoMsg

(* While a consumer is at work nobody else is served, ...                  *)
LEMMA OneServed == StagesOK /\ LockInv /\ ~Breached => OneAtMost
<1> SUFFICES ASSUME StagesOK, LockInv, ~Breached, NEW t \in Consumers, stage[t] = "working"
             PROVE  /\ Served = IF Serves(t) THEN {t} ELSE {}
                    /\ Taken = IF Serves(t) THEN held[t] ELSE NoMsg
  BY DEF OneAtMost
<1>1. Consumers \subseteq Threads
  BY MailboxAssumption DEF MailboxAssumption
<1>2. \A s \in Consumers : stage[s] = "working" => s = t
  BY <1>1, WorksAlone DEF SideOf
<1>3. Served = IF Serves(t) THEN {t} ELSE {}
  BY <1>2 DEF Served, Serves
<1> QED
  BY <1>3 DEF Taken

(* ... and a step that leaves those who are alone leaves their message.    *)
LEMMA TakenKept ==
  ASSUME NEW t \in Threads, Others(t), \A s \in Threads \ {t} : ret'[s] = ret[s],
         t \notin Served, t \notin Served'
  PROVE  Taken' = Taken
<1>1. Consumers \subseteq Threads
  BY MailboxAssumption DEF MailboxAssumption
<1>2. ASSUME NEW s \in Consumers
      PROVE  s \in Served' <=> s \in Served
  BY <1>1, <1>2 DEF Served, Others
<1>3. Served' = Served
  BY <1>2 DEF Served
<1>4. \A s \in Served : held'[s] = held[s]
  BY <1>1 DEF Served, Others
<1>5. CASE Served = {}
  BY <1>3, <1>5 DEF Taken
<1>6. CASE Served # {}
  <2>1. (CHOOSE s \in Served : TRUE) \in Served
    BY <1>6
  <2> QED
    BY <1>3, <1>4, <1>6, <2>1 DEF Taken
<1> QED
  BY <1>5, <1>6

(* What the others were answered is theirs, too.                           *)
LEMMA AnswersKept ==
  ASSUME RingTypeOK, NEW t \in Threads, ThreadStep(t)
  PROVE  \A s \in Threads \ {t} : ret'[s] = ret[s]
<1> USE DEF RingTypeOK
<1>1. CASE UNCHANGED ret
  BY <1>1
<1>2. CASE LoadOut(t)
  BY <1>2 DEF LoadOut, WaitDone, WaitFailed, WaitAgain, WaitBegin, Refuse, Proceed, Return
<1>3. CASE Wake(t)
  BY <1>3 DEF Wake, Return
<1>4. ASSUME ~LoadOut(t), ~Wake(t)
      PROVE  UNCHANGED ret
  <2>1. CASE MailboxCall(t) \/ Work(t)
    BY <2>1 DEF MailboxCall, Work, Call
  <2>2. CASE GiveUp(t) \/ Acquire(t) \/ Release(t) \/ Finish(t)
    BY <2>2 DEF GiveUp, Acquire, Release, Finish, ringVars, stackVars
  <2>3. CASE Step(t)
    BY <1>4, <2>3 DEF Step, LoadIn, Expect, FutexEnter, LoadSlot, Access, LoadInc, StoreInc,
                      stackVars
  <2>4. CASE UNCHANGED ringVars \/ Timer(t)
    BY <2>4 DEF ringVars, stackVars, Timer, TimeOut
  <2> QED
    BY <2>1, <2>2, <2>3, <2>4 DEF ThreadStep, MailboxPush, MailboxPop, Inside
<1> QED
  BY <1>1, <1>2, <1>3, <1>4

(* Every step puts a message into the queue, takes the oldest one into the *)
(* hands of a consumer who had none, lets it go, or does nothing to either. *)
LEMMA QueueStep ==
  ASSUME RingTypeOK, RingTypeOK', StagesOK, LockInv, WorkInv, StagesOK', LockInv',
         ~Breached, ~Breached', NEW t \in Threads, ThreadStep(t)
  PROVE  [Queue!Next]_<<Contents, Taken>>
<1>1. CallOK(t) /\ WorkOK(t) /\ Others(t)
  BY OthersKept DEF WorkInv
<1>2. \A s \in Threads \ {t} : ret'[s] = ret[s]
  BY AnswersKept
<1>o. OneAtMost /\ OneAtMost'
  BY OneServed, PTL
<1>3. CASE StoreInc(t)
  <2>1. stage[t] = "working" /\ pc[t] = "store-inc"
    BY <1>1, <1>3, AtWork DEF StoreInc, Copying
  <2>2. stage' = stage
    BY <1>3, <2>1 DEF ThreadStep, MailboxPush, MailboxPop, MailboxCall, GiveUp, Acquire,
       Work, Release, Finish, Done, Inside, Timer, mailVars
  <2>3. pc'[t] = "wake" /\ UNCHANGED held
    BY <1>3 DEF StoreInc, Goto, stackVars, RingTypeOK
  <2>4. CASE t \in Consumers
    <3>1. Taken = NoMsg
      BY <1>o, <2>1, <2>4 DEF OneAtMost, Serves
    <3>2. Taken' = held[t]
      <4>1. Serves(t)' /\ stage'[t] = "working"
        BY <2>1, <2>2, <2>3 DEF Serves
      <4>2. Taken' = held'[t]
        BY <1>o, <2>4, <4>1 DEF OneAtMost
      <4> QED
        BY <2>3, <4>2
    <3>3. /\ ~Empty(inIndex, outIndex) /\ held[t] = buffer[outIndex]
          /\ outIndex' = Next1(outIndex) /\ UNCHANGED <<inIndex, buffer>>
      BY <1>1, <1>3, <2>1, <2>4 DEF StoreInc, Producing, CallOK, WorkOK, PopperOK, Copying
    <3>4. /\ Contents # <<>> /\ Head(Contents) = held[t]
          /\ Contents' = Tail(Contents)
      BY <3>3, GetContents
    <3> QED
      BY <3>1, <3>2, <3>4 DEF Queue!Next, Queue!Get
  <2>5. CASE t \notin Consumers
    <3>1. t \in Msgs
      BY <2>5, MailboxAssumption DEF MailboxAssumption
    <3>2. /\ ~Full(inIndex, outIndex) /\ buffer[inIndex] = t
          /\ inIndex' = Next1(inIndex) /\ UNCHANGED <<outIndex, buffer>>
      BY <1>1, <1>3, <2>1, <2>5 DEF StoreInc, Producing, CallOK, WorkOK, PusherOK, Copying
    <3>3. Contents' = Append(Contents, t) /\ Len(Contents) < Size - 1
      BY <3>1, <3>2, PutContents
    <3>4. t \notin Served /\ t \notin Served'
      BY <2>5 DEF Served
    <3>5. Taken' = Taken
      BY <1>1, <1>2, <3>4, TakenKept
    <3> QED
      BY <3>1, <3>3, <3>5 DEF Queue!Next, Queue!Put
  <2> QED
    BY <2>4, <2>5
<1>4. ASSUME ~StoreInc(t)
      PROVE  Taken' \in {Taken, NoMsg}
  <2>1. CASE t \notin Served /\ t \notin Served'
    BY <1>1, <1>2, <2>1, TakenKept
  <2>2. CASE Release(t) /\ t \in Served
    <3>1. t \in Consumers /\ stage[t] = "working" /\ stage'[t] = "releasing"
      BY <2>2 DEF Served, Release, Stage, StagesOK
    <3>2. Served \subseteq {t}
      BY <1>o, <3>1 DEF OneAtMost
    <3>3. Served' = {}
      <4>1. \A s \in Consumers \ {t} : s \in Served' => s \in Served
        BY <1>1, <1>2, MailboxAssumption DEF Served, Others, MailboxAssumption
      <4> QED
        BY <3>1, <3>2, <4>1 DEF Served
    <3> QED
      BY <3>3 DEF Taken
  <2>3. CASE Wake(t) /\ t \in Served /\ t \in Served'
    <3>1. t \in Consumers /\ stage[t] = "working" /\ stage'[t] = "working"
      BY <2>3 DEF Served
    <3>2. Serves(t) /\ Serves(t)' /\ UNCHANGED held
      BY <2>3 DEF Served, Serves, Wake
    <3>3. Taken = held[t]
      BY <1>o, <3>1, <3>2 DEF OneAtMost
    <3>4. Taken' = held'[t]
      BY <1>o, <3>1, <3>2 DEF OneAtMost
    <3> QED
      BY <3>2, <3>3, <3>4
  <2>4. CASE UNCHANGED <<stage, pc, ret, held>>
    BY <2>4 DEF Served, Taken
  <2>5. CASE MailboxCall(t) \/ GiveUp(t) \/ Acquire(t) \/ Finish(t)
    BY <2>1, <2>5 DEF MailboxCall, GiveUp, Acquire, Finish, Done, Stage, Served, StagesOK
  <2>6. CASE Work(t)
    BY <2>1, <2>6 DEF Work, Done, Call, Goto, Served, RingTypeOK, StagesOK
  <2>7. CASE Release(t)
    BY <2>1, <2>2, <2>7 DEF Release, Stage, Served, StagesOK
  <2>8. CASE Timer(t) \/ (UNCHANGED ringVars /\ UNCHANGED stage)
    BY <2>4, <2>8 DEF Timer, TimeOut, ringVars, mailVars, stackVars
  <2>9. CASE Step(t) /\ UNCHANGED stage
    <3>1. CASE LoadOut(t)
      <4>1. t \notin Served
        BY <3>1 DEF LoadOut, Served
      <4>2. t \in Served' => stage[t] = "working" /\ t \in Consumers
        BY <2>9 DEF Served
      <4>3. CASE WaitDone(t) \/ WaitFailed(t) \/ WaitAgain(t) \/ WaitBegin(t)
        <5>1. call[t].word # "pop"
          BY <4>3 DEF WaitDone, WaitFailed, WaitAgain, WaitBegin, Waits
        <5> QED
          BY <1>1, <2>1, <4>1, <4>2, <5>1 DEF CallOK
      <4>4. CASE Refuse(t)
        <5>1. pc'[t] = "idle" /\ ret'[t] = FALSE
          BY <4>4 DEF Refuse, Return, Goto, RingTypeOK
        <5> QED
          BY <2>1, <4>1, <5>1 DEF Served
      <4>5. CASE Proceed(t)
        <5>1. pc'[t] = "slot"
          BY <4>5 DEF Proceed, Goto, RingTypeOK
        <5> QED
          BY <2>1, <4>1, <5>1 DEF Served
      <4> QED
        BY <3>1, <4>3, <4>4, <4>5 DEF LoadOut
    <3>2. CASE Wake(t)
      <4>1. pc[t] = "wake" /\ pc'[t] = "idle" /\ ret'[t] = TRUE
        BY <3>2 DEF Wake, Return, Goto, RingTypeOK
      <4>2. t \in Served <=> t \in Served'
        BY <2>9, <4>1 DEF Served
      <4> QED
        BY <2>1, <2>3, <3>2, <4>2
    <3>3. CASE LoadIn(t) \/ Expect(t) \/ FutexEnter(t) \/ LoadSlot(t) \/ Access(t) \/ LoadInc(t)
      <4>1. pc[t] \notin {"wake", "idle"} /\ pc'[t] \notin {"wake", "idle"}
        BY <3>3 DEF LoadIn, Expect, FutexEnter, LoadSlot, Access, LoadInc, Goto, RingTypeOK
      <4> QED
        BY <2>1, <4>1 DEF Served
    <3> QED
      BY <1>4, <2>9, <3>1, <3>2, <3>3 DEF Step
  <2> QED
    BY <2>5, <2>6, <2>7, <2>8, <2>9 DEF ThreadStep, MailboxPush, MailboxPop, Inside, mailVars
<1>5. CASE ~StoreInc(t)
  <2>1. Contents' = Contents
    BY <1>5, ContentsKept
  <2> QED
    BY <1>4, <1>5, <2>1 DEF Queue!Next, Queue!Use
<1> QED
  BY <1>3, <1>5

(* For any number of producers and consumers and every size of the buffer: *)
(* until one of its locks lets a second thread in, the mailbox is one      *)
(* bounded first-in first-out queue.                                       *)
THEOREM MailImplements == Spec => MailIsQueue
<1>1. Init => Queue!Init
  <2> SUFFICES ASSUME Init PROVE Queue!Init
    OBVIOUS
  <2>1. Served = {}
    <3>1. stage = [t \in Threads |-> "idle"]
      BY DEF Init
    <3> QED
      BY <3>1, MailboxAssumption DEF Served, MailboxAssumption
  <2>2. Contents = <<>>
    <3>1. inIndex = 0 /\ outIndex = 0
      BY DEF Init, RingInit
    <3>2. Count = 0
      BY <3>1, RingBufferAssumption, AheadType DEF Count, Indices
    <3> QED
      BY <3>2 DEF Contents
  <2> QED
    BY <2>1, <2>2 DEF Queue!Init, Taken
<1>2. /\ RingTypeOK /\ StagesOK /\ LockInv /\ WorkInv
      /\ RingTypeOK' /\ StagesOK' /\ LockInv' /\ [Next]_vars
      => [Breached' \/ Queue!Next]_<<Contents, Taken>>
  <2>1. CASE UNCHANGED vars
    BY <2>1 DEF vars, ringVars, mailVars, Contents, Count, Served, Taken
  <2>2. CASE ~UNCHANGED vars
    BY <2>2, QueueStep, BreachedStays DEF Next, ThreadStep
  <2> QED
    BY <2>1, <2>2
<1> QED
  BY <1>1, <1>2, MailInvCorrect, PTL DEF Spec, MailIsQueue
=============================================================================
