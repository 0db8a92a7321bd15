------------------------------ MODULE Mailbox ------------------------------
(***************************************************************************)
(* src/lib/threading/mailbox.4th: a ring buffer with a priority lock for   *)
(* its writers and one for its readers.  The producers push messages and   *)
(* the consumers pop them.                                                 *)
(***************************************************************************)
EXTENDS RingBuffer, Sequences

CONSTANTS
  Producers, Consumers,
  Nobody,
  Patient,    (* the threads that call with a timeout of -1                *)
  MaxPushes   (* bound: the calls of mailbox-push/3                        *)

ASSUME MailboxAssumption ==
  /\ Producers \cap Consumers = {}
  /\ Threads = Producers \cup Consumers
  /\ Producers \subseteq Msgs
  /\ Patient \subseteq Threads
  /\ Nobody \notin Threads
  /\ MaxPushes \in Nat

VARIABLES
  stage,      (* where a thread is in mailbox-push/3 or mailbox-pop/2      *)
  pushes,     (* how often mailbox-push/3 has been called                  *)
  latch, count, waiting, piOwner, at, lock, acquiring, seen,
  breached, forgotten, alone

Locks == {"read-lock", "write-lock"}

L == INSTANCE PriorityLock

lockVars == <<latch, count, waiting, piOwner, at, lock, acquiring, seen, breached,
              forgotten, alone>>
mailVars == <<stage, pushes>>
vars == <<ringVars, lockVars, mailVars>>

SideOf(t) == IF t \in Consumers THEN "read-lock" ELSE "write-lock"

Init ==
  /\ RingInit
  /\ L!PriorityInit
  /\ stage = [t \in Threads |-> "idle"]
  /\ pushes = 0

(* A thread has returned from the word its stage is about.                 *)
Done(t, s)  == stage[t] = s /\ pc[t] = "idle" /\ at[t] = "idle"
Stage(t, s) == stage' = [stage EXCEPT ![t] = s]

-----------------------------------------------------------------------------
(* mailbox-push/3 and mailbox-pop/2 first wait for space or for a message. *)
(* A message is told by who sends it.                                      *)
WaitCall(t) ==
  [word |-> IF t \in Consumers THEN "wait-for-msg" ELSE "wait-for-space",
   msg |-> NoMsg, timed |-> t \notin Patient]

MailboxCall(t) ==
  /\ Done(t, "idle")
  /\ Call(t, WaitCall(t))
  /\ Stage(t, "waiting")
  /\ UNCHANGED lockVars

(* Bounds: so many pushes, and none once a second thread has got into the  *)
(* write side.                                                             *)
MailboxPush(t) ==
  /\ t \in Producers /\ pushes < MaxPushes /\ ~breached["write-lock"]
  /\ MailboxCall(t)
  /\ pushes' = pushes + 1

MailboxPop(t) ==
  /\ t \in Consumers /\ ~breached["read-lock"]
  /\ MailboxCall(t)
  /\ UNCHANGED pushes

(* The caller is told that the wait failed.                                *)
GiveUp(t) ==
  /\ Done(t, "waiting") /\ ~ret[t]
  /\ Stage(t, "idle")
  /\ UNCHANGED <<ringVars, lockVars, pushes>>

(* Mutant: there was space or a message, so no lock is taken.              *)
NoLock(t) ==
  /\ Done(t, "waiting") /\ ret[t]
  /\ Stage(t, "locking")
  /\ UNCHANGED <<ringVars, lockVars, pushes>>

(* The lock of the side; whether it was acquired is not asked.             *)
Acquire(t) ==
  /\ Done(t, "waiting") /\ ret[t]
  /\ L!Enter(t, SideOf(t), TRUE)
  /\ Stage(t, "locking")
  /\ UNCHANGED <<ringVars, pushes>>

Work(t) ==
  /\ Done(t, "locking")
  /\ Call(t, IF t \in Consumers THEN [word |-> "pop", msg |-> NoMsg, timed |-> FALSE]
             ELSE [word |-> "push", msg |-> t, timed |-> FALSE])
  /\ Stage(t, "working")
  /\ UNCHANGED <<lockVars, pushes>>

(* The lock is released, and the flag of ring-buffer-push or -pop, still   *)
(* on the stack, is the answer.                                            *)
Release(t) ==
  /\ Done(t, "working")
  /\ L!Enter(t, SideOf(t), FALSE)
  /\ Stage(t, "releasing")
  /\ UNCHANGED <<ringVars, pushes>>

Finish(t) ==
  /\ Done(t, "releasing")
  /\ Stage(t, "idle")
  /\ UNCHANGED <<ringVars, lockVars, pushes>>
Inside(t) ==
  /\ \/ Step(t) /\ UNCHANGED lockVars
     \/ L!Step(t) /\ UNCHANGED ringVars
  /\ UNCHANGED mailVars

Timer(t) == TimeOut(t) /\ UNCHANGED <<lockVars, mailVars>>

Next ==
  \E t \in Threads :
    \/ MailboxPush(t) \/ MailboxPop(t) \/ GiveUp(t) \/ Acquire(t) \/ Work(t) \/ Release(t) \/ Finish(t)
    \/ Inside(t) \/ Timer(t)

Spec == Init /\ [][Next]_vars

-----------------------------------------------------------------------------
MailTypeOK ==
  /\ RingTypeOK
  /\ L!PriorityTypeOK
  /\ stage \in [Threads -> {"idle", "waiting", "locking", "working", "releasing"}]
  /\ pushes \in 0 .. MaxPushes

Breached == \E l \in Locks : breached[l]

(* What a mailbox is for, whatever order its threads come in: a message    *)
(* appears at the end of the queue, from the thread that is pushing it,    *)
(* and the oldest one leaves, into the hands of the one thread that is     *)
(* popping, as long as neither lock has let a second thread in.            *)
MailArrives ==
  [][\/ Breached'
     \/ \E t \in Producers : stage[t] = "working" /\ Contents' = Append(Contents, t)
     \/ /\ Contents # <<>>
        /\ Contents' = Tail(Contents)
        /\ \E t \in Consumers : stage[t] = "working" /\ held[t] = Head(Contents)
    ]_Contents

(* A consumer that ring-buffer-pop has served, until it releases the lock. *)
Served == {t \in Consumers : /\ stage[t] = "working"
                             /\ pc[t] = "wake" \/ (pc[t] = "idle" /\ ret[t])}
Taken == IF Served = {} THEN NoMsg ELSE held[CHOOSE t \in Served : TRUE]

Queue == INSTANCE Channel WITH
  Capacity <- Size - 1, queue <- Contents, taken <- Taken

(* The producers together and the consumers together are the two ends of   *)
(* one bounded queue, as a single producer and a single consumer of the    *)
(* ring buffer are: no message is popped before the one popped last is in  *)
(* the hands of who asked for it, as long as neither lock has let a second *)
(* thread in.                                                              *)
MailIsQueue == Queue!Init /\ [][Breached' \/ Queue!Next]_<<Contents, Taken>>

(* A thread between its acquire and its release.                           *)
Working(t) ==
  \/ Done(t, "locking") \/ stage[t] = "working"
  \/ stage[t] = "releasing" /\ at[t] \in {"ours?", "load-count", "store-count"}

(* One thread works on a side at a time and the word of the lock names it, *)
(* unless the lock has let a second one in; and whoever is done with the   *)
(* mailbox has given its lock up.                                          *)
OneWorker ==
  \A t \in Threads :
    ~breached[SideOf(t)] =>
      /\ Working(t) => latch[SideOf(t)].owner = t
      /\ Done(t, "idle") => latch[SideOf(t)].owner # t
=============================================================================
