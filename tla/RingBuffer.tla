----------------------------- MODULE RingBuffer -----------------------------
(***************************************************************************)
(* src/lib/ring-buffer.4th, one shared load or store per step.             *)
(*                                                                         *)
(* A thread runs one word at a time: ring-buffer-wait-for-msg/2,           *)
(* ring-buffer-wait-for-space/2, ring-buffer-push or ring-buffer-pop.      *)
(* pc[t] is the next shared access of that word; the other per-thread      *)
(* variables hold what is on the thread's stack meanwhile.  Call is left   *)
(* to the modules that use the words.                                      *)
(***************************************************************************)
EXTENDS Integers, FiniteSets

CONSTANTS
  Threads,
  Size,      (* the cells of the buffer; one of them always stays free     *)
  Msgs,      (* the cells pushed                                           *)
  NoMsg,     (* an unwritten slot                                          *)
  Awake,
  Signals    (* the threads a signal handler may interrupt in a futex wait *)

ASSUME RingBufferAssumption ==
  /\ Size \in Nat \ {0}
  /\ NoMsg \notin Msgs
  /\ Awake \notin {"in", "out"}
  /\ Signals \subseteq Threads

VARIABLES
  inIndex,   (* RingBuffer -> in-index: the next slot to write             *)
  outIndex,  (* RingBuffer -> out-index: the next slot to read             *)
  buffer,    (* the slots                                                  *)
  pc,        (* the next shared access of each thread                      *)
  call,      (* the word each thread runs and its arguments                *)
  seenIn,    (* the in-index loaded by ring-buffer-empty? or -full?        *)
  index,     (* the index loaded before a slot access or an increment      *)
  held,      (* the cell that pop has read from its slot                   *)
  ret,       (* what the last word left on the stack                       *)
  asleep, result

Indices == 0 .. Size - 1

F == INSTANCE Futex WITH Cells <- {"in", "out"}

memVars  == <<inIndex, outIndex, buffer>>
stackVars == <<seenIn, index, held, ret>>
ringVars == <<inIndex, outIndex, buffer, pc, call, seenIn, index, held, ret,
              asleep, result>>

Words == {"wait-for-msg", "wait-for-space", "push", "pop"}
Waits == {"wait-for-msg", "wait-for-space"}
Calls == [word : Words, msg : Msgs \cup {NoMsg}, timed : BOOLEAN]

(* Mutant: the wrap comes one index late.                                 *)
WrapLate(n) == IF n > Size THEN n - Size ELSE n

(* wrapped-inc!/3 with an amount of one: compare and subtract, no modulo.  *)
Wrap(n) == IF n >= Size THEN n - Size ELSE n
Next1(i) == Wrap(i + 1)

(* Mutant: the buffer never looks full.                                    *)
NeverFull(i, o) == FALSE

Empty(i, o) == i = o
Full(i, o)  == Next1(i) = o

(* What the word is waiting for, or refuses to work without.               *)
Blocked(t, i, o) ==
  IF call[t].word \in {"wait-for-msg", "pop"} THEN Empty(i, o) ELSE Full(i, o)

(* A push advances the in-index, a pop the out-index; each side waits for  *)
(* the index the other side advances.                                      *)
Producing(t) == call[t].word \in {"push", "wait-for-space"}
OwnCell(t)   == IF Producing(t) THEN "in" ELSE "out"
OtherCell(t) == IF Producing(t) THEN "out" ELSE "in"
OwnIndex(t)  == IF Producing(t) THEN inIndex ELSE outIndex
Value(cell)  == IF cell = "in" THEN inIndex ELSE outIndex

RingInit ==
  /\ inIndex = 0
  /\ outIndex = 0
  /\ buffer = [i \in Indices |-> NoMsg]
  /\ pc = [t \in Threads |-> "idle"]
  /\ call = [t \in Threads |-> [word |-> "pop", msg |-> NoMsg, timed |-> FALSE]]
  /\ seenIn = [t \in Threads |-> 0]
  /\ index = [t \in Threads |-> 0]
  /\ held = [t \in Threads |-> NoMsg]
  /\ ret = [t \in Threads |-> FALSE]
  /\ F!FutexInit

Goto(t, label) == pc' = [pc EXCEPT ![t] = label]

(* return1-n and return2-n: the word's frame goes, its flag stays.  What a *)
(* dead frame held is reset so that it does not distinguish states.        *)
Return(t, flag) ==
  /\ Goto(t, "idle")
  /\ ret' = [ret EXCEPT ![t] = flag]
  /\ seenIn' = [seenIn EXCEPT ![t] = 0]
  /\ index' = [index EXCEPT ![t] = 0]

(* A word is called.  Every one of them begins with ring-buffer-empty? or  *)
(* ring-buffer-full?.                                                      *)
Call(t, c) ==
  /\ pc[t] = "idle"
  /\ call' = [call EXCEPT ![t] = c]
  /\ held' = [held EXCEPT ![t] = NoMsg]
  /\ Goto(t, "load-in")
  /\ UNCHANGED <<memVars, seenIn, index, ret, asleep, result>>

(* ring-buffer-empty? and ring-buffer-full? load the in-index first ...    *)
LoadIn(t) ==
  /\ pc[t] = "load-in"
  /\ asleep[t] = Awake
  /\ seenIn' = [seenIn EXCEPT ![t] = inIndex]
  /\ Goto(t, "load-out")
  /\ UNCHANGED <<memVars, call, index, held, ret, asleep, result>>

(* ... and then the out-index, and compare.  A wait that finds the buffer   *)
(* ready is over, whatever the kernel last answered.                       *)
WaitDone(t) ==
  /\ call[t].word \in Waits /\ ~Blocked(t, seenIn[t], outIndex)
  /\ Return(t, TRUE)
  /\ F!FutexForget(t)

(* Mutant: an error of the system call fails the wait without a last look. *)
FailBlindly(t) ==
  /\ call[t].word \in Waits
  /\ result[t] \in F!Errors
  /\ Return(t, FALSE)
  /\ F!FutexForget(t)

(* "really make sure": an error of the system call, and still not ready.   *)
WaitFailed(t) ==
  /\ call[t].word \in Waits /\ Blocked(t, seenIn[t], outIndex)
  /\ result[t] \in F!Errors
  /\ Return(t, FALSE)
  /\ F!FutexForget(t)

(* Mutant: a wake is taken for readiness without testing again.            *)
WakeIsReady(t) ==
  /\ call[t].word \in Waits /\ Blocked(t, seenIn[t], outIndex)
  /\ result[t] = "ok"
  /\ Return(t, TRUE)
  /\ F!FutexForget(t)

(* Woken for nothing: repeat-frame.                                        *)
WaitAgain(t) ==
  /\ call[t].word \in Waits /\ Blocked(t, seenIn[t], outIndex)
  /\ result[t] = "ok"
  /\ Goto(t, "load-in")
  /\ F!FutexForget(t)
  /\ UNCHANGED <<seenIn, index, ret>>

WaitBegin(t) ==
  /\ call[t].word \in Waits /\ Blocked(t, seenIn[t], outIndex)
  /\ result[t] = "none"
  /\ Goto(t, "expect")
  /\ UNCHANGED <<seenIn, index, ret, asleep, result>>

Refuse(t) ==
  /\ call[t].word \notin Waits /\ Blocked(t, seenIn[t], outIndex)
  /\ Return(t, FALSE)
  /\ UNCHANGED <<asleep, result>>

(* Mutant: push and pop do not look whether they may.                      *)
ProceedBlindly(t) ==
  /\ call[t].word \notin Waits
  /\ Goto(t, "slot")
  /\ UNCHANGED <<seenIn, index, ret, asleep, result>>

Proceed(t) ==
  /\ call[t].word \notin Waits /\ ~Blocked(t, seenIn[t], outIndex)
  /\ Goto(t, "slot")
  /\ UNCHANGED <<seenIn, index, ret, asleep, result>>

LoadOut(t) ==
  /\ pc[t] = "load-out"
  /\ \/ WaitDone(t) \/ WaitFailed(t) \/ WaitAgain(t) \/ WaitBegin(t)
     \/ Refuse(t) \/ Proceed(t)
  /\ UNCHANGED <<memVars, call, held>>

(* Mutant: sleep on whatever the other index is by now.                    *)
ExpectCurrent(t) ==
  /\ pc[t] = "expect"
  /\ index' = [index EXCEPT ![t] = Value(OtherCell(t))]
  /\ Goto(t, "wait")
  /\ UNCHANGED <<memVars, call, seenIn, held, ret, asleep, result>>

(* The value to sleep on is loaded anew, after the test.                   *)
Expect(t) ==
  /\ pc[t] = "expect"
  /\ index' = [index EXCEPT ![t] = IF Producing(t) THEN Next1(inIndex) ELSE outIndex]
  /\ Goto(t, "wait")
  /\ UNCHANGED <<memVars, call, seenIn, held, ret, asleep, result>>

FutexEnter(t) ==
  /\ pc[t] = "wait"
  /\ F!FutexWait(t, OtherCell(t), Value(OtherCell(t)), index[t])
  /\ Goto(t, "load-in")
  /\ UNCHANGED <<memVars, call, stackVars>>

(* The relative timeout runs out; a negative number of seconds never does. *)
TimeOut(t) ==
  /\ call[t].timed
  /\ F!FutexGiveUp(t, "ETIMEDOUT")
  /\ UNCHANGED <<memVars, pc, call, stackVars>>

Interrupt(t) ==
  /\ t \in Signals
  /\ F!FutexGiveUp(t, "EINTR")
  /\ UNCHANGED <<memVars, pc, call, stackVars>>

(* push and pop load their own index, access the slot, ...                 *)
LoadSlot(t) ==
  /\ pc[t] = "slot"
  /\ index' = [index EXCEPT ![t] = OwnIndex(t)]
  /\ Goto(t, "access")
  /\ UNCHANGED <<memVars, call, seenIn, held, ret, asleep, result>>

Access(t) ==
  /\ pc[t] = "access"
  /\ \/ /\ call[t].word = "push"
        /\ buffer' = [buffer EXCEPT ![index[t]] = call[t].msg]
        /\ UNCHANGED held
     \/ /\ call[t].word = "pop"
        /\ held' = [held EXCEPT ![t] = buffer[index[t]]]
        /\ UNCHANGED buffer
  /\ Goto(t, "load-inc")
  /\ UNCHANGED <<inIndex, outIndex, call, seenIn, index, ret, asleep, result>>

(* ... advance the index with a load and a store, ...                      *)
LoadInc(t) ==
  /\ pc[t] = "load-inc"
  /\ index' = [index EXCEPT ![t] = OwnIndex(t)]
  /\ Goto(t, "store-inc")
  /\ UNCHANGED <<memVars, call, seenIn, held, ret, asleep, result>>

StoreInc(t) ==
  /\ pc[t] = "store-inc"
  /\ \/ /\ Producing(t)
        /\ inIndex' = Next1(index[t])
        /\ UNCHANGED outIndex
     \/ /\ ~Producing(t)
        /\ outIndex' = Next1(index[t])
        /\ UNCHANGED inIndex
  /\ Goto(t, "wake")
  /\ UNCHANGED <<buffer, call, stackVars, asleep, result>>

(* Mutant: nobody is woken.                                                *)
WakeNobody(t) ==
  /\ pc[t] = "wake"
  /\ Return(t, TRUE)
  /\ UNCHANGED <<memVars, call, held, asleep, result>>

(* ... and wake one thread of the other side.                              *)
Wake(t) ==
  /\ pc[t] = "wake"
  /\ F!FutexWakeOne(OwnCell(t))
  /\ Return(t, TRUE)
  /\ UNCHANGED <<memVars, call, held>>

(* The steps a thread takes by itself once it has called a word.           *)
Step(t) ==
  \/ LoadIn(t) \/ LoadOut(t) \/ Expect(t) \/ FutexEnter(t)
  \/ LoadSlot(t) \/ Access(t) \/ LoadInc(t) \/ StoreInc(t) \/ Wake(t)

(* What the kernel may do to a thread.                                     *)
Kernel(t) == TimeOut(t) \/ Interrupt(t)

(* How far j is ahead of i.                                                *)
Ahead(i, j) == IF j >= i THEN j - i ELSE j + Size - i

Count == Ahead(outIndex, inIndex)

(* The slots from the out-index up to the in-index, oldest first.          *)
Contents == [k \in 1 .. Count |-> buffer[Wrap(outIndex + k - 1)]]

Labels == {"idle", "load-in", "load-out", "expect", "wait", "slot", "access",
           "load-inc", "store-inc", "wake"}

RingTypeOK ==
  /\ inIndex \in Indices
  /\ outIndex \in Indices
  /\ buffer \in [Indices -> Msgs \cup {NoMsg}]
  /\ pc \in [Threads -> Labels]
  /\ call \in [Threads -> Calls]
  /\ seenIn \in [Threads -> Indices]
  /\ index \in [Threads -> Indices]
  /\ held \in [Threads -> Msgs \cup {NoMsg}]
  /\ ret \in [Threads -> BOOLEAN]
  /\ F!FutexTypeOK
=============================================================================
