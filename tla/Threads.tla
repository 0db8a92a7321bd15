------------------------------ MODULE Threads ------------------------------
(***************************************************************************)
(* src/lib/linux/threads.4th: Thread structs, the clones that run on their *)
(* stacks, and the callers that start, await, join and destroy them.  One  *)
(* shared load or store per step.  What a clone does between its start and *)
(* its return is left to the modules that use threads.                     *)
(***************************************************************************)
EXTENDS Integers

CONSTANTS
  Callers,
  Structs,    (* bound: the structs make-thread has memory for             *)
  Clones,     (* bound: the clones that can be made; a clone is its tid    *)
  Awake,
  Signals     (* whether a signal handler may interrupt a futex wait       *)

ASSUME ThreadsAssumption ==
  /\ Structs \subseteq Nat \ {0}
  /\ Clones \subseteq Nat \ {0}
  /\ Signals \in BOOLEAN

(* The values of Thread -> state that are stored somewhere.                *)
Virgin == 0
Starting == 2
Running == 3
Exited == 5
Destroyed == 7
Failed == 8
States == {Virgin, Starting, Running, Exited, Destroyed, Failed}

VARIABLES
  state, tid,       (* Thread -> state, Thread -> tid                      *)
  mapped,           (* whether the stack of the struct is mapped           *)
  on, stage,        (* the struct a clone was made for, and where it is    *)
  at,               (* the next shared access of each caller               *)
  call,             (* the word it is in and what it was called with       *)
  expected, asleep, result,
  passed,           (* history: sleepers while another one was woken       *)
  overlapped        (* history: structs restarted under a leaving clone    *)

W == INSTANCE FutexWaitFor WITH
  Threads <- Callers, Cells <- {"state", "tid"} \X Structs, Values <- Nat,
  Nothing <- 0, pc <- at

structVars  == <<state, tid, mapped>>
cloneVars   == <<on, stage>>
waitVars    == <<expected, asleep, result, passed>>
threadsVars == <<state, tid, mapped, on, stage, at, call, expected, asleep, result,
                 passed, overlapped>>

NoStruct == 0

(* A call: the word, its struct and timeout, and the field it waits on.    *)
Call(word, s, limit) == [word |-> word, thread |-> s, timed |-> limit, field |-> "state"]
NoCall == Call("none", NoStruct, FALSE)

ThreadsInit ==
  /\ state = [s \in Structs |-> Virgin]
  /\ tid = [s \in Structs |-> 0]
  /\ mapped = [s \in Structs |-> FALSE]
  /\ on = [b \in Clones |-> NoStruct]
  /\ stage = [b \in Clones |-> "none"]
  /\ at = [c \in Callers |-> "idle"]
  /\ call = [c \in Callers |-> NoCall]
  /\ W!WaitInit
  /\ passed = {} /\ overlapped = {}

Goto(c, label) == at' = [at EXCEPT ![c] = label]
Return(c) == Goto(c, "idle") /\ call' = [call EXCEPT ![c] = NoCall]
Advance(b, to) == stage' = [stage EXCEPT ![b] = to]

(* A clone needs its stack until the kernel has taken it off.              *)
OnStack(b) == stage[b] \notin {"none", "told", "gone"}

WakeOne(cell) ==
  /\ W!F!FutexWakeOne(cell)
  /\ passed' = passed \cup {c \in W!F!Sleepers(cell) : asleep'[c] # Awake}
  /\ UNCHANGED expected

-----------------------------------------------------------------------------
(* thread-start up to the clone: a struct that nobody else knows of, with  *)
(* a stack of its own.  Without memory for it nothing has changed.         *)
Virgins == {s \in Structs : state[s] = Virgin}
Unused == {b \in Clones : stage[b] = "none"}

InitThread(c) ==
  /\ at[c] = "idle"
  /\ LET s == CHOOSE v \in Virgins : TRUE
     IN  /\ call' = [call EXCEPT ![c] = Call("thread-start", s, FALSE)]
         /\ state' = [state EXCEPT ![s] = Starting]
         /\ mapped' = [mapped EXCEPT ![s] = TRUE]
  /\ Goto(c, "clone")
  /\ UNCHANGED <<tid, cloneVars, waitVars, overlapped>>

(* thread-start/3, which a struct that has exited may be started with once *)
(* more.                                                                   *)
ThreadStart(c, s) ==
  /\ at[c] = "idle"
  /\ call' = [call EXCEPT ![c] = Call("thread-start/3", s, FALSE)]
  /\ state' = [state EXCEPT ![s] = Starting]
  /\ Goto(c, "clone")
  /\ UNCHANGED <<tid, mapped, cloneVars, waitVars, overlapped>>

(* Records that a clone which has stored that it exited is still there.    *)
Cloned(c) ==
  /\ at[c] = "clone"
  /\ LET b == CHOOSE u \in Unused : TRUE
         s == call[c].thread
     IN  /\ on' = [on EXCEPT ![b] = s]
         /\ Advance(b, "cloned")
         /\ overlapped' = IF \E o \in Clones : on[o] = s /\ stage[o] = "leaving"
                          THEN overlapped \cup {s} ELSE overlapped
  /\ Return(c)
  /\ UNCHANGED <<structVars, waitVars>>

(* thread-start destroys the struct nobody else knows of.                  *)
CloneFails(c) ==
  /\ at[c] = "clone"
  /\ LET s == call[c].thread
         new == call[c].word = "thread-start"
     IN  /\ state' = [state EXCEPT ![s] = IF new THEN Destroyed ELSE Failed]
         /\ mapped' = [mapped EXCEPT ![s] = ~new]
  /\ Return(c)
  /\ UNCHANGED <<tid, cloneVars, waitVars, overlapped>>

(* The stack goes first; nobody can tell that from the store of the state. *)
DestroyThread(c) ==
  /\ at[c] \in {"destroy", "joined", "unjoined"}
  /\ mapped' = [mapped EXCEPT ![call[c].thread] = FALSE]
  /\ state' = [state EXCEPT ![call[c].thread] = Destroyed]
  /\ Return(c)
  /\ UNCHANGED <<tid, cloneVars, waitVars, overlapped>>

-----------------------------------------------------------------------------
(* The life of a clone.  CLONE_CHILD_SETTID: the kernel stores the tid     *)
(* when the clone runs for the first time, not when clone returns.         *)
SetTid(b) ==
  /\ stage[b] = "cloned"
  /\ tid' = [tid EXCEPT ![on[b]] = b]
  /\ Advance(b, "init")
  /\ UNCHANGED <<state, mapped, on, at, call, waitVars, overlapped>>

(* thread-init: the state, then a wake of -1, which wakes one.             *)
SayRunning(b) ==
  /\ stage[b] = "init"
  /\ state' = [state EXCEPT ![on[b]] = Running]
  /\ Advance(b, "announce")
  /\ UNCHANGED <<tid, mapped, on, at, call, waitVars, overlapped>>

(* Mutant: who waits for the start is not told.                            *)
KeepQuiet(b) ==
  /\ stage[b] = "announce"
  /\ Advance(b, "run")
  /\ UNCHANGED <<structVars, on, at, call, waitVars, overlapped>>

Announce(b) ==
  /\ stage[b] = "announce"
  /\ WakeOne(<<"state", on[b]>>)
  /\ Advance(b, "run")
  /\ UNCHANGED <<structVars, on, at, call, overlapped>>

(* thread-return, after which abort makes the system call.                 *)
ThreadReturn(b) ==
  /\ stage[b] = "return"
  /\ state' = [state EXCEPT ![on[b]] = Exited]
  /\ Advance(b, "leaving")
  /\ UNCHANGED <<tid, mapped, on, at, call, waitVars, overlapped>>

(* CLONE_CHILD_CLEARTID: on exit the kernel zeroes the tid ...             *)
ClearTid(b) ==
  /\ stage[b] \in {"leaving", "bye"}
  /\ tid' = [tid EXCEPT ![on[b]] = 0]
  /\ Advance(b, "told")
  /\ UNCHANGED <<state, mapped, on, at, call, waitVars, overlapped>>

(* Mutant: ... and nobody is woken.                                        *)
TellNobody(b) ==
  /\ stage[b] = "told"
  /\ Advance(b, "gone")
  /\ UNCHANGED <<structVars, on, at, call, waitVars, overlapped>>

(* ... and wakes one that waits for it.                                    *)
Tell(b) ==
  /\ stage[b] = "told"
  /\ WakeOne(<<"tid", on[b]>>)
  /\ Advance(b, "gone")
  /\ UNCHANGED <<structVars, on, at, call, overlapped>>

Living(b) ==
  SetTid(b) \/ SayRunning(b) \/ Announce(b) \/ ThreadReturn(b) \/ ClearTid(b) \/ Tell(b)

-----------------------------------------------------------------------------
(* thread-join/2 and thread-wait-to-start/2, and what they end at: what    *)
(* they answer is lost, unless destroy-worker/2 has called.                *)
Joiners == {"thread-join/2", "destroy-worker/2"}
Joining(c) == call[c].word \in Joiners
End(c, label) == IF call[c].word = "destroy-worker/2" THEN label ELSE "idle"
Forget(c) == call' = IF at'[c] = "idle" THEN [call EXCEPT ![c] = NoCall] ELSE call

Await(c, word, s, limit) ==
  /\ call' = [call EXCEPT ![c] = Call(word, s, limit)]
  /\ Goto(c, IF word \in Joiners THEN "join" ELSE "test")
  /\ UNCHANGED <<structVars, cloneVars, waitVars, overlapped>>

Join(c) ==
  /\ at[c] = "join"
  /\ IF tid[call[c].thread] > 0
     THEN call' = [call EXCEPT ![c].field = "tid"] /\ Goto(c, "test")
     ELSE Goto(c, "unborn?") /\ UNCHANGED call
  /\ UNCHANGED <<structVars, cloneVars, waitVars, overlapped>>

(* Never started, so wait for the start; or over, which is an error.       *)
Unborn(c) ==
  /\ at[c] = "unborn?"
  /\ IF state[call[c].thread] < Running
     THEN call' = [call EXCEPT ![c].field = "state"] /\ Goto(c, "test")
     ELSE Goto(c, End(c, "joined")) /\ Forget(c)
  /\ UNCHANGED <<structVars, cloneVars, waitVars, overlapped>>

Cell(c) == <<call[c].field, call[c].thread>>
Value(c) == IF call[c].field = "tid" THEN tid[call[c].thread] ELSE state[call[c].thread]

(* Mutant: a join takes the word of the thread for its end.                *)
ContentExited(c) == state[call[c].thread] >= IF Joining(c) THEN Exited ELSE Running

(* Any state from THREAD-RUNNING on, THREAD-FAILED too, is a start.        *)
Content(c) == IF call[c].field = "tid" THEN Value(c) = 0 ELSE Value(c) >= Running

(* A join that has seen the start begins anew.                             *)
OnTrue(c) == IF Joining(c) /\ call[c].field = "state" THEN "join" ELSE End(c, "joined")

WaitStep(c) ==
  /\ \/ W!Test(c, Content(c), OnTrue(c))
     \/ W!Peek(c, Value(c))
     \/ W!Enter(c, Cell(c), Value(c))
     \/ W!Woken(c, Content(c), call[c].timed, OnTrue(c), End(c, "unjoined"))
  /\ Forget(c)
  /\ passed' = passed \ {c}
  /\ UNCHANGED <<structVars, cloneVars, overlapped>>

WaitKernel(c) ==
  /\ \/ call[c].timed /\ W!GiveUp(c, "ETIMEDOUT")
     \/ Signals /\ W!GiveUp(c, "EINTR")
  /\ UNCHANGED <<structVars, cloneVars, call, passed, overlapped>>

Awaiting(c) == Join(c) \/ Unborn(c) \/ WaitStep(c) \/ WaitKernel(c)

Stages == {"none", "cloned", "init", "announce", "run", "return", "leaving", "bye",
           "told", "gone"}
Labels == {"idle", "clone", "destroy", "join", "unborn?", "joined", "unjoined"}
            \cup W!WaitLabels

StructsOK ==
  /\ state \in [Structs -> States]
  /\ tid \in [Structs -> Clones \cup {0}]
  /\ mapped \in [Structs -> BOOLEAN]
  /\ on \in [Clones -> Structs \cup {NoStruct}]
  /\ overlapped \subseteq Structs

CallsOK ==
  /\ \A c \in Callers : /\ call[c].thread \in Structs \cup {NoStruct}
                         /\ call[c].timed \in BOOLEAN
                         /\ call[c].field \in {"state", "tid"}
  /\ W!WaitTypeOK
  /\ passed \subseteq Callers
=============================================================================
