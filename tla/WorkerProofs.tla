---------------------------- MODULE WorkerProofs ----------------------------
(***************************************************************************)
(* Workers and their threads, for every number of callers, structs and     *)
(* clones and every size of the input.                                     *)
(***************************************************************************)
EXTENDS Worker, SequenceTheorems, TLAPS

USE ThreadsAssumption, WorkerAssumption

(* Calls as they are, and where a caller that is not the owner may be: it  *)
(* only waits.  A caller sleeps nowhere but in its wait, on the cell that  *)
(* its call names.                                                         *)
OwnersWords == {"thread-start", "thread-start/3", "worker-stop", "destroy-worker/2"}
OthersWords == {"none", "thread-wait-to-start/2", "thread-join/2"}
CallRecords == [word : OwnersWords \cup OthersWords, thread : Structs \cup {NoStruct},
                timed : BOOLEAN, field : {"state", "tid"}]

CallerOK(c) ==
  /\ at[c] # "idle" => call[c].thread \in Structs
  /\ asleep[c] # Awake => at[c] = "woken" /\ asleep[c] = Cell(c)
  /\ c # Owner => /\ call[c].word \in OthersWords
                  /\ at[c] \in {"idle", "join", "unborn?"} \cup W!WaitLabels

CallersOK ==
  /\ call \in [Callers -> CallRecords]
  /\ at \in [Callers -> Labels \cup {"bye"}]
  /\ W!WaitTypeOK
  /\ passed \subseteq Callers
  /\ \A c \in Callers : CallerOK(c)

MemOK ==
  /\ StructsOK
  /\ stage \in [Clones -> Stages]
  /\ current \in Structs \cup {NoStruct}

InputOK == input \in Seq({Bye, Work}) /\ Len(input) <= QueueSize

TypeInv == MemOK /\ InputOK /\ CallersOK

(* The structs.  Only a struct that has never been used, or is destroyed,  *)
(* has no stack; only a leaving clone is still on the stack of one that    *)
(* has exited, and a clone that is not leaving is alone on its struct.     *)
Busy(b) == OnStack(b) /\ stage[b] # "leaving"
Left(s) == \A b \in Clones : on[b] = s => ~Busy(b)

StructOK(s) ==
  /\ ~mapped[s] => state[s] \in {Virgin, Destroyed}
  /\ state[s] = Virgin => \A b \in Clones : on[b] # s
  /\ state[s] = Exited => Left(s)

CloneOK(b) ==
  /\ stage[b] # "none" => on[b] \in Structs
  /\ stage[b] \in {"announce", "run", "return", "bye"}
       => state[on[b]] = Running \/ ~mapped[on[b]]
  /\ \A o \in Clones : on[o] = on[b] /\ Busy(o) /\ Busy(b) => o = b

(* What the owner relies on in each of its calls.  Over(s): the kernel has *)
(* taken the last clone off the stack of s.                                *)
Over(s) == s \in overlapped \/ \A b \in Clones : on[b] = s => ~OnStack(b)
Born(s) == s \in overlapped \/ \A b \in Clones : on[b] = s => stage[b] # "cloned"

Starts ==
  LET s == call[Owner].thread
  IN  /\ call[Owner].word \in {"thread-start", "thread-start/3"}
      /\ call[Owner].word = "thread-start" => \A b \in Clones : on[b] # s
      /\ mapped[s] /\ state[s] = Starting /\ Left(s) /\ Unused # {}

Ends ==
  /\ call[Owner].thread = current
  /\ call[Owner].word = "worker-stop" => OwnerAt("bye")
  /\ call[Owner].word \in {"worker-stop", "destroy-worker/2"}
  /\ OwnerAt("destroy") => current \in unborn \/ Over(current)
  /\ ~OwnerAt("destroy") => Born(current)
  /\ at[Owner] \in {"unborn?", "joined"} => Over(current)

OwnerInv ==
  /\ OwnerAt("clone") => Starts
  /\ at[Owner] \notin {"idle", "clone"} => Ends

LifeInv ==
  /\ \A s \in Structs : StructOK(s)
  /\ \A b \in Clones : CloneOK(b)
  /\ OwnerInv
-----------------------------------------------------------------------------
LEMMA MemStep ==
  ASSUME MemOK, CallersOK, [Next]_workerVars
  PROVE  MemOK'
<1> USE DEF MemOK, StructsOK, structVars, cloneVars, threadsVars, workVars, Advance,
            States, Virgin, Starting, Running, Exited, Destroyed, Failed, Stages, NoStruct
<1>1. CASE WorkerStart
  <2>1. CASE ThreadStart(Owner, current)
    BY <1>1, <2>1 DEF WorkerStart, ThreadStart
  <2>2. CASE InitThread(Owner)
    BY <1>1, <2>2 DEF WorkerStart, InitThread
  <2> QED
    BY <1>1, <2>1, <2>2 DEF WorkerStart
<1>2. CASE WorkerClones
  <2>1. call[Owner].thread \in Structs
    BY <1>2 DEF WorkerClones, Cloned, CallersOK, CallerOK
  <2> QED
    BY <1>2, <2>1 DEF WorkerClones, Cloned
<1>3. CASE CloneFails(Owner) /\ UNCHANGED <<workVars, excuses>>
  BY <1>3 DEF CloneFails
<1>4. CASE WorkerEnqueue \/ WorkerStop \/ DestroyWorker \/ DestroyStopped \/ EnqueueBye
  BY <1>4 DEF WorkerEnqueue, WorkerStop, DestroyWorker, Stops, DestroyStopped,
              EnqueueBye, Quietly
<1>5. CASE DestroyJoined
  BY <1>5 DEF DestroyJoined, DestroyThread
<1>6. ASSUME NEW b \in Clones, Pop(b) \/ PopFails(b)
      PROVE  MemOK'
  BY <1>6 DEF Pop, PopFails, Quiet
<1>7. ASSUME NEW b \in Clones, Living(b), UNCHANGED <<workVars, excuses>>
      PROVE  MemOK'
  <2>1. CASE SetTid(b)
    BY <1>7, <2>1 DEF SetTid
  <2>2. CASE SayRunning(b) \/ ThreadReturn(b)
    BY <1>7, <2>2 DEF SayRunning, ThreadReturn
  <2>3. CASE ClearTid(b)
    BY <1>7, <2>3 DEF ClearTid
  <2>4. CASE Announce(b) \/ Tell(b)
    BY <1>7, <2>4 DEF Announce, Tell
  <2> QED
    BY <1>7, <2>1, <2>2, <2>3, <2>4 DEF Living
<1>8. ASSUME NEW c \in Callers, Waiting(c)
      PROVE  MemOK'
  BY <1>8 DEF Waiting, Waits, Await, Awaiting, Join, Unborn, WaitStep, WaitKernel
<1>9. CASE UNCHANGED workerVars
  BY <1>9 DEF workerVars
<1> QED
  BY <1>1, <1>2, <1>3, <1>4, <1>5, <1>6, <1>7, <1>8, <1>9
     DEF Next, Beginning, Ending, Working

LEMMA InputStep ==
  ASSUME InputOK, [Next]_workerVars
  PROVE  InputOK'
<1> USE DEF InputOK, workVars, workerVars
<1>1. ASSUME NEW x \in {Bye, Work}, Push(x)
      PROVE  InputOK'
  BY <1>1, AppendProperties DEF Push
<1>2. ASSUME NEW b \in Clones, Pop(b)
      PROVE  InputOK'
  BY <1>2, HeadTailProperties DEF Pop
<1>3. ASSUME NEW b \in Clones, Working(b), ~Pop(b)
      PROVE  InputOK'
  BY <1>3 DEF Working, PopFails
<1>4. CASE WorkerEnqueue \/ EnqueueBye
  BY <1>1, <1>4 DEF WorkerEnqueue, EnqueueBye
<1>5. CASE Beginning \/ WorkerStop \/ DestroyWorker \/ DestroyStopped \/ DestroyJoined
  BY <1>5 DEF Beginning, WorkerStart, WorkerClones, WorkerStop, DestroyWorker, Stops,
              DestroyStopped, DestroyJoined
<1>6. ASSUME NEW c \in Callers, Waiting(c)
      PROVE  InputOK'
  BY <1>6 DEF Waiting, Waits
<1> QED
  BY <1>2, <1>3, <1>4, <1>5, <1>6 DEF Next, Ending

-----------------------------------------------------------------------------
LEMMA CallType ==
  ASSUME NEW w \in OwnersWords \cup OthersWords, NEW s \in Structs \cup {NoStruct},
         NEW l \in BOOLEAN
  PROVE  /\ Call(w, s, l) \in CallRecords
         /\ Call(w, s, l).word = w /\ Call(w, s, l).thread = s
         /\ Call(w, s, l).field = "state" /\ Call(w, s, l).timed = l
  BY DEF Call, CallRecords

LEMMA UntimedCall ==
  ASSUME NEW w \in OwnersWords \cup OthersWords, NEW s \in Structs \cup {NoStruct}
  PROVE  /\ Call(w, s, FALSE) \in CallRecords
         /\ Call(w, s, FALSE).word = w /\ Call(w, s, FALSE).thread = s
  BY DEF Call, CallRecords

LEMMA NoCallType == NoCall \in CallRecords /\ NoCall.word = "none"
  BY DEF NoCall, Call, CallRecords, OthersWords

(* A caller that starts, changes or ends a call, or takes a step of its    *)
(* wait.                                                                   *)
LEMMA CallerStep ==
  ASSUME CallersOK, NEW c \in Callers, NEW r \in CallRecords, NEW l \in Labels \cup {"bye"},
         call' = [call EXCEPT ![c] = r], at' = [at EXCEPT ![c] = l],
         W!WaitTypeOK', passed' \subseteq Callers,
         \A d \in Callers \ {c} : asleep'[d] = asleep[d],
         asleep'[c] # Awake => l = "woken" /\ asleep'[c] = <<r.field, r.thread>>,
         l # "idle" => r.thread \in Structs,
         c # Owner => /\ r.word \in OthersWords
                      /\ l \in {"idle", "join", "unborn?"} \cup W!WaitLabels
  PROVE  CallersOK'
<1>1. \A d \in Callers : CallerOK(d)'
  BY DEF CallersOK, CallerOK, Cell
<1>2. /\ call' \in [Callers -> CallRecords]
      /\ at' \in [Callers -> Labels \cup {"bye"}]
  BY DEF CallersOK
<1> QED
  BY <1>1, <1>2 DEF CallersOK

(* The same where the futex has no part in it.                             *)
LEMMA PlainStep ==
  ASSUME CallersOK, NEW c \in Callers, NEW r \in CallRecords, NEW l \in Labels \cup {"bye"},
         call' = [call EXCEPT ![c] = r], at' = [at EXCEPT ![c] = l], UNCHANGED waitVars,
         at[c] # "woken",
         l # "idle" => r.thread \in Structs,
         c # Owner => /\ r.word \in OthersWords
                      /\ l \in {"idle", "join", "unborn?"} \cup W!WaitLabels
  PROVE  CallersOK'
<1>1. asleep'[c] = Awake
  BY DEF CallersOK, CallerOK, waitVars
<1>2. W!WaitTypeOK' /\ passed' \subseteq Callers
  BY DEF CallersOK, waitVars, W!WaitTypeOK, W!F!FutexTypeOK
<1>3. \A d \in Callers : asleep'[d] = asleep[d]
  BY DEF waitVars
<1> QED
  BY <1>1, <1>2, <1>3, CallerStep

LEMMA WakeStep ==
  ASSUME CallersOK, NEW cell, WakeOne(cell), UNCHANGED <<call, at>>
  PROVE  CallersOK'
<1> USE DEF CallersOK, W!WaitTypeOK, W!F!FutexTypeOK
<1>1. /\ asleep' \in [Callers -> ({"state", "tid"} \X Structs) \cup {Awake}]
      /\ result' \in [Callers -> W!F!Results]
      /\ \A c \in Callers : asleep'[c] \in {asleep[c], Awake}
  BY DEF WakeOne, W!F!FutexWakeOne, W!F!futexVars, W!F!Results, W!F!Sleepers
<1>2. passed' \subseteq Callers
  BY DEF WakeOne, W!F!Sleepers
<1>3. \A c \in Callers : CallerOK(c)'
  BY <1>1 DEF CallerOK, Cell
<1> QED
  BY <1>1, <1>2, <1>3 DEF WakeOne

(* What a call ends at, and the record it leaves.                          *)
LEMMA EndsAt ==
  ASSUME CallersOK, NEW c \in Callers, NEW l \in {"joined", "unjoined"}, at[c] # "idle"
  PROVE  /\ End(c, l) \in Labels \cup {"bye"}
         /\ OnTrue(c) \in Labels \cup {"bye"}
         /\ c # Owner => End(c, l) = "idle" /\ OnTrue(c) \in {"idle", "join"}
         /\ call[c] \in CallRecords /\ call[c].thread \in Structs
         /\ c # Owner => call[c].word \in OthersWords
<1>1. call[c] \in CallRecords /\ call[c].thread \in Structs
      /\ (c # Owner => call[c].word \in OthersWords)
  BY DEF CallersOK, CallerOK
<1> QED
  BY <1>1 DEF End, OnTrue, OthersWords, Labels

LEMMA ForgetStep ==
  ASSUME CallersOK, NEW c \in Callers, NEW l \in Labels \cup {"bye"},
         at' = [at EXCEPT ![c] = l], Forget(c)
  PROVE  call' = [call EXCEPT ![c] = IF l = "idle" THEN NoCall ELSE call[c]]
<1>1. at'[c] = l
  BY DEF CallersOK
<1> QED
  BY <1>1 DEF Forget, CallersOK

LEMMA ValueType ==
  ASSUME MemOK, NEW c \in Callers, call[c].thread \in Structs
  PROVE  Value(c) \in Nat
<1>1. /\ tid[call[c].thread] \in Clones \cup {0}
      /\ state[call[c].thread] \in States
  BY DEF MemOK, StructsOK
<1>2. States \subseteq Nat
  BY DEF States, Virgin, Starting, Running, Exited, Destroyed, Failed
<1>3. Clones \cup {0} \subseteq Nat
  BY ThreadsAssumption DEF ThreadsAssumption
<1>4. tid[call[c].thread] \in Nat /\ state[call[c].thread] \in Nat
  BY <1>1, <1>2, <1>3
<1> QED
  BY <1>4 DEF Value

(* The four steps of a futex wait.                                         *)
LEMMA WaitingStep ==
  ASSUME MemOK, CallersOK, NEW c \in Callers, WaitStep(c)
  PROVE  CallersOK'
<1> DEFINE Rec(l) == IF l = "idle" THEN NoCall ELSE call[c]
<1>1. at[c] \in W!WaitLabels
  BY DEF WaitStep, W!Test, W!Peek, W!Enter, W!Woken, W!WaitLabels
<1>2. /\ call[c] \in CallRecords /\ call[c].thread \in Structs
      /\ (c # Owner => call[c].word \in OthersWords)
  BY <1>1 DEF CallersOK, CallerOK, W!WaitLabels
<1>3. passed' \subseteq Callers
  BY DEF WaitStep, CallersOK
<1>4. ASSUME NEW l \in Labels \cup {"bye"}, at' = [at EXCEPT ![c] = l],
             c # Owner => l \in {"idle", "join", "unborn?"} \cup W!WaitLabels,
             W!WaitTypeOK',
             \A d \in Callers \ {c} : asleep'[d] = asleep[d],
             asleep'[c] # Awake => l = "woken" /\ asleep'[c] = Cell(c)
      PROVE  CallersOK'
  <2>1. call' = [call EXCEPT ![c] = Rec(l)]
    BY <1>4, ForgetStep DEF WaitStep
  <2>2. Rec(l) \in CallRecords /\ (l # "idle" => Rec(l).thread \in Structs)
    BY <1>2, NoCallType
  <2>3. c # Owner => Rec(l).word \in OthersWords
    BY <1>2, NoCallType DEF OthersWords
  <2>4. asleep'[c] # Awake => l = "woken" /\ asleep'[c] = <<Rec(l).field, Rec(l).thread>>
    BY <1>4 DEF Cell
  <2> HIDE DEF Rec
  <2> QED
    BY <1>3, <1>4, <2>1, <2>2, <2>3, <2>4, CallerStep
<1>5. /\ OnTrue(c) \in Labels \cup {"bye"} /\ End(c, "unjoined") \in Labels \cup {"bye"}
      /\ c # Owner => End(c, "unjoined") = "idle" /\ OnTrue(c) \in {"idle", "join"}
  BY <1>1, EndsAt DEF W!WaitLabels
<1>6. /\ {"peek", "enter", "woken", "test"} \subseteq Labels
      /\ {"peek", "enter", "woken", "test"} = W!WaitLabels
  BY DEF Labels, W!WaitLabels
<1> USE DEF W!Goto, W!WaitTypeOK, W!F!FutexTypeOK
<1>7. W!WaitTypeOK /\ (asleep[c] # Awake => at[c] = "woken" /\ asleep[c] = Cell(c))
  BY DEF CallersOK, CallerOK
<1>8. CASE W!Test(c, Content(c), OnTrue(c))
  BY <1>4, <1>5, <1>6, <1>7, <1>8 DEF W!Test
<1>9. CASE W!Peek(c, Value(c))
  <2>1. Value(c) \in Nat
    BY <1>2, ValueType
  <2> QED
    BY <1>4, <1>6, <1>7, <1>9, <2>1 DEF W!Peek
<1>10. CASE W!Enter(c, Cell(c), Value(c))
  <2>1. Cell(c) \in {"state", "tid"} \X Structs
    BY <1>2 DEF Cell, CallRecords
  <2>2. W!WaitTypeOK'
    BY <1>7, <1>10, <2>1 DEF W!Enter, W!F!FutexWait, W!F!Results, W!F!Errors
  <2>3. asleep'[c] # Awake => asleep'[c] = Cell(c)
    BY <1>7, <1>10 DEF W!Enter, W!F!FutexWait
  <2>4. \A d \in Callers \ {c} : asleep'[d] = asleep[d]
    BY <1>7, <1>10 DEF W!Enter, W!F!FutexWait
  <2>5. at' = [at EXCEPT ![c] = "woken"]
    BY <1>10 DEF W!Enter
  <2> QED
    BY <1>4, <1>6, <2>2, <2>3, <2>4, <2>5
<1>11. CASE W!Woken(c, Content(c), call[c].timed, OnTrue(c), End(c, "unjoined"))
  BY <1>4, <1>5, <1>6, <1>7, <1>11 DEF W!Woken, W!F!FutexForget, W!F!Results
<1> QED
  BY <1>8, <1>9, <1>10, <1>11 DEF WaitStep

LEMMA LabelTypes ==
  {"idle", "clone", "destroy", "join", "unborn?", "bye", "test"} \subseteq Labels \cup {"bye"}
  BY DEF Labels, W!WaitLabels

LEMMA ChosenStruct ==
  ASSUME Virgins # {}
  PROVE  (CHOOSE v \in Virgins : TRUE) \in Structs
  BY DEF Virgins

(* A call that ends.                                                       *)
LEMMA ReturnStep ==
  ASSUME CallersOK, NEW c \in Callers, Return(c), UNCHANGED waitVars, at[c] # "woken"
  PROVE  CallersOK'
<1>1. NoCall \in CallRecords /\ NoCall.word \in OthersWords
  BY NoCallType DEF OthersWords
<1> QED
  BY <1>1, LabelTypes, PlainStep DEF Return, Goto

(* The owner's own calls.                                                  *)
LEMMA OwnersStep ==
  ASSUME MemOK, CallersOK, Beginning \/ WorkerEnqueue \/ Ending
  PROVE  CallersOK'
<1> USE WorkerAssumption DEF WorkerAssumption, Goto, OwnersWords
<1>1. CASE WorkerStart
  <2>1. CASE ThreadStart(Owner, current) /\ current # NoStruct
    <3>1. current \in Structs
      BY <2>1 DEF MemOK
    <3>2. Call("thread-start/3", current, FALSE) \in CallRecords
          /\ Call("thread-start/3", current, FALSE).thread = current
      BY <3>1, UntimedCall
    <3> QED
      BY <2>1, <3>1, <3>2, LabelTypes, PlainStep DEF ThreadStart
  <2>2. CASE InitThread(Owner) /\ Virgins # {}
    <3> DEFINE s == CHOOSE v \in Virgins : TRUE
    <3>1. s \in Structs
      BY <2>2, ChosenStruct
    <3>2. Call("thread-start", s, FALSE) \in CallRecords
          /\ Call("thread-start", s, FALSE).thread = s
      BY <3>1, UntimedCall
    <3>3. /\ at[Owner] = "idle" /\ at' = [at EXCEPT ![Owner] = "clone"]
          /\ call' = [call EXCEPT ![Owner] = Call("thread-start", s, FALSE)]
          /\ UNCHANGED waitVars
      BY <2>2 DEF InitThread
    <3> HIDE DEF s
    <3> QED
      BY <3>1, <3>2, <3>3, LabelTypes, PlainStep
  <2> QED
    BY <1>1, <2>1, <2>2 DEF WorkerStart
<1>2. CASE WorkerClones \/ CloneFails(Owner) \/ DestroyJoined
  BY <1>2, ReturnStep
     DEF WorkerClones, Cloned, CloneFails, DestroyJoined, DestroyThread
<1>3. CASE WorkerEnqueue
  BY <1>3 DEF WorkerEnqueue, Quietly, waitVars, CallersOK, CallerOK, Cell,
              W!WaitTypeOK, W!F!FutexTypeOK
<1>4. ASSUME NEW word \in OwnersWords, NEW limit \in BOOLEAN, Stops(word, limit)
      PROVE  CallersOK'
  <2>1. current \in Structs
    BY <1>4 DEF MemOK, Stops
  <2>2. Call(word, current, limit) \in CallRecords
        /\ Call(word, current, limit).thread = current
    BY <2>1, CallType
  <2> QED
    BY <1>4, <2>1, <2>2, LabelTypes, PlainStep DEF Stops, OwnerAt, Quietly
<1>5. CASE WorkerStop \/ DestroyWorker
  BY <1>4, <1>5 DEF WorkerStop, DestroyWorker
<1>6. CASE DestroyStopped
  <2>1. current \in Structs
    BY <1>6 DEF MemOK, DestroyStopped
  <2>2. Call("destroy-worker/2", current, FALSE) \in CallRecords
        /\ Call("destroy-worker/2", current, FALSE).thread = current
    BY <2>1, UntimedCall
  <2> QED
    BY <1>6, <2>1, <2>2, LabelTypes, PlainStep DEF DestroyStopped, OwnerAt, Quietly
<1>7. CASE EnqueueBye
  <2>1. CASE Return(Owner)
    BY <1>7, <2>1, ReturnStep DEF EnqueueBye, OwnerAt, Quietly
  <2>2. CASE Goto(Owner, "join") /\ UNCHANGED call
    <3>1. call[Owner] \in CallRecords /\ call[Owner].thread \in Structs
          /\ call' = [call EXCEPT ![Owner] = call[Owner]]
      BY <1>7, <2>2 DEF CallersOK, CallerOK, EnqueueBye, OwnerAt
    <3> QED
      BY <1>7, <2>2, <3>1, LabelTypes, PlainStep DEF EnqueueBye, OwnerAt, Quietly
  <2> QED
    BY <1>7, <2>1, <2>2 DEF EnqueueBye
<1> QED
  BY <1>1, <1>2, <1>3, <1>5, <1>6, <1>7 DEF Beginning, Ending

(* The waits of everybody.                                                 *)
LEMMA WaitersStep ==
  ASSUME MemOK, CallersOK, NEW c \in Callers, Waiting(c)
  PROVE  CallersOK'
<1> USE DEF Goto
<1>1. CASE Waits(c)
  <2>1. current \in Structs /\ c # Owner /\ at[c] = "idle" /\ UNCHANGED waitVars
    BY <1>1 DEF Waits, Await, MemOK
  <2>2. PICK word \in {"thread-wait-to-start/2", "thread-join/2"} :
              Await(c, word, current, FALSE)
    BY <1>1 DEF Waits
  <2>3. /\ Call(word, current, FALSE) \in CallRecords
        /\ Call(word, current, FALSE).thread = current
        /\ Call(word, current, FALSE).word \in OthersWords
    BY <2>1, UntimedCall DEF OthersWords
  <2>4. PICK l \in {"join", "test"} : at' = [at EXCEPT ![c] = l]
    BY <2>2 DEF Await
  <2>5. l \in Labels \cup {"bye"} /\ l \in {"idle", "join", "unborn?"} \cup W!WaitLabels
    BY LabelTypes DEF W!WaitLabels
  <2> QED
    BY <2>1, <2>2, <2>3, <2>4, <2>5, PlainStep DEF Await
<1>2. ASSUME at[c] \in {"join", "unborn?"}
      PROVE  /\ call[c] \in CallRecords /\ call[c].thread \in Structs
             /\ c # Owner => call[c].word \in OthersWords
             /\ End(c, "joined") \in Labels \cup {"bye"}
             /\ c # Owner => End(c, "joined") = "idle"
  BY <1>2, EndsAt DEF CallersOK, CallerOK
<1>3. ASSUME at[c] \in {"join", "unborn?"}, NEW f \in {"state", "tid"}
      PROVE  LET r == [call[c] EXCEPT !.field = f]
             IN  /\ r \in CallRecords /\ r.thread \in Structs
                 /\ c # Owner => r.word \in OthersWords
                 /\ [call EXCEPT ![c].field = f] = [call EXCEPT ![c] = r]
  <2>1. call[c] \in CallRecords
    BY <1>2, <1>3
  <2> QED
    BY <1>2, <1>3, <2>1 DEF CallRecords, CallersOK
<1>4. ASSUME at[c] \in {"join", "unborn?"}, NEW f \in {"state", "tid"},
             call' = [call EXCEPT ![c].field = f], at' = [at EXCEPT ![c] = "test"],
             UNCHANGED waitVars
      PROVE  CallersOK'
  <2>1. "test" \in W!WaitLabels
    BY DEF W!WaitLabels
  <2> QED
    BY <1>3, <1>4, <2>1, LabelTypes, PlainStep
<1>5. CASE Join(c)
  <2>1. CASE tid[call[c].thread] > 0
    BY <1>4, <1>5, <2>1 DEF Join
  <2>2. CASE ~(tid[call[c].thread] > 0)
    <3>1. call' = [call EXCEPT ![c] = call[c]]
      BY <1>5, <2>2 DEF Join, CallersOK
    <3> QED
      BY <1>2, <1>5, <2>2, <3>1, LabelTypes, PlainStep DEF Join
  <2> QED
    BY <2>1, <2>2
<1>6. CASE Unborn(c)
  <2>1. CASE state[call[c].thread] < Running
    BY <1>4, <1>6, <2>1 DEF Unborn
  <2>2. CASE ~(state[call[c].thread] < Running)
    <3> DEFINE l == End(c, "joined")
               r == IF l = "idle" THEN NoCall ELSE call[c]
    <3>1. at[c] = "unborn?" /\ at' = [at EXCEPT ![c] = l] /\ Forget(c) /\ UNCHANGED waitVars
      BY <1>6, <2>2 DEF Unborn
    <3>2. l \in Labels \cup {"bye"} /\ (c # Owner => l = "idle")
      BY <1>2, <3>1
    <3>3. r \in CallRecords /\ (l # "idle" => r.thread \in Structs)
          /\ (c # Owner => r.word \in OthersWords)
      BY <1>2, <3>1, NoCallType DEF OthersWords
    <3> HIDE DEF l
    <3>4. call' = [call EXCEPT ![c] = r]
      BY <3>1, <3>2, ForgetStep
    <3> HIDE DEF r
    <3> QED
      BY <3>1, <3>2, <3>3, <3>4, PlainStep
  <2> QED
    BY <2>1, <2>2
<1>7. CASE WaitStep(c)
  BY <1>7, WaitingStep
<1>8. CASE WaitKernel(c)
  <2>1. PICK e \in {"ETIMEDOUT", "EINTR"} : W!GiveUp(c, e)
    BY <1>8 DEF WaitKernel
  <2>2. /\ asleep' = [asleep EXCEPT ![c] = Awake]
        /\ result' = [result EXCEPT ![c] = e] /\ UNCHANGED <<at, expected, call, passed>>
    BY <1>8, <2>1 DEF W!GiveUp, W!F!FutexGiveUp, WaitKernel
  <2>3. W!WaitTypeOK'
    BY <2>2 DEF CallersOK, W!WaitTypeOK, W!F!FutexTypeOK, W!F!Results, W!F!Errors
  <2>4. \A d \in Callers : CallerOK(d)'
    BY <2>2 DEF CallersOK, CallerOK, Cell, W!WaitTypeOK, W!F!FutexTypeOK
  <2> QED
    BY <2>2, <2>3, <2>4 DEF CallersOK
<1> QED
  BY <1>1, <1>5, <1>6, <1>7, <1>8 DEF Waiting, Awaiting

LEMMA CallersStep ==
  ASSUME MemOK, CallersOK, [Next]_workerVars
  PROVE  CallersOK'
<1>1. ASSUME NEW b \in Clones, Working(b)
      PROVE  CallersOK'
  <2>1. CASE Announce(b) \/ Tell(b)
    BY <2>1, WakeStep DEF Announce, Tell
  <2>2. CASE UNCHANGED <<at, call, waitVars>>
    BY <2>2 DEF waitVars, CallersOK, CallerOK, Cell, W!WaitTypeOK, W!F!FutexTypeOK
  <2> QED
    BY <1>1, <2>1, <2>2
       DEF Working, Living, Pop, PopFails, Quiet, SetTid, SayRunning, ThreadReturn, ClearTid
<1>2. CASE UNCHANGED workerVars
  BY <1>2 DEF workerVars, threadsVars, waitVars, CallersOK, CallerOK, Cell, W!WaitTypeOK,
              W!F!FutexTypeOK
<1> QED
  BY <1>1, <1>2, OwnersStep, WaitersStep DEF Next

LEMMA TypeStep == TypeInv /\ [Next]_workerVars => TypeInv'
  BY MemStep, InputStep, CallersStep DEF TypeInv

LEMMA InitType == Init => TypeInv
<1> SUFFICES ASSUME Init PROVE TypeInv
  OBVIOUS
<1> USE DEF Init, ThreadsInit
<1>1. MemOK
  BY DEF MemOK, StructsOK, States, Virgin, Stages, NoStruct
<1>2. InputOK
  BY WorkerAssumption, EmptySeq DEF InputOK, WorkerAssumption
<1>3. CallersOK
  <2>1. W!WaitTypeOK /\ \A c \in Callers : asleep[c] = Awake
    BY DEF W!WaitInit, W!F!FutexInit, W!WaitTypeOK, W!F!FutexTypeOK, W!F!Results
  <2>2. call \in [Callers -> CallRecords] /\ at \in [Callers -> Labels \cup {"bye"}]
    BY NoCallType, LabelTypes
  <2> QED
    BY <2>1, <2>2, NoCallType DEF CallersOK, CallerOK, OthersWords
<1> QED
  BY <1>1, <1>2, <1>3 DEF TypeInv

(* Every state a worker reaches is one of the code's, calls and sleepers   *)
(* included.                                                               *)
THEOREM WorkerTypeCorrect == Spec => []WorkerTypeOK
<1>1. TypeInv => WorkerTypeOK
  <2> SUFFICES ASSUME TypeInv PROVE WorkerTypeOK
    OBVIOUS
  <2>1. \A c \in Callers : call[c] \in CallRecords
    BY DEF TypeInv, CallersOK
  <2>2. CallsOK
    BY <2>1 DEF CallsOK, TypeInv, CallersOK, CallRecords
  <2> QED
    BY <2>2 DEF WorkerTypeOK, TypeInv, MemOK, InputOK, CallersOK
<1> QED
  BY <1>1, InitType, TypeStep, PTL DEF Spec

-----------------------------------------------------------------------------
(* What is relied on holds with what is promised, and not without it: the  *)
(* owner destroys a thread because its tid is zero.                        *)
Tells(s) ==
  /\ \A b, o \in Clones :
       on[b] = s /\ OnStack(b) /\ on[o] = s /\ OnStack(o) => b = o
  /\ \A b \in Clones :
       on[b] = s /\ OnStack(b) => tid[s] = IF stage[b] = "cloned" THEN 0 ELSE b
  /\ (\A b \in Clones : on[b] = s => ~OnStack(b)) => tid[s] = 0

TidsTell == \A s \in Structs \ overlapped : Tells(s)

WorkerInv == TypeInv /\ LifeInv /\ TidsTell /\ StackOutlives

(* As far as the owner sees, clones only leave.                            *)
Leaving ==
  /\ UNCHANGED <<on, mapped, overlapped, current, unborn, gaveUp>>
  /\ at'[Owner] = at[Owner] /\ call'[Owner] = call[Owner]
  /\ \A b \in Clones :
       /\ stage'[b] = "none" <=> stage[b] = "none"
       /\ stage'[b] = "cloned" => stage[b] = "cloned"
       /\ Busy(b)' => Busy(b)
       /\ OnStack(b)' => OnStack(b)
  /\ \A s \in Structs : Left(s) => state'[s] = state[s]

LEMMA OwnerKeeps ==
  ASSUME MemOK, CallersOK, OwnerInv, Leaving
  PROVE  OwnerInv'
<1>1. /\ Unused' = Unused /\ current' = current /\ unborn' = unborn
      /\ \A b \in Clones : on'[b] = on[b]
  BY DEF Leaving, Unused
<1>2. \A s \in Structs \cup {NoStruct} : (Over(s) => Over(s)') /\ (Born(s) => Born(s)')
  BY <1>1 DEF Leaving, Over, Born
<1>3. CASE OwnerAt("clone")
  <2> DEFINE s == call[Owner].thread
  <2>1. s \in Structs /\ Starts /\ call'[Owner] = call[Owner] /\ at'[Owner] = "clone"
    BY <1>3, WorkerAssumption
       DEF OwnerInv, CallersOK, CallerOK, WorkerAssumption, Leaving, OwnerAt
  <2>2. Left(s) /\ mapped[s] /\ state[s] = Starting
    BY <2>1 DEF Starts
  <2>3. Left(s)' /\ mapped'[s] /\ state'[s] = Starting
    BY <2>1, <2>2 DEF Leaving, Left
  <2> QED
    BY <1>1, <2>1, <2>3 DEF OwnerInv, Starts, OwnerAt
<1>4. CASE ~OwnerAt("clone")
  BY <1>1, <1>2, <1>4 DEF OwnerInv, Ends, OwnerAt, Leaving, MemOK
<1> QED
  BY <1>3, <1>4

LEMMA AliveMeans == TidsTell => AliveTells
  BY DEF TidsTell, Tells, AliveTells

LEMMA StacksKeep ==
  ASSUME StackOutlives, Leaving
  PROVE  StackOutlives'
  BY DEF StackOutlives, Leaving

LEMMA ClonePositive == \A b \in Clones : b \in Nat /\ b # 0
  BY ThreadsAssumption DEF ThreadsAssumption

LEMMA TidNatural ==
  ASSUME NEW t \in Clones \cup {0}
  PROVE  t \in Nat /\ (~(t > 0) <=> t = 0)
<1>1. t \in Nat
  BY ClonePositive
<1> QED
  BY <1>1

(* The steps of a clone.                                                   *)
LEMMA CloneLives ==
  ASSUME WorkerInv, Standing, NEW b \in Clones, Working(b)
  PROVE  (LifeInv /\ TidsTell /\ StackOutlives)'
<1> DEFINE s == on[b]
<1>a. /\ \A o \in Clones : CloneOK(o)
      /\ \A r \in Structs : StructOK(r)
      /\ state \in [Structs -> States] /\ tid \in [Structs -> Clones \cup {0}]
      /\ stage \in [Clones -> Stages]
  BY DEF WorkerInv, LifeInv, TypeInv, MemOK, StructsOK
<1>b. stage[b] \notin {"none"} /\ UNCHANGED <<on, mapped, overlapped, current, excuses>>
      /\ UNCHANGED <<at, call>>
  BY DEF Working, Pop, PopFails, Quiet, Living, SetTid, SayRunning, Announce,
         ThreadReturn, ClearTid, Tell, excuses, workVars, structVars
<1>c. s \in Structs
  BY <1>a, <1>b DEF CloneOK
<1>d. mapped[s] \/ ~OnStack(b)
  BY DEF Standing
<1>e. ASSUME Leaving, \A r \in Structs : StructOK(r)', \A o \in Clones : CloneOK(o)',
             \A r \in Structs \ overlapped : Tells(r)'
      PROVE  (LifeInv /\ TidsTell /\ StackOutlives)'
  <2>1. TidsTell'
    BY <1>b, <1>e DEF TidsTell
  <2> QED
    BY <1>e, <2>1, OwnerKeeps, StacksKeep DEF WorkerInv, TypeInv, LifeInv
<1>1. CASE SetTid(b)
  <2>1. /\ \A o \in Clones : stage'[o] = IF o = b THEN "init" ELSE stage[o]
        /\ UNCHANGED state /\ tid' = [tid EXCEPT ![s] = b] /\ stage[b] = "cloned"
    BY <1>a, <1>c, <1>1 DEF SetTid, Advance
  <2>2. Leaving
    BY <1>a, <1>b, <1>1, <2>1 DEF Leaving, OnStack, Busy, Left, excuses
  <2>3. \A r \in Structs : StructOK(r)'
    BY <1>a, <1>b, <1>c, <1>d, <1>1, <2>1 DEF StructOK, CloneOK, Left, OnStack, Busy
  <2>4. \A o \in Clones : CloneOK(o)'
    BY <1>a, <1>b, <1>c, <1>1, <2>1 DEF CloneOK, OnStack, Busy
  <2>5. \A r \in Structs \ overlapped : Tells(r)'
    BY <1>a, <1>b, <1>c, <1>1, <2>1, ClonePositive DEF WorkerInv, TidsTell, Tells, OnStack
  <2> QED
    BY <1>e, <2>2, <2>3, <2>4, <2>5
<1>2. CASE SayRunning(b)
  <2>1. /\ \A o \in Clones : stage'[o] = IF o = b THEN "announce" ELSE stage[o]
        /\ UNCHANGED tid /\ state' = [state EXCEPT ![s] = Running] /\ stage[b] = "init"
    BY <1>a, <1>c, <1>2 DEF SayRunning, Advance
  <2>2. Leaving
    BY <1>a, <1>b, <1>2, <2>1 DEF Leaving, OnStack, Busy, Left, excuses
  <2>3. \A r \in Structs : StructOK(r)'
    BY <1>a, <1>b, <1>c, <1>d, <1>2, <2>1 DEF StructOK, CloneOK, Left, OnStack, Busy, Virgin, Exited, Destroyed, Starting, Running
  <2>4. \A o \in Clones : CloneOK(o)'
    BY <1>a, <1>b, <1>c, <1>2, <2>1 DEF CloneOK, OnStack, Busy
  <2>5. \A r \in Structs \ overlapped : Tells(r)'
    BY <1>a, <1>b, <1>c, <1>2, <2>1, ClonePositive DEF WorkerInv, TidsTell, Tells, OnStack
  <2> QED
    BY <1>e, <2>2, <2>3, <2>4, <2>5
<1>3. CASE Announce(b)
  <2>1. /\ \A o \in Clones : stage'[o] = IF o = b THEN "run" ELSE stage[o]
        /\ UNCHANGED <<tid, state>> /\ stage[b] = "announce"
    BY <1>a, <1>c, <1>3 DEF Announce, Advance, structVars
  <2>2. Leaving
    BY <1>a, <1>b, <1>3, <2>1 DEF Leaving, OnStack, Busy, Left, excuses
  <2>3. \A r \in Structs : StructOK(r)'
    BY <1>a, <1>b, <1>c, <1>d, <1>3, <2>1 DEF StructOK, CloneOK, Left, OnStack, Busy
  <2>4. \A o \in Clones : CloneOK(o)'
    BY <1>a, <1>b, <1>c, <1>3, <2>1 DEF CloneOK, OnStack, Busy
  <2>5. \A r \in Structs \ overlapped : Tells(r)'
    BY <1>a, <1>b, <1>c, <1>3, <2>1, ClonePositive DEF WorkerInv, TidsTell, Tells, OnStack
  <2> QED
    BY <1>e, <2>2, <2>3, <2>4, <2>5
<1>4. CASE ThreadReturn(b)
  <2>1. /\ \A o \in Clones : stage'[o] = IF o = b THEN "leaving" ELSE stage[o]
        /\ UNCHANGED tid /\ state' = [state EXCEPT ![s] = Exited] /\ stage[b] = "return"
    BY <1>a, <1>c, <1>4 DEF ThreadReturn, Advance
  <2>2. Leaving
    BY <1>a, <1>b, <1>4, <2>1 DEF Leaving, OnStack, Busy, Left, excuses
  <2>3. \A r \in Structs : StructOK(r)'
    BY <1>a, <1>b, <1>c, <1>d, <1>4, <2>1 DEF StructOK, CloneOK, Left, OnStack, Busy, Virgin, Exited, Destroyed, Starting, Running
  <2>4. \A o \in Clones : CloneOK(o)'
    BY <1>a, <1>b, <1>c, <1>4, <2>1 DEF CloneOK, OnStack, Busy
  <2>5. \A r \in Structs \ overlapped : Tells(r)'
    BY <1>a, <1>b, <1>c, <1>4, <2>1, ClonePositive DEF WorkerInv, TidsTell, Tells, OnStack
  <2> QED
    BY <1>e, <2>2, <2>3, <2>4, <2>5
<1>5. CASE ClearTid(b)
  <2>1. /\ \A o \in Clones : stage'[o] = IF o = b THEN "told" ELSE stage[o]
        /\ UNCHANGED state /\ tid' = [tid EXCEPT ![s] = 0] /\ stage[b] \in {"leaving", "bye"}
    BY <1>a, <1>c, <1>5 DEF ClearTid, Advance
  <2>2. Leaving
    BY <1>a, <1>b, <1>5, <2>1 DEF Leaving, OnStack, Busy, Left, excuses
  <2>3. \A r \in Structs : StructOK(r)'
    BY <1>a, <1>b, <1>c, <1>d, <1>5, <2>1 DEF StructOK, CloneOK, Left, OnStack, Busy
  <2>4. \A o \in Clones : CloneOK(o)'
    BY <1>a, <1>b, <1>c, <1>5, <2>1 DEF CloneOK, OnStack, Busy
  <2>5. \A r \in Structs \ overlapped : Tells(r)'
    BY <1>a, <1>b, <1>c, <1>5, <2>1, ClonePositive DEF WorkerInv, TidsTell, Tells, OnStack
  <2> QED
    BY <1>e, <2>2, <2>3, <2>4, <2>5
<1>6. CASE Tell(b)
  <2>1. /\ \A o \in Clones : stage'[o] = IF o = b THEN "gone" ELSE stage[o]
        /\ UNCHANGED <<tid, state>> /\ stage[b] = "told"
    BY <1>a, <1>c, <1>6 DEF Tell, Advance, structVars
  <2>2. Leaving
    BY <1>a, <1>b, <1>6, <2>1 DEF Leaving, OnStack, Busy, Left, excuses
  <2>3. \A r \in Structs : StructOK(r)'
    BY <1>a, <1>b, <1>c, <1>d, <1>6, <2>1 DEF StructOK, CloneOK, Left, OnStack, Busy
  <2>4. \A o \in Clones : CloneOK(o)'
    BY <1>a, <1>b, <1>c, <1>6, <2>1 DEF CloneOK, OnStack, Busy
  <2>5. \A r \in Structs \ overlapped : Tells(r)'
    BY <1>a, <1>b, <1>c, <1>6, <2>1, ClonePositive DEF WorkerInv, TidsTell, Tells, OnStack
  <2> QED
    BY <1>e, <2>2, <2>3, <2>4, <2>5
<1>7. CASE Pop(b) /\ Head(input) = Bye
  <2>1. /\ \A o \in Clones : stage'[o] = IF o = b THEN "bye" ELSE stage[o]
        /\ UNCHANGED <<tid, state>> /\ stage[b] = "run"
    BY <1>a, <1>c, <1>7 DEF Pop, Advance, structVars, Quiet
  <2>2. Leaving
    BY <1>a, <1>b, <1>7, <2>1 DEF Leaving, OnStack, Busy, Left, excuses
  <2>3. \A r \in Structs : StructOK(r)'
    BY <1>a, <1>b, <1>c, <1>d, <1>7, <2>1 DEF StructOK, CloneOK, Left, OnStack, Busy
  <2>4. \A o \in Clones : CloneOK(o)'
    BY <1>a, <1>b, <1>c, <1>7, <2>1 DEF CloneOK, OnStack, Busy
  <2>5. \A r \in Structs \ overlapped : Tells(r)'
    BY <1>a, <1>b, <1>c, <1>7, <2>1, ClonePositive DEF WorkerInv, TidsTell, Tells, OnStack
  <2> QED
    BY <1>e, <2>2, <2>3, <2>4, <2>5
<1>8. CASE Pop(b) /\ Head(input) # Bye
  <2>1. /\ \A o \in Clones : stage'[o] = IF o = b THEN "run" ELSE stage[o]
        /\ UNCHANGED <<tid, state>> /\ stage[b] = "run"
    BY <1>a, <1>c, <1>8 DEF Pop, Advance, structVars, Quiet
  <2>2. Leaving
    BY <1>a, <1>b, <1>8, <2>1 DEF Leaving, OnStack, Busy, Left, excuses
  <2>3. \A r \in Structs : StructOK(r)'
    BY <1>a, <1>b, <1>c, <1>d, <1>8, <2>1 DEF StructOK, CloneOK, Left, OnStack, Busy
  <2>4. \A o \in Clones : CloneOK(o)'
    BY <1>a, <1>b, <1>c, <1>8, <2>1 DEF CloneOK, OnStack, Busy
  <2>5. \A r \in Structs \ overlapped : Tells(r)'
    BY <1>a, <1>b, <1>c, <1>8, <2>1, ClonePositive DEF WorkerInv, TidsTell, Tells, OnStack
  <2> QED
    BY <1>e, <2>2, <2>3, <2>4, <2>5
<1>9. CASE PopFails(b)
  <2>1. /\ \A o \in Clones : stage'[o] = IF o = b THEN "return" ELSE stage[o]
        /\ UNCHANGED <<tid, state>> /\ stage[b] = "run"
    BY <1>a, <1>c, <1>9 DEF PopFails, Advance, structVars, Quiet
  <2>2. Leaving
    BY <1>a, <1>b, <1>9, <2>1 DEF Leaving, OnStack, Busy, Left, excuses
  <2>3. \A r \in Structs : StructOK(r)'
    BY <1>a, <1>b, <1>c, <1>d, <1>9, <2>1 DEF StructOK, CloneOK, Left, OnStack, Busy
  <2>4. \A o \in Clones : CloneOK(o)'
    BY <1>a, <1>b, <1>c, <1>9, <2>1 DEF CloneOK, OnStack, Busy
  <2>5. \A r \in Structs \ overlapped : Tells(r)'
    BY <1>a, <1>b, <1>c, <1>9, <2>1, ClonePositive DEF WorkerInv, TidsTell, Tells, OnStack
  <2> QED
    BY <1>e, <2>2, <2>3, <2>4, <2>5
<1> QED
  BY <1>1, <1>2, <1>3, <1>4, <1>5, <1>6, <1>7, <1>8, <1>9 DEF Working, Living

(* A struct is handed to a thread: nobody busy is on it.                   *)
LEMMA StartLives ==
  ASSUME WorkerInv, WorkerStart
  PROVE  (LifeInv /\ TidsTell /\ StackOutlives)'
<1> DEFINE s == call'[Owner].thread
<1>a. /\ \A o \in Clones : CloneOK(o)
      /\ \A r \in Structs : StructOK(r)
      /\ state \in [Structs -> States] /\ mapped \in [Structs -> BOOLEAN]
      /\ call \in [Callers -> CallRecords] /\ at \in [Callers -> Labels \cup {"bye"}]
  BY DEF WorkerInv, LifeInv, TypeInv, MemOK, StructsOK, CallersOK
<1>b. UNCHANGED <<on, stage, tid, overlapped, current, excuses>> /\ at'[Owner] = "clone"
  BY <1>a, WorkerAssumption
     DEF WorkerStart, ThreadStart, InitThread, Goto, cloneVars, workVars, WorkerAssumption
<1>c. /\ s \in Structs /\ Left(s) /\ mapped'[s]
      /\ state' = [state EXCEPT ![s] = Starting]
      /\ mapped' = [mapped EXCEPT ![s] = TRUE]
      /\ call'[Owner].word \in {"thread-start", "thread-start/3"}
      /\ call'[Owner].word = "thread-start" => \A o \in Clones : on[o] # s
  <2>1. CASE ThreadStart(Owner, current) /\ current # NoStruct /\ Startable(current)
    <3>1. current \in Structs
      BY <2>1 DEF WorkerInv, TypeInv, MemOK
    <3>2. s = current /\ call'[Owner].word = "thread-start/3"
      BY <1>a, <2>1, WorkerAssumption DEF ThreadStart, Call, WorkerAssumption
    <3>3. Left(current) /\ mapped[current]
      BY <1>a, <2>1, <3>1 DEF Startable, StructOK, Exited, Virgin, Destroyed
    <3> HIDE DEF s
    <3> QED
      BY <1>a, <2>1, <3>1, <3>2, <3>3 DEF ThreadStart
  <2>2. CASE InitThread(Owner) /\ Virgins # {}
    <3> DEFINE v == CHOOSE v \in Virgins : TRUE
    <3>1. v \in Virgins
      BY <2>2
    <3>2. /\ call' = [call EXCEPT ![Owner] = Call("thread-start", v, FALSE)]
          /\ state' = [state EXCEPT ![v] = Starting]
          /\ mapped' = [mapped EXCEPT ![v] = TRUE]
      BY <2>2 DEF InitThread
    <3> HIDE DEF v
    <3>3. s = v /\ call'[Owner].word = "thread-start"
      BY <1>a, <3>2, WorkerAssumption DEF Call, WorkerAssumption
    <3>4. v \in Structs /\ \A o \in Clones : on[o] # v
      BY <1>a, <3>1 DEF Virgins, StructOK
    <3> HIDE DEF s
    <3> QED
      BY <1>a, <3>2, <3>3, <3>4 DEF Left
  <2> QED
    BY <2>1, <2>2 DEF WorkerStart
<1> HIDE DEF s
<1>1. \A r \in Structs : StructOK(r)'
  BY <1>a, <1>b, <1>c DEF StructOK, Left, Busy, OnStack, Virgin, Exited, Starting
<1>2. \A o \in Clones : CloneOK(o)'
  BY <1>a, <1>b, <1>c DEF CloneOK, Left, Busy, OnStack
<1>3. OwnerInv'
  <2>1. Unused # {}
    BY DEF WorkerStart
  <2>2. /\ \A o \in Clones : on'[o] = s => ~Busy(o)'
        /\ Unused' # {} /\ state'[s] = Starting
    BY <1>a, <1>b, <1>c, <2>1 DEF Left, Busy, OnStack, Unused
  <2>3. \A o \in Clones : on'[o] = on[o]
    BY <1>b
  <2> QED
    BY <1>b, <1>c, <2>2, <2>3 DEF OwnerInv, OwnerAt, Starts, Left, s
<1>4. TidsTell'
  BY <1>b DEF WorkerInv, TidsTell, Tells, OnStack
<1>5. StackOutlives'
  BY <1>a, <1>b, <1>c DEF WorkerInv, StackOutlives, OnStack, excuses, CloneOK
<1> QED
  BY <1>1, <1>2, <1>3, <1>4, <1>5 DEF LifeInv

(* The clone call, either way.                                             *)
LEMMA ClonesLive ==
  ASSUME WorkerInv, WorkerClones \/ (CloneFails(Owner) /\ UNCHANGED <<workVars, excuses>>)
  PROVE  (LifeInv /\ TidsTell /\ StackOutlives)'
<1> DEFINE s == call[Owner].thread
<1>a. /\ \A o \in Clones : CloneOK(o)
      /\ \A r \in Structs : StructOK(r)
      /\ state \in [Structs -> States] /\ mapped \in [Structs -> BOOLEAN]
      /\ on \in [Clones -> Structs \cup {NoStruct}] /\ stage \in [Clones -> Stages]
      /\ at \in [Callers -> Labels \cup {"bye"}]
  BY DEF WorkerInv, LifeInv, TypeInv, MemOK, StructsOK, CallersOK
<1>b. s \in Structs /\ Starts /\ at'[Owner] = "idle"
  BY <1>a, WorkerAssumption
     DEF WorkerClones, Cloned, CloneFails, Return, Goto, WorkerInv, LifeInv, OwnerInv,
         OwnerAt, TypeInv, CallersOK, CallerOK, WorkerAssumption
<1>c. mapped[s] /\ state[s] = Starting /\ Left(s)
  BY <1>b DEF Starts
<1>d. OwnerInv'
  BY <1>b DEF OwnerInv, OwnerAt
<1>1. CASE WorkerClones
  <2> DEFINE b == CHOOSE u \in Unused : TRUE
  <2>1. b \in Clones /\ stage[b] = "none"
    BY <1>b DEF Starts, Unused
  <2>2. /\ on' = [on EXCEPT ![b] = s] /\ stage' = [stage EXCEPT ![b] = "cloned"]
        /\ overlapped' = IF \E o \in Clones : on[o] = s /\ stage[o] = "leaving"
                         THEN overlapped \cup {s} ELSE overlapped
        /\ UNCHANGED <<state, tid, mapped, gaveUp, unborn>>
    BY <1>1 DEF WorkerClones, Cloned, Advance, structVars, excuses
  <2> HIDE DEF b, s
  <2>3. \A o \in Clones : /\ on'[o] = IF o = b THEN s ELSE on[o]
                          /\ stage'[o] = IF o = b THEN "cloned" ELSE stage[o]
    BY <1>a, <2>2
  <2>4. overlapped \subseteq overlapped'
    BY <2>2
  <2>5. \A r \in Structs : StructOK(r)'
    BY <1>a, <1>b, <1>c, <2>1, <2>2, <2>3
       DEF StructOK, Left, Busy, OnStack, Virgin, Exited, Starting
  <2>6. \A o \in Clones : CloneOK(o)'
    BY <1>a, <1>b, <1>c, <2>1, <2>2, <2>3 DEF CloneOK, Left, Busy, OnStack
  <2>7. ASSUME NEW r \in Structs \ overlapped'
        PROVE  Tells(r)'
    <3>1. Tells(r)
      BY <2>4, <2>7 DEF WorkerInv, TidsTell
    <3>2. CASE r # s
      <4>1. \A o \in Clones :
               on'[o] = r /\ OnStack(o)' <=> on[o] = r /\ OnStack(o)
        BY <2>1, <2>3, <3>2 DEF OnStack
      <4>2. \A o \in Clones : on'[o] = r /\ OnStack(o)' => stage'[o] = stage[o]
        BY <2>3, <3>2
      <4>3. tid'[r] = tid[r]
        BY <2>2
      <4>4. ASSUME NEW o \in Clones, on'[o] = r, OnStack(o)'
            PROVE  tid'[r] = IF stage'[o] = "cloned" THEN 0 ELSE o
        BY <3>1, <4>1, <4>2, <4>3, <4>4 DEF Tells
      <4>5. (\A o \in Clones : on'[o] = r => ~OnStack(o)') => tid'[r] = 0
        BY <3>1, <4>1, <4>3 DEF Tells
      <4>6. ASSUME NEW o \in Clones, NEW q \in Clones,
                   on'[o] = r, OnStack(o)', on'[q] = r, OnStack(q)'
            PROVE  o = q
        BY <3>1, <4>1, <4>6 DEF Tells
      <4> HIDE DEF OnStack
      <4> QED
        BY <4>4, <4>5, <4>6 DEF Tells
    <3>3. CASE r = s
      <4>1. \A o \in Clones : on[o] = s => ~OnStack(o)
        BY <1>c, <2>2, <2>7, <3>3 DEF Left, Busy
      <4>2. tid[s] = 0
        BY <3>1, <3>3, <4>1 DEF Tells
      <4> QED
        BY <2>1, <2>2, <2>3, <3>3, <4>1, <4>2 DEF Tells, OnStack
    <3> QED
      BY <3>2, <3>3
  <2>8. TidsTell'
    BY <2>7 DEF TidsTell
  <2>9. StackOutlives'
    BY <1>c, <2>2, <2>3, <2>4 DEF WorkerInv, StackOutlives, OnStack
  <2> QED
    BY <1>d, <2>5, <2>6, <2>8, <2>9 DEF LifeInv
<1>2. CASE CloneFails(Owner) /\ UNCHANGED <<workVars, excuses>>
  <2>1. /\ UNCHANGED <<tid, on, stage, overlapped, gaveUp, unborn>>
        /\ \/ call[Owner].word = "thread-start" /\ state' = [state EXCEPT ![s] = Destroyed]
              /\ mapped' = [mapped EXCEPT ![s] = FALSE]
           \/ call[Owner].word # "thread-start" /\ state' = [state EXCEPT ![s] = Failed]
              /\ mapped' = [mapped EXCEPT ![s] = TRUE]
    BY <1>2 DEF CloneFails, cloneVars, excuses
  <2>2. call[Owner].word = "thread-start" => \A o \in Clones : on[o] # s
    BY <1>b DEF Starts
  <2> HIDE DEF s
  <2>3. \A r \in Structs : StructOK(r)'
    BY <1>a, <1>b, <1>c, <2>1
       DEF StructOK, Left, Busy, OnStack, Virgin, Exited, Destroyed, Failed
  <2>4. ASSUME NEW o \in Clones
        PROVE  CloneOK(o)'
    <3>1. CloneOK(o)
      BY <1>a
    <3>2. CASE on[o] = s
      BY <1>c, <2>1, <3>1, <3>2 DEF CloneOK, Left, Busy, OnStack
    <3>3. CASE on[o] # s
      <4>1. UNCHANGED <<on, stage>>
        BY <2>1
      <4>2. on[o] \in Structs =>
              state'[on[o]] = state[on[o]] /\ mapped'[on[o]] = mapped[on[o]]
        BY <1>a, <2>1, <3>3
      <4> QED
        BY <3>1, <4>1, <4>2 DEF CloneOK, Busy, OnStack
    <3> QED
      BY <3>2, <3>3
  <2>5. TidsTell'
    <3> SUFFICES ASSUME NEW r \in Structs \ overlapped
                 PROVE  Tells(r)'
      BY <2>1 DEF TidsTell
    <3>1. Tells(r)
      BY DEF WorkerInv, TidsTell
    <3>2. on' = on /\ stage' = stage /\ tid' = tid
      BY <2>1
    <3> QED
      BY ONLY <3>1, <3>2 DEF Tells, OnStack
  <2>6. StackOutlives'
    BY <1>a, <1>b, <1>c, <2>1, <2>2 DEF WorkerInv, StackOutlives, OnStack, CloneOK
  <2> QED
    BY <1>d, <2>3, <2>4, <2>5, <2>6 DEF LifeInv
<1> QED
  BY <1>1, <1>2

(* A step that leaves structs and clones alone only has the owner to ask.  *)
LEMMA AsideLives ==
  ASSUME WorkerInv, UNCHANGED <<structVars, cloneVars, overlapped, current>>,
         gaveUp \subseteq gaveUp', unborn \subseteq unborn', OwnerInv'
  PROVE  (LifeInv /\ TidsTell /\ StackOutlives)'
<1> USE DEF WorkerInv, LifeInv, structVars, cloneVars
<1>1. \A r \in Structs : StructOK(r)'
  BY DEF StructOK, Left, Busy, OnStack
<1>2. \A o \in Clones : CloneOK(o)'
  BY DEF CloneOK, Busy, OnStack
<1>3. TidsTell'
  BY DEF TidsTell, Tells, OnStack
<1>4. StackOutlives'
  BY DEF StackOutlives, OnStack
<1> QED
  BY <1>1, <1>2, <1>3, <1>4

(* What the owner may conclude from a tid.                                 *)
LEMMA TidMeans ==
  ASSUME WorkerInv, NEW s \in Structs
  PROVE  /\ tid[s] # 0 => Born(s)
         /\ tid[s] = 0 /\ Born(s) => Over(s)
         /\ tid[s] = 0 => Over(s) \/ \E b \in Clones : on[b] = s /\ stage[b] = "cloned"
<1>1. CASE s \in overlapped
  BY <1>1 DEF Born, Over
<1>2. CASE s \notin overlapped
  <2>1. Tells(s)
    BY <1>2 DEF WorkerInv, TidsTell
  <2> QED
    BY <1>2, <2>1, ClonePositive DEF Tells, Born, Over, OnStack
<1> QED
  BY <1>1, <1>2

(* The owner enqueues, stops and destroys.                                 *)
LEMMA EndsLive ==
  ASSUME WorkerInv, WorkerEnqueue \/ Ending
  PROVE  (LifeInv /\ TidsTell /\ StackOutlives)'
<1> USE WorkerAssumption DEF WorkerAssumption, OwnerAt
<1>a. /\ at \in [Callers -> Labels \cup {"bye"}] /\ call \in [Callers -> CallRecords]
      /\ current \in Structs \cup {NoStruct}
      /\ tid \in [Structs -> Clones \cup {0}]
      /\ OwnerInv
  BY DEF WorkerInv, TypeInv, MemOK, StructsOK, CallersOK, LifeInv
<1>1. CASE WorkerEnqueue
  <2>1. OwnerInv'
    BY <1>1, <1>a DEF WorkerEnqueue, OwnerInv
  <2> QED
    BY <1>1, <2>1, AsideLives DEF WorkerEnqueue, Quietly, excuses
<1>2. CASE WorkerStop \/ DestroyWorker
  <2>1. PICK word \in {"worker-stop", "destroy-worker/2"}, limit \in BOOLEAN :
             Stops(word, limit)
    BY <1>2 DEF WorkerStop, DestroyWorker
  <2>2. current \in Structs /\ tid[current] # 0
    BY <1>a, <2>1, ClonePositive DEF Stops
  <2>3. Born(current)
    BY <2>2, TidMeans
  <2>4. /\ at'[Owner] = "bye" /\ call'[Owner].word = word
        /\ call'[Owner].thread = current
    BY <1>a, <2>1 DEF Stops, Goto, Call
  <2>5. UNCHANGED <<stage, on, overlapped, current, gaveUp, unborn>>
    BY <2>1 DEF Stops, Quietly, cloneVars, workVars, excuses
  <2>6. OwnerInv'
    BY <2>3, <2>4, <2>5 DEF OwnerInv, Ends, Born
  <2> QED
    BY <2>1, <2>5, <2>6, AsideLives DEF Stops, Quietly
<1>3. CASE DestroyStopped
  <2>1. current \in Structs /\ tid[current] = 0
    BY <1>a, <1>3 DEF DestroyStopped
  <2>2. Over(current) \/ \E b \in Clones : on[b] = current /\ stage[b] = "cloned"
    BY <2>1, TidMeans
  <2>3. /\ at'[Owner] = "destroy" /\ call'[Owner].word = "destroy-worker/2"
        /\ call'[Owner].thread = current
    BY <1>a, <1>3 DEF DestroyStopped, Goto, Call
  <2>4. UNCHANGED <<stage, on, overlapped, current, gaveUp>> /\ unborn \subseteq unborn'
    BY <1>3 DEF DestroyStopped, Quietly, cloneVars, workVars
  <2>5. current \in unborn' \/ Over(current)
    BY <1>3, <2>2 DEF DestroyStopped
  <2>6. OwnerInv'
    BY <2>3, <2>4, <2>5 DEF OwnerInv, Ends, Over, OnStack
  <2> QED
    BY <1>3, <2>4, <2>6, AsideLives DEF DestroyStopped, Quietly
<1>4. CASE EnqueueBye
  <2>1. UNCHANGED <<stage, on, overlapped, current, gaveUp, unborn>>
    BY <1>4 DEF EnqueueBye, Quietly, cloneVars, excuses
  <2>2. at'[Owner] = "idle" \/ (at'[Owner] = "join" /\ UNCHANGED call
                                 /\ call[Owner].word = "destroy-worker/2")
    BY <1>4, <1>a DEF EnqueueBye, Return, Goto, In
  <2>3. OwnerInv'
    BY <1>4, <1>a, <2>1, <2>2 DEF OwnerInv, Ends, Born, EnqueueBye
  <2> QED
    BY <1>4, <2>1, <2>3, AsideLives DEF EnqueueBye, Quietly
<1>5. CASE DestroyJoined
  <2>1. /\ at[Owner] \in {"destroy", "joined", "unjoined"} /\ at'[Owner] = "idle"
        /\ call[Owner].thread = current /\ current \in Structs
        /\ current \in unborn \/ Over(current) \/ at[Owner] = "unjoined"
    BY <1>5, <1>a
       DEF DestroyJoined, DestroyThread, Return, Goto, OwnerInv, Ends, WorkerInv, TypeInv,
           CallersOK, CallerOK
  <2>2. /\ UNCHANGED <<tid, stage, on, overlapped, unborn>> /\ gaveUp \subseteq gaveUp'
        /\ state' = [state EXCEPT ![current] = Destroyed]
        /\ mapped' = [mapped EXCEPT ![current] = FALSE]
        /\ at[Owner] = "unjoined" => current \in gaveUp'
    BY <1>5, <2>1 DEF DestroyJoined, DestroyThread, cloneVars
  <2>3. /\ \A o \in Clones : CloneOK(o)
        /\ \A r \in Structs : StructOK(r)
        /\ state \in [Structs -> States] /\ mapped \in [Structs -> BOOLEAN]
    BY DEF WorkerInv, LifeInv, TypeInv, MemOK, StructsOK
  <2>a. /\ \A r \in Structs : state'[r] = IF r = current THEN Destroyed ELSE state[r]
        /\ \A r \in Structs : mapped'[r] = IF r = current THEN FALSE ELSE mapped[r]
    BY <2>1, <2>2, <2>3
  <2>4. \A r \in Structs : StructOK(r)'
    BY <2>a, <2>2, <2>3 DEF StructOK, Left, Busy, OnStack, Virgin, Exited, Destroyed
  <2>5. \A o \in Clones : CloneOK(o)'
    BY <2>1, <2>2, <2>3 DEF CloneOK, Busy, OnStack
  <2>6. TidsTell'
    BY <2>2 DEF WorkerInv, TidsTell, Tells, OnStack
  <2>7. StackOutlives'
    BY <2>1, <2>2, <2>3 DEF WorkerInv, StackOutlives, OnStack, Over, CloneOK
  <2>8. OwnerInv'
    BY <2>1 DEF OwnerInv
  <2> QED
    BY <2>4, <2>5, <2>6, <2>7, <2>8 DEF LifeInv
<1> QED
  BY <1>1, <1>2, <1>3, <1>4, <1>5 DEF Ending

(* The waits: the owner's is the one of destroy-worker/2.                  *)
LEMMA WaitsLive ==
  ASSUME WorkerInv, NEW c \in Callers, Waiting(c)
  PROVE  (LifeInv /\ TidsTell /\ StackOutlives)'
<1> USE WorkerAssumption DEF WorkerAssumption, OwnerAt
<1>a. /\ at \in [Callers -> Labels \cup {"bye"}] /\ call \in [Callers -> CallRecords]
      /\ tid \in [Structs -> Clones \cup {0}]
      /\ OwnerInv /\ MemOK /\ CallersOK
  BY DEF WorkerInv, TypeInv, MemOK, StructsOK, CallersOK, LifeInv
<1>b. UNCHANGED <<structVars, cloneVars, overlapped, current, gaveUp, unborn>>
  BY DEF Waiting, Waits, Await, Awaiting, Join, Unborn, WaitStep, WaitKernel, workVars,
         excuses
<1>c. UNCHANGED <<state, tid, mapped, on, stage>>
  BY <1>b DEF structVars, cloneVars
<1>d. (\A s \in Structs : Born(s) => Born(s)') /\ (\A s \in Structs : Over(s) => Over(s)')
  BY <1>b, <1>c DEF Born, Over, OnStack
<1>1. CASE at'[Owner] = at[Owner] /\ call'[Owner] = call[Owner]
  <2>1. Leaving
    BY <1>1, <1>b, <1>c DEF Leaving, OnStack, Busy, Left
  <2> QED
    BY <1>a, <1>b, <2>1, OwnerKeeps, AsideLives
<1>2. CASE c = Owner /\ at[c] \notin {"idle", "clone"}
  <2>1. Ends /\ current \in Structs
    BY <1>2, <1>a DEF OwnerInv, Ends, CallersOK, CallerOK
  <2>2. ASSUME call'[c].word = call[c].word, call'[c].thread = call[c].thread,
               call[c].word = "destroy-worker/2", Born(current),
               at'[c] \in {"join", "test", "peek", "enter", "woken", "unjoined"}
                 \/ (at'[c] \in {"unborn?", "joined"} /\ Over(current))
        PROVE  OwnerInv'
    BY <1>2, <1>b, <1>d, <2>1, <2>2 DEF OwnerInv, Ends
  <2>3. CASE Join(c)
    <3>1. tid[current] = 0 => Over(current)
      BY <1>2, <2>1, <2>3, TidMeans DEF Ends, Join
    <3>2. call'[c].word = call[c].word /\ call'[c].thread = call[c].thread
      BY <1>a, <2>3 DEF Join, CallRecords
    <3>3. call[c].word = "destroy-worker/2" /\ Born(current)
      BY <1>2, <2>1, <2>3 DEF Ends, Join
    <3>4. \/ at'[c] = "test"
          \/ at'[c] = "unborn?" /\ ~(tid[current] > 0)
      BY <1>2, <1>a, <2>1, <2>3 DEF Join, Goto, Ends
    <3>5. ~(tid[current] > 0) => tid[current] = 0
      BY <1>a, <2>1, TidNatural
    <3> QED
      BY <1>b, <2>2, <3>1, <3>2, <3>3, <3>4, <3>5, AsideLives
  <2>4. CASE Unborn(c)
    <3>1. /\ call[c].word = "destroy-worker/2" /\ Born(current) /\ Over(current)
          /\ End(c, "joined") = "joined"
      BY <1>2, <2>1, <2>4 DEF Ends, Unborn, End
    <3>2. /\ call'[c].word = call[c].word /\ call'[c].thread = call[c].thread
          /\ at'[c] \in {"test", "joined"}
      BY <1>a, <2>4, <3>1 DEF Unborn, CallRecords, Forget, Goto
    <3> QED
      BY <1>b, <2>1, <2>2, <3>1, <3>2, AsideLives
  <2>5. CASE WaitStep(c)
    <3>1. at[c] \in {"test", "peek", "enter", "woken"}
      BY <2>5 DEF WaitStep, W!Test, W!Peek, W!Enter, W!Woken
    <3>2. call[c].word = "destroy-worker/2" /\ Born(current) /\ call[c].thread = current
      BY <1>2, <2>1, <3>1 DEF Ends
    <3>3. End(c, "unjoined") = "unjoined" /\ OnTrue(c) \in {"join", "joined"}
          /\ (OnTrue(c) = "joined" => call[c].field = "tid")
      BY <1>a, <3>2 DEF End, OnTrue, Joining, Joiners, CallRecords
    <3>4. Content(c) /\ call[c].field = "tid" => Over(current)
      BY <2>1, <3>2, TidMeans DEF Content, Value
    <3>5. at'[c] \in {"join", "test", "peek", "enter", "woken", "unjoined"}
            \/ (at'[c] = "joined" /\ Over(current))
      <4>1. CASE W!Test(c, Content(c), OnTrue(c))
        BY <1>a, <3>3, <3>4, <4>1 DEF W!Test, W!Goto
      <4>2. CASE W!Peek(c, Value(c)) \/ W!Enter(c, Cell(c), Value(c))
        BY <1>a, <4>2 DEF W!Peek, W!Enter, W!Goto
      <4>3. CASE W!Woken(c, Content(c), call[c].timed, OnTrue(c), End(c, "unjoined"))
        BY <1>a, <3>3, <3>4, <4>3 DEF W!Woken, W!Goto
      <4> QED
        BY <2>5, <4>1, <4>2, <4>3 DEF WaitStep
    <3>6. call' = call
      BY <2>5, <3>5 DEF WaitStep, Forget
    <3> QED
      BY <1>b, <2>2, <3>2, <3>5, <3>6, AsideLives
  <2>6. CASE WaitKernel(c)
    BY <1>1, <1>2, <2>6 DEF WaitKernel, W!GiveUp
  <2> QED
    BY <1>2, <2>3, <2>4, <2>5, <2>6 DEF Waiting, Waits, Awaiting
<1>3. ASSUME ~(at'[Owner] = at[Owner] /\ call'[Owner] = call[Owner])
      PROVE  c = Owner /\ at[c] \notin {"idle", "clone"}
  <2>1. CASE Waits(c)
    BY <1>3, <1>a, <2>1 DEF Waits, Await, Goto
  <2>2. CASE Awaiting(c)
    <3>1. ASSUME c # Owner
          PROVE  call'[Owner] = call[Owner] /\ at'[Owner] = at[Owner]
      BY <1>a, <2>2, <3>1
         DEF Awaiting, Join, Unborn, WaitStep, W!Test, W!Peek, W!Enter, W!Woken, W!Goto, Goto,
             WaitKernel, W!GiveUp, Forget
    <3>2. at[c] \notin {"idle", "clone"}
      BY <1>3, <2>2 DEF Awaiting, Join, Unborn, WaitStep, W!Test, W!Peek, W!Enter, W!Woken,
                 WaitKernel, W!GiveUp
    <3> QED
      BY <1>3, <3>1, <3>2
  <2> QED
    BY <2>1, <2>2 DEF Waiting
<1> QED
  BY <1>1, <1>2, <1>3

LEMMA LifeStep == WorkerInv /\ [Next]_workerVars => WorkerInv'
<1> SUFFICES ASSUME WorkerInv, [Next]_workerVars PROVE WorkerInv'
  OBVIOUS
<1>1. TypeInv'
  BY TypeStep DEF WorkerInv
<1>2. CASE Next
  <2> SUFFICES (LifeInv /\ TidsTell /\ StackOutlives)'
    BY <1>1 DEF WorkerInv
  <2>1. CASE WorkerEnqueue \/ Ending
    BY <2>1, EndsLive
  <2>2. CASE Beginning
    BY <2>2, StartLives, ClonesLive DEF Beginning
  <2>3. CASE \E b \in Clones : Working(b)
    BY <1>2, <2>3, CloneLives DEF Next
  <2>4. CASE \E c \in Callers : Waiting(c)
    BY <2>4, WaitsLive
  <2> QED
    BY <1>2, <2>1, <2>2, <2>3, <2>4 DEF Next
<1>3. CASE UNCHANGED workerVars
  <2>1. OwnerInv'
    BY <1>3 DEF WorkerInv, LifeInv, OwnerInv, Starts, Ends, OwnerAt, Left, Busy, OnStack,
                Over, Born, Unused, workerVars, threadsVars, workVars, excuses
  <2>2. (LifeInv /\ TidsTell /\ StackOutlives)'
    BY <1>3, <2>1, AsideLives
       DEF workerVars, threadsVars, workVars, excuses, structVars, cloneVars
  <2> QED
    BY <1>1, <2>2 DEF WorkerInv
<1> QED
  BY <1>2, <1>3

LEMMA InitLife == Init => WorkerInv
<1> SUFFICES ASSUME Init PROVE WorkerInv
  OBVIOUS
<1> USE DEF Init, ThreadsInit
<1>1. TypeInv
  BY InitType
<1>2. LifeInv
  BY WorkerAssumption, ThreadsAssumption
     DEF LifeInv, StructOK, CloneOK, OwnerInv, OwnerAt, Left, Busy, OnStack, Virgin, Exited,
         NoStruct, WorkerAssumption, ThreadsAssumption
<1>3. TidsTell /\ StackOutlives
  BY DEF TidsTell, Tells, StackOutlives, OnStack
<1> QED
  BY <1>1, <1>2, <1>3 DEF WorkerInv

LEMMA WorkerInvCorrect == Spec => []WorkerInv
  BY InitLife, LifeStep, PTL DEF Spec

(* "thread-alive?" can be trusted: unless a thread was restarted while its *)
(* last clone was leaving, its tid is the one clone that is on its stack.  *)
THEOREM TidsTrusted == Spec => []AliveTells
<1>1. WorkerInv => AliveTells
  BY AliveMeans DEF WorkerInv
<1> QED
  BY <1>1, WorkerInvCorrect, PTL

(* No clone loses the stack it runs on but by the three ways worker.4th    *)
(* leaves open: a join given up, a clone that had not run, and a restart   *)
(* under a clone that was leaving.                                         *)
THEOREM StacksOutlive == Spec => []StackOutlives
<1>1. WorkerInv => StackOutlives
  BY DEF WorkerInv
<1> QED
  BY <1>1, WorkerInvCorrect, PTL

-----------------------------------------------------------------------------
(* Who sleeps has slept on the same cell before, or has just seen what is  *)
(* still in it.                                                            *)
LEMMA StillAsleep ==
  ASSUME TypeInv, [Next]_workerVars, NEW c \in Callers, asleep'[c] # Awake
  PROVE  \/ /\ asleep[c] # Awake /\ call'[c] = call[c] /\ expected'[c] = expected[c]
            /\ c \in passed => c \in passed'
         \/ expected[c] = Value(c) /\ expected'[c] = expected[c] /\ call'[c] = call[c]
            /\ UNCHANGED <<state, tid>>
<1>a. /\ call \in [Callers -> CallRecords] /\ at \in [Callers -> Labels \cup {"bye"}]
      /\ asleep \in [Callers -> ({"state", "tid"} \X Structs) \cup {Awake}]
      /\ expected \in [Callers -> Nat]
      /\ \A d \in Callers : asleep[d] # Awake => at[d] = "woken"
  BY DEF TypeInv, CallersOK, CallerOK, W!WaitTypeOK, W!F!FutexTypeOK
<1>1. CASE UNCHANGED workerVars
  BY <1>1 DEF workerVars, threadsVars
<1>2. CASE Beginning \/ WorkerEnqueue \/ Ending
  <2>1. UNCHANGED waitVars
    BY <1>2 DEF Beginning, WorkerStart, ThreadStart, InitThread, WorkerClones, Cloned,
                CloneFails, WorkerEnqueue, Quietly, Ending, WorkerStop, DestroyWorker, Stops,
                DestroyStopped, EnqueueBye, DestroyJoined, DestroyThread
  <2>2. at[Owner] # "woken" \/ UNCHANGED call
    BY <1>2 DEF Beginning, WorkerStart, ThreadStart, InitThread, WorkerClones, Cloned,
                CloneFails, WorkerEnqueue, Quietly, Ending, WorkerStop, DestroyWorker, Stops,
                DestroyStopped, EnqueueBye, DestroyJoined, DestroyThread, OwnerAt
  <2>3. \A d \in Callers \ {Owner} : call'[d] = call[d]
    BY <1>2, <1>a DEF Beginning, WorkerStart, ThreadStart, InitThread, WorkerClones, Cloned,
                CloneFails, WorkerEnqueue, Quietly, Ending, WorkerStop, DestroyWorker, Stops,
                DestroyStopped, EnqueueBye, DestroyJoined, DestroyThread, Return
  <2> QED
    BY <1>a, <2>1, <2>2, <2>3 DEF waitVars
<1>3. ASSUME NEW b \in Clones, Working(b)
      PROVE  asleep[c] # Awake /\ call'[c] = call[c] /\ expected'[c] = expected[c]
             /\ (c \in passed => c \in passed')
  <2>1. UNCHANGED call
    BY <1>3 DEF Working, Living, Pop, PopFails, Quiet, SetTid, SayRunning, ThreadReturn,
                ClearTid, Announce, Tell
  <2>2. CASE UNCHANGED waitVars
    BY <2>1, <2>2 DEF waitVars
  <2>3. ASSUME NEW cell, WakeOne(cell)
        PROVE  asleep[c] # Awake /\ expected'[c] = expected[c] /\ (c \in passed => c \in passed')
    BY <1>a, <2>3 DEF WakeOne, W!F!FutexWakeOne, W!F!futexVars, W!F!Sleepers
  <2> QED
    BY <1>3, <2>1, <2>2, <2>3 DEF Working, Living, Pop, PopFails, Quiet, SetTid, SayRunning,
                ThreadReturn, ClearTid, Announce, Tell
<1>4. ASSUME NEW d \in Callers, Waiting(d), d # c
      PROVE  asleep[c] # Awake /\ call'[c] = call[c] /\ expected'[c] = expected[c]
             /\ (c \in passed => c \in passed')
  BY <1>a, <1>4 DEF Waiting, Waits, Await, Awaiting, Join, Unborn, WaitStep, WaitKernel,
     waitVars, Forget, W!Test, W!Peek, W!Enter, W!Woken, W!GiveUp, W!F!FutexWait,
     W!F!FutexForget, W!F!FutexGiveUp
<1>5. CASE Waiting(c)
  <2>1. CASE Waits(c) \/ Join(c) \/ Unborn(c)
    BY <1>a, <2>1 DEF Waits, Await, Join, Unborn, waitVars
  <2>2. CASE WaitStep(c)
    <3>1. CASE W!Enter(c, Cell(c), Value(c))
      <4>1. at'[c] = "woken" /\ expected'[c] = expected[c] /\ expected[c] = Value(c)
        BY <1>a, <3>1 DEF W!Enter, W!Goto, W!F!FutexWait
      <4> QED
        BY <2>2, <4>1 DEF WaitStep, Forget, structVars
    <3>2. CASE ~W!Enter(c, Cell(c), Value(c))
      <4>1. asleep'[c] = Awake
        BY <1>a, <2>2, <3>2 DEF WaitStep, W!Test, W!Peek, W!Woken, W!F!FutexForget
      <4> QED
        BY <4>1
    <3> QED
      BY <3>1, <3>2
  <2>3. CASE WaitKernel(c)
    BY <1>a, <2>3 DEF WaitKernel, W!GiveUp, W!F!FutexGiveUp
  <2> QED
    BY <1>5, <2>1, <2>2, <2>3 DEF Waiting, Awaiting
<1> QED
  BY <1>1, <1>2, <1>3, <1>4, <1>5 DEF Next

(* What of the clones and their structs a sleeper depends on.  In one step *)
(* a thread ends or starts with its clone about to wake, and a clone that  *)
(* was about to has done so.                                               *)
Tellers(s) == {b \in Clones : on[b] = s /\ stage[b] = "told"}
Announcers(s) == {b \in Clones : on[b] = s /\ stage[b] = "announce"}
Started(s) == state[s] \in {Running, Exited}

LEMMA WakersStep ==
  ASSUME WorkerInv, [Next]_workerVars, NEW s \in Structs
  PROVE  /\ tid'[s] = 0 => tid[s] = 0 \/ Tellers(s)' # {}
         /\ \/ Tellers(s) = {} \/ Tellers(s)' # {}
            \/ WakeOne(<<"tid", s>>)
         /\ Started(s)' => Started(s) \/ Announcers(s)' # {}
         /\ \/ Announcers(s) = {} \/ Announcers(s)' # {}
            \/ WakeOne(<<"state", s>>)
<1>a. /\ \A o \in Clones : CloneOK(o)
      /\ \A r \in Structs : StructOK(r)
      /\ state \in [Structs -> States] /\ tid \in [Structs -> Clones \cup {0}]
      /\ on \in [Clones -> Structs \cup {NoStruct}] /\ stage \in [Clones -> Stages]
  BY DEF WorkerInv, LifeInv, TypeInv, MemOK, StructsOK
<1>1. ASSUME NEW b \in Clones, Standing, Working(b)
      PROVE  /\ tid'[s] = 0 => tid[s] = 0 \/ Tellers(s)' # {}
             /\ \/ Tellers(s) = {} \/ Tellers(s)' # {}
                \/ WakeOne(<<"tid", s>>)
             /\ Started(s)' => Started(s) \/ Announcers(s)' # {}
             /\ \/ Announcers(s) = {} \/ Announcers(s)' # {}
                \/ WakeOne(<<"state", s>>)
  <2> USE DEF Tellers, Announcers, Started
  <2>1. CASE SetTid(b)
    BY <1>a, <2>1, ClonePositive DEF SetTid, Advance
  <2>2. CASE SayRunning(b)
    BY <1>a, <2>2 DEF SayRunning, Advance
  <2>3. CASE Announce(b)
    BY <1>a, <2>3 DEF Announce, Advance, structVars
  <2>4. CASE ThreadReturn(b)
    <3>1. state[on[b]] = Running
      BY <1>1, <1>a, <2>4 DEF ThreadReturn, CloneOK, Standing, OnStack
    <3> QED
      BY <1>a, <2>4, <3>1 DEF ThreadReturn, Advance
  <2>5. CASE ClearTid(b)
    BY <1>a, <2>5 DEF ClearTid, Advance
  <2>6. CASE Tell(b)
    BY <1>a, <2>6 DEF Tell, Advance, structVars
  <2>7. CASE Pop(b) \/ PopFails(b)
    BY <1>a, <2>7 DEF Pop, PopFails, Quiet, Advance, structVars
  <2> QED
    BY <1>1, <2>1, <2>2, <2>3, <2>4, <2>5, <2>6, <2>7 DEF Working, Living
<1>2. ASSUME UNCHANGED <<tid, on, stage>>,
             UNCHANGED state \/ \E r \in Structs : \E v \in {Starting, Failed, Destroyed} :
                                  state' = [state EXCEPT ![r] = v]
      PROVE  /\ tid'[s] = tid[s] /\ (Started(s)' => Started(s))
             /\ Tellers(s)' = Tellers(s) /\ Announcers(s)' = Announcers(s)
  BY <1>2, <1>a DEF Tellers, Announcers, Started, Running, Exited, Starting, Failed, Destroyed
<1>3. CASE WorkerClones
  <2>1. Unused # {}
    BY <1>3 DEF WorkerClones, Cloned, WorkerInv, LifeInv, OwnerInv, Starts, OwnerAt
  <2>2. PICK b \in Unused : /\ on' = [on EXCEPT ![b] = call[Owner].thread]
                            /\ stage' = [stage EXCEPT ![b] = "cloned"]
                            /\ UNCHANGED <<state, tid>>
    BY <1>3, <2>1 DEF WorkerClones, Cloned, Advance, structVars
  <2> QED
    BY <1>a, <2>2 DEF Unused, Tellers, Announcers, Started
<1>4. CASE WorkerStart
  BY <1>2, <1>4, ChosenStruct, ThreadsAssumption
     DEF WorkerStart, ThreadStart, InitThread, cloneVars, WorkerInv, TypeInv, MemOK
<1>5. CASE CloneFails(Owner) \/ DestroyJoined
  <2>1. call[Owner].thread \in Structs
    BY <1>5, WorkerAssumption DEF CloneFails, DestroyJoined, DestroyThread, WorkerInv, TypeInv,
       CallersOK, CallerOK, WorkerAssumption
  <2> QED
    BY <1>2, <1>5, <2>1 DEF CloneFails, DestroyJoined, DestroyThread, cloneVars
<1>6. CASE WorkerEnqueue \/ WorkerStop \/ DestroyWorker \/ DestroyStopped \/ EnqueueBye
  BY <1>2, <1>6 DEF WorkerEnqueue, WorkerStop, DestroyWorker, Stops, DestroyStopped,
                    EnqueueBye, Quietly, structVars, cloneVars
<1>7. CASE \E c \in Callers : Waiting(c)
  BY <1>2, <1>7 DEF Waiting, Waits, Await, Awaiting, Join, Unborn, WaitStep, WaitKernel,
                    structVars, cloneVars
<1>8. CASE UNCHANGED workerVars
  BY <1>2, <1>8 DEF workerVars, threadsVars
<1> QED
  BY <1>1, <1>3, <1>4, <1>5, <1>6, <1>7, <1>8 DEF Next, Beginning, Ending

(* Who is still asleep after a wake has been passed over.                  *)
LEMMA PassedOver ==
  ASSUME NEW c \in Callers, asleep[c] # Awake, asleep'[c] # Awake,
         WakeOne(asleep[c])
  PROVE  c \in passed'
  BY DEF WakeOne, W!F!Sleepers

LEMMA WakersKept ==
  ASSUME WorkerInv, JoinerHasWaker, StarterHasWaker, [Next]_workerVars
  PROVE  (JoinerHasWaker /\ StarterHasWaker)'
<1>a. /\ \A d \in Callers : CallerOK(d)
      /\ call \in [Callers -> CallRecords]
      /\ passed \subseteq Callers
  BY DEF WorkerInv, TypeInv, CallersOK
<1>1. ASSUME NEW c \in Callers, c \notin passed', asleep'[c] # Awake
      PROVE  \/ /\ asleep[c] = Cell(c) /\ c \notin passed /\ asleep[c] # Awake
                /\ call'[c] = call[c] /\ expected'[c] = expected[c]
                /\ call[c].thread \in Structs /\ ~WakeOne(Cell(c))
             \/ expected'[c] = Value(c)'
  <2>1. \/ /\ asleep[c] # Awake /\ call'[c] = call[c] /\ expected'[c] = expected[c]
           /\ c \in passed => c \in passed'
        \/ expected[c] = Value(c) /\ expected'[c] = expected[c] /\ call'[c] = call[c]
           /\ UNCHANGED <<state, tid>>
    BY <1>1, StillAsleep DEF WorkerInv
  <2> QED
    BY <1>a, <1>1, <2>1, PassedOver DEF CallerOK, Value
<1>2. JoinerHasWaker'
  <2> SUFFICES ASSUME NEW c \in Callers, c \notin passed', asleep'[c] # Awake,
                      call'[c].field = "tid", expected'[c] # 0,
                      tid'[call'[c].thread] = 0
               PROVE  \E b \in Clones : on'[b] = call'[c].thread /\ stage'[b] = "told"
    BY DEF JoinerHasWaker
  <2>0. expected'[c] # Value(c)'
    BY DEF Value
  <2>1. PICK s \in Structs :
          /\ asleep[c] # Awake /\ c \notin passed /\ ~WakeOne(<<"tid", s>>)
          /\ call'[c] = call[c] /\ expected'[c] = expected[c] /\ call[c].thread = s
    BY <1>1, <2>0 DEF Cell
  <2>2. tid[s] = 0 => Tellers(s) # {}
    BY <2>1 DEF JoinerHasWaker, Tellers
  <2>3. Tellers(s)' # {}
    <3>1. tid'[s] = 0
      BY <2>1
    <3> QED
      BY <2>1, <2>2, <3>1, WakersStep
  <2> QED
    BY <2>1, <2>3 DEF Tellers
<1>3. StarterHasWaker'
  <2> SUFFICES ASSUME NEW c \in Callers, c \notin passed', asleep'[c] # Awake,
                      call'[c].field = "state", expected'[c] < Running,
                      state'[call'[c].thread] \in {Running, Exited}
               PROVE  \E b \in Clones : on'[b] = call'[c].thread /\ stage'[b] = "announce"
    BY DEF StarterHasWaker, Started
  <2>0. expected'[c] # Value(c)'
    BY DEF Value, Running, Exited
  <2>1. PICK s \in Structs :
          /\ asleep[c] # Awake /\ c \notin passed /\ ~WakeOne(<<"state", s>>)
          /\ call'[c] = call[c] /\ expected'[c] = expected[c] /\ call[c].thread = s
    BY <1>1, <2>0 DEF Cell
  <2>2. Started(s) => Announcers(s) # {}
    BY <2>1 DEF StarterHasWaker, Announcers, Started
  <2>3. Announcers(s)' # {}
    <3>1. Started(s)'
      BY <2>1 DEF Started
    <3> QED
      BY <2>1, <2>2, <3>1, WakersStep
  <2> QED
    BY <2>1, <2>3 DEF Announcers
<1> QED
  BY <1>2, <1>3

LEMMA WakersCorrect == Spec => [](WorkerInv /\ JoinerHasWaker /\ StarterHasWaker)
<1>1. Init => WorkerInv /\ JoinerHasWaker /\ StarterHasWaker
  BY InitLife DEF Init, ThreadsInit, W!WaitInit, W!F!FutexInit, JoinerHasWaker,
                  StarterHasWaker
<1>2. /\ WorkerInv /\ JoinerHasWaker /\ StarterHasWaker
      /\ [Next]_workerVars
      => (WorkerInv /\ JoinerHasWaker /\ StarterHasWaker)'
  BY LifeStep, WakersKept
<1> QED
  BY <1>1, <1>2, PTL DEF Spec

(* Nobody sleeps through the end of a thread.                              *)
THEOREM JoinersWoken == Spec => []JoinerHasWaker
  BY WakersCorrect, PTL

(* Nobody sleeps through the start of a thread.                            *)
THEOREM StartersWoken == Spec => []StarterHasWaker
  BY WakersCorrect, PTL
=============================================================================
