-------------------------- MODULE RingQueueProofs --------------------------
(***************************************************************************)
(* The ring buffer with one producer and one consumer, for every size.     *)
(***************************************************************************)
EXTENDS RingQueue, RingBufferProofs

(* The producer and the consumer only call what the ring buffer has.       *)
LEMMA TypeStep == RingTypeOK /\ [Next]_ringVars => RingTypeOK'
<1> SUFFICES ASSUME RingTypeOK, [Next]_ringVars
             PROVE  RingTypeOK'
  OBVIOUS
<1>1. CASE Produce
  <2>1. \E c \in Calls : Call(Producer, c)
    BY <1>1 DEF Produce, WaitForSpace, Push, Calls, Words
  <2> QED
    BY <2>1, RingTypeStep, RingQueueAssumption
<1>2. CASE Consume
  <2>1. \E c \in Calls : Call(Consumer, c)
    BY <1>2 DEF Consume, WaitForMsg, Pop, Calls, Words
  <2> QED
    BY <2>1, RingTypeStep, RingQueueAssumption
<1>3. CASE \E t \in Threads : Step(t) \/ Kernel(t)
  BY <1>3, RingTypeStep
<1>4. CASE UNCHANGED ringVars
  BY <1>4 DEF ringVars, RingTypeOK, F!FutexTypeOK
<1> QED
  BY <1>1, <1>2, <1>3, <1>4 DEF Next

(* Every variable of the ring buffer keeps its type: in particular the     *)
(* indices stay inside the buffer.                                         *)
THEOREM TypeCorrect == Spec => []RingTypeOK
  BY RingInitType, TypeStep, PTL DEF Spec, Init

(* What each side knows at each of its steps is inductive.                 *)
LEMMA InvStep ==
  ASSUME RingTypeOK, QueueInv, [Next]_ringVars
  PROVE  QueueInv'
<1> USE RingBufferAssumption, RingQueueAssumption
<1> USE DEF QueueInv, memVars, stackVars, Goto, Producing, OtherCell, Waits, Copying,
            HasSpace, HasMsg, Empty, Full, Blocked
<1> USE DEF ProducerInv, ConsumerInv, SleepInv, ErrorInv, DataInv,
            NoLostWakeup, WaitIsGood, UntimedWaitSucceeds
<1> USE DEF RingTypeOK, F!FutexTypeOK, Calls, Words
<1> USE WrapType, AheadType, AheadPush, AheadPop
<1>1. ASSUME Produce
      PROVE  QueueInv'
  BY <1>1 DEF Produce, Call, WaitForSpace, Push
<1>2. ASSUME Consume
      PROVE  QueueInv'
  BY <1>2 DEF Consume, Call, WaitForMsg, Pop
<1>3. ASSUME NEW t \in Threads, LoadIn(t)
      PROVE  QueueInv'
  <2>1. CASE t = Producer
    BY <1>3, <2>1 DEF LoadIn
  <2>2. CASE t = Consumer
    BY <1>3, <2>2 DEF LoadIn
  <2> QED
    BY <2>1, <2>2
<1>4. ASSUME NEW t \in Threads, LoadOut(t), WaitDone(t)
      PROVE  QueueInv'
  <2>1. CASE t = Producer
    BY <1>4, <2>1 DEF LoadOut, WaitDone, Return, F!FutexForget
  <2>2. CASE t = Consumer
    BY <1>4, <2>2 DEF LoadOut, WaitDone, Return, F!FutexForget
  <2> QED
    BY <2>1, <2>2
<1>5. ASSUME NEW t \in Threads, LoadOut(t), WaitFailed(t)
      PROVE  QueueInv'
  <2>1. CASE t = Producer
    BY <1>5, <2>1 DEF LoadOut, WaitFailed, Return, F!FutexForget, F!Errors
  <2>2. CASE t = Consumer
    BY <1>5, <2>2 DEF LoadOut, WaitFailed, Return, F!FutexForget, F!Errors
  <2> QED
    BY <2>1, <2>2
<1>6. ASSUME NEW t \in Threads, LoadOut(t), WaitAgain(t)
      PROVE  QueueInv'
  <2>1. CASE t = Producer
    BY <1>6, <2>1 DEF LoadOut, WaitAgain, F!FutexForget
  <2>2. CASE t = Consumer
    BY <1>6, <2>2 DEF LoadOut, WaitAgain, F!FutexForget
  <2> QED
    BY <2>1, <2>2
<1>7. ASSUME NEW t \in Threads, LoadOut(t), WaitBegin(t)
      PROVE  QueueInv'
  <2>1. CASE t = Producer
    BY <1>7, <2>1 DEF LoadOut, WaitBegin
  <2>2. CASE t = Consumer
    BY <1>7, <2>2 DEF LoadOut, WaitBegin
  <2> QED
    BY <2>1, <2>2
<1>8. ASSUME NEW t \in Threads, LoadOut(t), Refuse(t)
      PROVE  QueueInv'
  <2>1. CASE t = Producer
    BY <1>8, <2>1 DEF LoadOut, Refuse, Return
  <2>2. CASE t = Consumer
    BY <1>8, <2>2 DEF LoadOut, Refuse, Return
  <2> QED
    BY <2>1, <2>2
<1>9. ASSUME NEW t \in Threads, LoadOut(t), Proceed(t)
      PROVE  QueueInv'
  <2>1. CASE t = Producer
    BY <1>9, <2>1 DEF LoadOut, Proceed
  <2>2. CASE t = Consumer
    BY <1>9, <2>2 DEF LoadOut, Proceed
  <2> QED
    BY <2>1, <2>2
<1>10. ASSUME NEW t \in Threads, Expect(t)
      PROVE  QueueInv'
  <2>1. CASE t = Producer
    BY <1>10, <2>1 DEF Expect
  <2>2. CASE t = Consumer
    BY <1>10, <2>2 DEF Expect
  <2> QED
    BY <2>1, <2>2
<1>11. ASSUME NEW t \in Threads, FutexEnter(t)
      PROVE  QueueInv'
  <2>1. CASE t = Producer
    BY <1>11, <2>1 DEF FutexEnter, F!FutexWait, Value
  <2>2. CASE t = Consumer
    BY <1>11, <2>2 DEF FutexEnter, F!FutexWait, Value
  <2> QED
    BY <2>1, <2>2
<1>12. ASSUME NEW t \in Threads, TimeOut(t)
      PROVE  QueueInv'
  <2>1. CASE t = Producer
    BY <1>12, <2>1 DEF TimeOut, F!FutexGiveUp
  <2>2. CASE t = Consumer
    BY <1>12, <2>2 DEF TimeOut, F!FutexGiveUp
  <2> QED
    BY <2>1, <2>2
<1>13. ASSUME NEW t \in Threads, Interrupt(t)
      PROVE  QueueInv'
  <2>1. CASE t = Producer
    BY <1>13, <2>1 DEF Interrupt, F!FutexGiveUp
  <2>2. CASE t = Consumer
    BY <1>13, <2>2 DEF Interrupt, F!FutexGiveUp
  <2> QED
    BY <2>1, <2>2
<1>14. ASSUME NEW t \in Threads, LoadSlot(t)
      PROVE  QueueInv'
  <2>1. CASE t = Producer
    BY <1>14, <2>1 DEF LoadSlot, OwnIndex
  <2>2. CASE t = Consumer
    BY <1>14, <2>2 DEF LoadSlot, OwnIndex
  <2> QED
    BY <2>1, <2>2
<1>15. ASSUME NEW t \in Threads, Access(t)
      PROVE  QueueInv'
  <2>1. CASE t = Producer
    BY <1>15, <2>1 DEF Access
  <2>2. CASE t = Consumer
    BY <1>15, <2>2 DEF Access
  <2> QED
    BY <2>1, <2>2
<1>16. ASSUME NEW t \in Threads, LoadInc(t)
      PROVE  QueueInv'
  <2>1. CASE t = Producer
    BY <1>16, <2>1 DEF LoadInc, OwnIndex
  <2>2. CASE t = Consumer
    BY <1>16, <2>2 DEF LoadInc, OwnIndex
  <2> QED
    BY <2>1, <2>2
<1>17. ASSUME NEW t \in Threads, StoreInc(t)
      PROVE  QueueInv'
  <2>1. CASE t = Producer
    BY <1>17, <2>1 DEF StoreInc
  <2>2. CASE t = Consumer
    BY <1>17, <2>2 DEF StoreInc
  <2> QED
    BY <2>1, <2>2
<1>18. ASSUME NEW t \in Threads, Wake(t)
      PROVE  QueueInv'
  <2>1. CASE t = Producer
    BY <1>18, <2>1 DEF Wake, Return, F!FutexWakeOne, F!Sleepers, F!futexVars,
       OwnCell
  <2>2. CASE t = Consumer
    BY <1>18, <2>2 DEF Wake, Return, F!FutexWakeOne, F!Sleepers, F!futexVars,
       OwnCell
  <2> QED
    BY <2>1, <2>2
<1>19. CASE UNCHANGED ringVars
  BY <1>19 DEF ringVars
<1> QED
  BY <1>1, <1>2, <1>3, <1>4, <1>5, <1>6, <1>7, <1>8, <1>9, <1>10,
     <1>11, <1>12, <1>13, <1>14, <1>15, <1>16, <1>17, <1>18, <1>19
     DEF Next, Step, Kernel, LoadOut

(* An empty ring buffer satisfies the inductive invariant.                 *)
LEMMA InitInv == Init => QueueInv
  BY RingQueueAssumption, AheadType
     DEF Init, RingInit, QueueInv, ProducerInv, ConsumerInv, SleepInv, ErrorInv,
         DataInv, NoLostWakeup, WaitIsGood, UntimedWaitSucceeds, F!FutexInit,
         Copying, Producing, Waits, Empty

(* The inductive invariant holds for every size, message and interleaving. *)
THEOREM QueueInvCorrect == Spec => []QueueInv
<1>1. RingTypeOK /\ QueueInv /\ [Next]_ringVars => QueueInv'
  BY InvStep
<1> QED
  BY <1>1, InitInv, TypeCorrect, PTL DEF Spec

(* No thread is left asleep on an index that lets it go on.                *)
THEOREM Wakeups == Spec => []NoLostWakeup
  BY QueueInvCorrect, PTL DEF QueueInv

(* A wait that said true is followed by a push or pop that is not refused. *)
THEOREM GoodWaits == Spec => []WaitIsGood
  BY QueueInvCorrect, PTL DEF QueueInv

(* A wait without a timeout and without signals says true.                 *)
THEOREM UntimedWaits == Spec => []UntimedWaitSucceeds
  BY QueueInvCorrect, PTL DEF QueueInv

(* Producer and consumer never touch the same slot at once.                *)
THEOREM Exclusive == Spec => []SlotExclusive
<1>1. QueueInv => SlotExclusive
  BY DEF QueueInv, ProducerInv, ConsumerInv, HasMsg, Empty, Copying, SlotExclusive
<1> QED
  BY <1>1, QueueInvCorrect, PTL

-----------------------------------------------------------------------------
(* The ring buffer between one producer and one consumer implements the    *)
(* bounded FIFO queue of Channel: the store of the in-index is the Put,    *)
(* the store of the out-index is the Get, and nothing else shows.          *)
(* The producer's store of the in-index appends the message.               *)
LEMMA PutStep ==
  ASSUME RingTypeOK, RingTypeOK', QueueInv, StoreInc(Producer)
  PROVE  Queue!Next
<1> DEFINE m == call[Producer].msg
<1>1. /\ pc[Producer] = "store-inc" /\ call[Producer].word = "push"
      /\ HasSpace /\ index[Producer] = inIndex
      /\ buffer[inIndex] = m /\ m \in Msgs
  BY DEF StoreInc, QueueInv, ProducerInv, DataInv, Copying
<1>2. inIndex' = Next1(inIndex) /\ UNCHANGED <<outIndex, buffer, call, held>>
  BY <1>1 DEF StoreInc, Producing, stackVars
<1>3. pc'[Consumer] = pc[Consumer]
  BY RingQueueAssumption DEF StoreInc, Goto, RingTypeOK
<1>4. Contents' = Append(Contents, m) /\ Len(Contents) < Size - 1
  BY <1>1, <1>2, PutContents DEF HasSpace
<1>5. Taken' = Taken
  BY <1>2, <1>3 DEF Taken
<1> QED
  BY <1>1, <1>4, <1>5 DEF Queue!Next, Queue!Put

(* The consumer's store of the out-index takes the oldest message.         *)
LEMMA GetStep ==
  ASSUME RingTypeOK, RingTypeOK', QueueInv, StoreInc(Consumer)
  PROVE  Queue!Next
<1>1. /\ pc[Consumer] = "store-inc" /\ call[Consumer].word = "pop"
      /\ HasMsg /\ index[Consumer] = outIndex
      /\ held[Consumer] = buffer[outIndex]
  BY DEF StoreInc, QueueInv, ConsumerInv, DataInv, Copying
<1>2. outIndex' = Next1(outIndex) /\ UNCHANGED <<inIndex, buffer, call, held>>
  BY <1>1 DEF StoreInc, Producing, stackVars
<1>3. pc'[Consumer] = "wake"
  BY RingQueueAssumption DEF StoreInc, Goto, RingTypeOK
<1>4. /\ Contents # <<>> /\ Head(Contents) = buffer[outIndex]
      /\ Contents' = Tail(Contents)
  BY <1>1, <1>2, GetContents DEF HasMsg
<1>5. Taken = NoMsg /\ Taken' = Head(Contents)
  BY <1>1, <1>2, <1>3, <1>4 DEF Taken
<1> QED
  BY <1>4, <1>5 DEF Queue!Next, Queue!Get

(* A slot that is written is not one of those in use.                      *)
LEMMA AccessStep ==
  ASSUME RingTypeOK, RingTypeOK', QueueInv, NEW t \in Threads, Access(t)
  PROVE  Contents' = Contents
<1>1. UNCHANGED <<inIndex, outIndex>>
  BY DEF Access
<1>2. \A i \in Indices \ {inIndex} : buffer'[i] = buffer[i]
  <2>1. CASE call[t].word = "push"
    <3>1. t = Producer /\ index[t] = inIndex
      BY <2>1, RingQueueAssumption
         DEF Access, QueueInv, ProducerInv, ConsumerInv, Producing
    <3> QED
      BY <2>1, <3>1 DEF Access, RingTypeOK
  <2>2. CASE call[t].word # "push"
    BY <2>2 DEF Access
  <2> QED
    BY <2>1, <2>2
<1> QED
  BY <1>1, <1>2, SameContents

(* No other step changes the contents, and at most forgets what was taken. *)
LEMMA QuietStep ==
  ASSUME RingTypeOK, RingTypeOK', QueueInv, [Next]_ringVars,
         ~StoreInc(Producer), ~StoreInc(Consumer)
  PROVE  Contents' = Contents /\ Taken' \in {Taken, NoMsg}
<1> USE RingQueueAssumption DEF QueueInv, memVars, stackVars, Goto
<1> DEFINE Same == UNCHANGED memVars => Contents' = Contents
<1>1. Same
  BY DEF Contents, Count
<1>2. ASSUME Produce
      PROVE  Contents' = Contents /\ Taken' \in {Taken, NoMsg}
  BY <1>1, <1>2 DEF Produce, Call, Taken, RingTypeOK
<1>3. ASSUME Consume
      PROVE  Contents' = Contents /\ Taken' \in {Taken, NoMsg}
  BY <1>1, <1>3 DEF Consume, Call, Taken, RingTypeOK
<1>4. ASSUME NEW t \in Threads, Access(t)
      PROVE  Contents' = Contents /\ Taken' \in {Taken, NoMsg}
  <2>1. Contents' = Contents
    BY <1>4, AccessStep
  <2>2. Taken' \in {Taken, NoMsg}
    BY <1>4 DEF Access, Taken, RingTypeOK
  <2> QED
    BY <2>1, <2>2
<1>5. ASSUME NEW t \in Threads, LoadOut(t)
      PROVE  Contents' = Contents /\ Taken' \in {Taken, NoMsg}
  <2>1. call' = call /\ held' = held /\ \A s \in Threads \ {t} : pc'[s] = pc[s]
    BY <1>5 DEF LoadOut, WaitDone, WaitFailed, WaitAgain, WaitBegin, Refuse, Proceed,
                Return, RingTypeOK
  <2>2. pc[t] = "load-out"
    BY <1>5 DEF LoadOut
  <2>3. held[Consumer] = NoMsg \/ t = Producer
    BY <2>2 DEF DataInv
  <2>4. Taken' \in {Taken, NoMsg}
    BY <2>1, <2>3 DEF Taken
  <2> QED
    BY <1>1, <1>5, <2>4 DEF LoadOut
<1>6. ASSUME NEW t \in Threads, Wake(t)
      PROVE  Contents' = Contents /\ Taken' \in {Taken, NoMsg}
  BY <1>1, <1>6 DEF Wake, Return, Taken, RingTypeOK
<1>7. ASSUME NEW t \in Threads,
             \/ LoadIn(t) \/ Expect(t) \/ FutexEnter(t)
             \/ LoadSlot(t) \/ LoadInc(t) \/ Kernel(t)
      PROVE  Contents' = Contents /\ Taken' \in {Taken, NoMsg}
  BY <1>1, <1>7 DEF LoadIn, Expect, FutexEnter, LoadSlot, LoadInc, Kernel, TimeOut,
                    Interrupt, Taken, RingTypeOK
<1>8. CASE UNCHANGED ringVars
  BY <1>1, <1>8 DEF ringVars, Taken
<1> QED
  BY <1>2, <1>3, <1>4, <1>5, <1>6, <1>7, <1>8 DEF Next, Step

(* The ring buffer implements the queue.                                   *)
THEOREM Refinement == Spec => QueueSpec
<1>1. Init => Queue!Init
  <2> SUFFICES ASSUME Init
               PROVE  Queue!Init
    OBVIOUS
  <2>1. Count = 0
    BY RingBufferAssumption, AheadType DEF Init, RingInit, Count, Indices
  <2>2. Contents = <<>>
    BY <2>1 DEF Contents
  <2>3. Taken = NoMsg
    BY RingQueueAssumption DEF Init, RingInit, Taken
  <2> QED
    BY <2>2, <2>3 DEF Queue!Init
<1>2. /\ RingTypeOK /\ RingTypeOK' /\ QueueInv /\ [Next]_ringVars
      => [Queue!Next]_<<Contents, Taken>>
  BY PutStep, GetStep, QuietStep DEF Queue!Next, Queue!Use
<1> QED
  BY <1>1, <1>2, TypeCorrect, QueueInvCorrect, PTL DEF Spec, QueueSpec, Queue!Spec
=============================================================================
