----------------------------- MODULE RingQueue -----------------------------
(***************************************************************************)
(* A ring buffer shared by one producer and one consumer, each calling the *)
(* waiting and the non-blocking words in any order.                        *)
(***************************************************************************)
EXTENDS RingBuffer, Sequences

CONSTANTS Producer, Consumer

ASSUME RingQueueAssumption ==
  /\ Producer # Consumer
  /\ Threads = {Producer, Consumer}

WaitForSpace(b) == [word |-> "wait-for-space", msg |-> NoMsg, timed |-> b]
WaitForMsg(b)   == [word |-> "wait-for-msg", msg |-> NoMsg, timed |-> b]
Push(m)         == [word |-> "push", msg |-> m, timed |-> FALSE]
Pop             == [word |-> "pop", msg |-> NoMsg, timed |-> FALSE]

Produce ==
  \/ \E b \in BOOLEAN : Call(Producer, WaitForSpace(b))
  \/ \E m \in Msgs : Call(Producer, Push(m))

Consume ==
  \/ \E b \in BOOLEAN : Call(Consumer, WaitForMsg(b))
  \/ Call(Consumer, Pop)

Init == RingInit

Next ==
  \/ Produce
  \/ Consume
  \/ \E t \in Threads : Step(t) \/ Kernel(t)

(* A thread inside a word keeps running, and the kernel's timers expire;   *)
(* whether a word is ever called is up to the program.                     *)
Fairness == \A t \in Threads : WF_ringVars(Step(t)) /\ WF_ringVars(TimeOut(t))

Spec == Init /\ [][Next]_ringVars /\ Fairness

-----------------------------------------------------------------------------
(* What the last pop got, from the moment the slot is free again.          *)
Taken ==
  IF call[Consumer].word = "pop" /\ pc[Consumer] \in {"wake", "idle"}
  THEN held[Consumer] ELSE NoMsg

Queue == INSTANCE Channel WITH
  Capacity <- Size - 1, queue <- Contents, taken <- Taken

(* The ring buffer is a bounded FIFO queue: what is popped is the oldest   *)
(* message pushed, nothing is lost, duplicated or read from a slot not yet *)
(* written, for every interleaving of the loads and stores of the two      *)
(* sides.                                                                  *)
QueueSpec == Queue!Spec

(* The two threads never touch the same slot at the same time.             *)
SlotExclusive ==
  pc[Producer] = "access" /\ pc[Consumer] = "access"
    => index[Producer] # index[Consumer]

(* A thread is never left asleep on an index that lets it go on, unless    *)
(* the wake for it is the other thread's next step.                        *)
NoLostWakeup ==
  /\ asleep[Consumer] # Awake /\ ~Empty(inIndex, outIndex)
       => pc[Producer] = "wake"
  /\ asleep[Producer] # Awake /\ ~Full(inIndex, outIndex)
       => pc[Consumer] = "wake"

(* Once a wait has said true the push or pop that follows it cannot be     *)
(* refused.                                                                *)
WaitIsGood ==
  /\ pc[Producer] = "idle" /\ call[Producer].word = "wait-for-space"
       /\ ret[Producer] => ~Full(inIndex, outIndex)
  /\ pc[Consumer] = "idle" /\ call[Consumer].word = "wait-for-msg"
       /\ ret[Consumer] => ~Empty(inIndex, outIndex)

(* A wait without a timeout that no signal interrupts does not fail: the   *)
(* EAGAIN of an index that changes between the test and the system call is *)
(* absorbed.                                                               *)
UntimedWaitSucceeds ==
  \A t \in Threads :
    pc[t] = "idle" /\ call[t].word \in Waits /\ ~call[t].timed /\ t \notin Signals
      => ret[t]

(* A consumer that waits while there is a message returns, and so does a   *)
(* producer while there is space, and so does whoever set a timeout.       *)
WaitEnds ==
  /\ pc[Consumer] # "idle" /\ ~Empty(inIndex, outIndex) ~> pc[Consumer] = "idle"
  /\ pc[Producer] # "idle" /\ ~Full(inIndex, outIndex) ~> pc[Producer] = "idle"
  /\ \A t \in Threads : pc[t] # "idle" /\ call[t].timed ~> pc[t] = "idle"

-----------------------------------------------------------------------------
(* The inductive invariant behind SlotExclusive, NoLostWakeup, WaitIsGood  *)
(* and UntimedWaitSucceeds: what each side knows at each of its steps.     *)
Copying == {"slot", "access", "load-inc", "store-inc"}

HasSpace == ~Full(inIndex, outIndex)
HasMsg   == ~Empty(inIndex, outIndex)

(* Only the producer stores the in-index, so what it has loaded of it is   *)
(* current, and the space it has seen stays.                               *)
ProducerInv ==
  /\ pc[Producer] # "idle" => Producing(Producer)
  /\ pc[Producer] = "load-out" => seenIn[Producer] = inIndex
  /\ pc[Producer] \in Copying => HasSpace
  /\ pc[Producer] \in Copying \cup {"wake"} => call[Producer].word = "push"
  /\ pc[Producer] \in {"access", "store-inc"} => index[Producer] = inIndex
  /\ pc[Producer] \in {"expect", "wait"} => call[Producer].word = "wait-for-space"
  /\ pc[Producer] = "wait" => index[Producer] = Next1(inIndex)

(* An in-index loaded a while ago is still ahead of the out-index, by no   *)
(* more than the current one.                                              *)
ConsumerInv ==
  /\ ~Producing(Consumer)
  /\ pc[Consumer] = "load-out"
       => Ahead(outIndex, seenIn[Consumer]) <= Ahead(outIndex, inIndex)
  /\ pc[Consumer] \in Copying => HasMsg
  /\ pc[Consumer] \in Copying \cup {"wake"} => call[Consumer].word = "pop"
  /\ pc[Consumer] \in {"access", "store-inc"} => index[Consumer] = outIndex
  /\ pc[Consumer] \in {"expect", "wait"} => call[Consumer].word = "wait-for-msg"
  /\ pc[Consumer] = "wait" => index[Consumer] = outIndex

SleepInv ==
  /\ \A t \in Threads : asleep[t] # Awake =>
       /\ pc[t] = "load-in"
       /\ call[t].word \in Waits
       /\ asleep[t] = OtherCell(t)
       /\ result[t] = "none"
  /\ \A t \in Threads : pc[t] \notin {"load-in", "load-out"} => result[t] = "none"
  /\ \A t \in Threads : result[t] # "none" => call[t].word \in Waits

(* What an error of the system call says about the ring buffer.            *)
ErrorInv ==
  /\ result[Producer] = "EAGAIN" => HasSpace
  /\ result[Consumer] = "EAGAIN" => HasMsg
  /\ result[Consumer] = "EAGAIN" /\ pc[Consumer] = "load-out"
       => seenIn[Consumer] # outIndex
  /\ \A t \in Threads : result[t] = "EINTR" => t \in Signals
  /\ \A t \in Threads : result[t] = "ETIMEDOUT" => call[t].timed

(* What has been written to or read from a slot that is not handed over    *)
(* yet.                                                                    *)
DataInv ==
  /\ call[Producer].word = "push" => call[Producer].msg \in Msgs
  /\ pc[Producer] \in {"load-inc", "store-inc"}
       => buffer[inIndex] = call[Producer].msg
  /\ pc[Consumer] \in {"load-inc", "store-inc"} => held[Consumer] = buffer[outIndex]
  /\ pc[Consumer] \notin {"load-inc", "store-inc", "wake", "idle"}
       => held[Consumer] = NoMsg

QueueInv ==
  /\ ProducerInv /\ ConsumerInv
  /\ SleepInv /\ ErrorInv /\ DataInv
  /\ NoLostWakeup /\ WaitIsGood /\ UntimedWaitSucceeds
=============================================================================
