-------------------------- MODULE RingBufferProofs --------------------------
(***************************************************************************)
(* What holds of the ring buffer whoever uses it, for every size and any   *)
(* number of threads: the types, the arithmetic of the indices, and what   *)
(* a store of an index does to the contents.  RingQueueProofs and          *)
(* MailboxProofs cite these lemmas of their own steps.                     *)
(***************************************************************************)
EXTENDS RingBuffer, SequenceTheorems, TLAPS

(* wrapped-inc!/3's compare and subtract keeps an index inside the buffer. *)
LEMMA WrapType == \A i \in Indices : Next1(i) \in Indices
  BY RingBufferAssumption DEF Indices, Next1, Wrap

(* An empty ring buffer has the types, ...                                 *)
LEMMA RingInitType == RingInit => RingTypeOK
  BY RingBufferAssumption
     DEF RingInit, RingTypeOK, Indices, Calls, Words, Labels, F!FutexInit,
         F!FutexTypeOK, F!Results

(* ... and whatever a thread does, or the kernel to it, keeps them: in     *)
(* particular the indices stay inside the buffer.                          *)
LEMMA RingTypeStep ==
  ASSUME RingTypeOK, NEW t \in Threads,
         (\E c \in Calls : Call(t, c)) \/ Step(t) \/ Kernel(t)
  PROVE  RingTypeOK'
<1> USE RingBufferAssumption
<1> USE DEF RingTypeOK, F!FutexTypeOK, memVars, stackVars, F!futexVars
<1>1. ASSUME NEW c \in Calls, Call(t, c)
      PROVE  RingTypeOK'
  BY <1>1 DEF Call, Goto, Labels
<1>2. ASSUME LoadIn(t)
      PROVE  RingTypeOK'
  BY <1>2 DEF LoadIn, Goto, Labels
<1>3. ASSUME LoadOut(t)
      PROVE  RingTypeOK'
  <2> USE <1>3 DEF LoadOut, Goto, Labels, Return
  <2>1. CASE WaitDone(t)
    BY <2>1 DEF WaitDone, F!FutexForget, F!Results, Indices
  <2>2. CASE WaitFailed(t)
    BY <2>2 DEF WaitFailed, F!FutexForget, F!Results, Indices
  <2>3. CASE WaitAgain(t)
    BY <2>3 DEF WaitAgain, F!FutexForget, F!Results
  <2>4. CASE WaitBegin(t)
    BY <2>4 DEF WaitBegin
  <2>5. CASE Refuse(t)
    BY <2>5 DEF Refuse, Indices
  <2>6. CASE Proceed(t)
    BY <2>6 DEF Proceed
  <2> QED
    BY <2>1, <2>2, <2>3, <2>4, <2>5, <2>6
<1>4. ASSUME Expect(t)
      PROVE  RingTypeOK'
  BY <1>4, WrapType DEF Expect, Goto, Labels
<1>5. ASSUME FutexEnter(t)
      PROVE  RingTypeOK'
  BY <1>5 DEF FutexEnter, Goto, Labels, F!FutexWait, OtherCell, F!Results, F!Errors
<1>6. ASSUME TimeOut(t) \/ Interrupt(t)
      PROVE  RingTypeOK'
  BY <1>6 DEF TimeOut, Interrupt, F!FutexGiveUp, F!Results, F!Errors
<1>7. ASSUME LoadSlot(t)
      PROVE  RingTypeOK'
  BY <1>7 DEF LoadSlot, Goto, Labels, OwnIndex
<1>8. ASSUME Access(t)
      PROVE  RingTypeOK'
  BY <1>8 DEF Access, Goto, Labels, Calls
<1>9. ASSUME LoadInc(t)
      PROVE  RingTypeOK'
  BY <1>9 DEF LoadInc, Goto, Labels, OwnIndex
<1>10. ASSUME StoreInc(t)
       PROVE  RingTypeOK'
  BY <1>10, WrapType DEF StoreInc, Goto, Labels
<1>11. ASSUME Wake(t)
       PROVE  RingTypeOK'
  <2>1. asleep' \in [Threads -> {"in", "out"} \cup {Awake}] /\ result' \in [Threads -> F!Results]
    BY <1>11 DEF Wake, F!FutexWakeOne, F!Results
  <2>2. /\ pc' \in [Threads -> Labels] /\ ret' \in [Threads -> BOOLEAN]
        /\ seenIn' \in [Threads -> Indices] /\ index' \in [Threads -> Indices]
    BY <1>11 DEF Wake, Goto, Return, Labels, Indices
  <2>3. UNCHANGED <<inIndex, outIndex, buffer, call, held>>
    BY <1>11 DEF Wake
  <2> QED
    BY <2>1, <2>2, <2>3
<1> HIDE DEF RingTypeOK
<1> QED
  BY <1>1, <1>2, <1>3, <1>4, <1>5, <1>6, <1>7, <1>8, <1>9, <1>10, <1>11 DEF Step, Kernel

(* How far the in-index is ahead is a number, zero when they are equal.    *)
LEMMA AheadType ==
  \A i, o \in Indices : Ahead(o, i) \in Nat /\ (Ahead(o, i) = 0 <=> i = o)
  BY RingBufferAssumption DEF Ahead, Indices

(* A push moves the in-index one further ahead of the out-index, ...       *)
LEMMA AheadPush ==
  \A i, o \in Indices :
    Next1(i) # o => Ahead(o, Next1(i)) = Ahead(o, i) + 1
  BY RingBufferAssumption DEF Ahead, Indices, Next1, Wrap

(* ... and a pop one less, and neither meets the other.                    *)
LEMMA AheadPop ==
  \A i, o \in Indices :
    i # o => Ahead(o, i) = Ahead(Next1(o), i) + 1 /\ Next1(i) # Next1(o)
  BY RingBufferAssumption DEF Ahead, Indices, Next1, Wrap

-----------------------------------------------------------------------------
(* The contents of the ring buffer.                                        *)
Cell == Msgs \cup {NoMsg}

(* The slots in use, and the first free one, counted from the out-index.   *)
LEMMA SlotOf ==
  ASSUME NEW o \in Indices, NEW i \in Indices, NEW k \in 1 .. Ahead(o, i)
  PROVE  /\ Wrap(o + k - 1) \in Indices
         /\ Wrap(o + k - 1) # i
         /\ Wrap(Next1(o) + k - 1) = Wrap(o + (k + 1) - 1)
  BY RingBufferAssumption DEF Ahead, Indices, Wrap, Next1

(* The first free slot is the in-index, the oldest the out-index.          *)
LEMMA SlotIn ==
  ASSUME NEW o \in Indices, NEW i \in Indices
  PROVE  /\ Wrap(o + (Ahead(o, i) + 1) - 1) = i
         /\ Wrap(o + 1 - 1) = o
         /\ Ahead(o, i) <= Size - 1
         /\ ~Full(i, o) => Ahead(o, i) < Size - 1
  BY RingBufferAssumption DEF Ahead, Indices, Wrap, Next1, Full

(* The contents are a sequence of as many cells as the in-index is ahead.  *)
ContentsOK ==
  /\ Contents \in Seq(Cell)
  /\ Len(Contents) = Count
  /\ \A k \in 1 .. Count : Contents[k] = buffer[Wrap(outIndex + k - 1)]

LEMMA ContentsSeq == RingTypeOK => ContentsOK
<1> SUFFICES ASSUME RingTypeOK
             PROVE  ContentsOK
  OBVIOUS
<1>1. Count \in Nat
  BY AheadType DEF Count, RingTypeOK
<1>2. \A k \in 1 .. Count : buffer[Wrap(outIndex + k - 1)] \in Cell
  BY SlotOf DEF Count, RingTypeOK, Cell
<1>3. Contents \in [1 .. Count -> Cell]
  BY <1>2 DEF Contents
<1>4. Contents \in Seq(Cell)
  BY <1>1, <1>3, SeqDef
<1>5. Len(Contents) = Count
  BY <1>1, <1>3, <1>4, LenProperties
<1> QED
  BY <1>4, <1>5 DEF ContentsOK, Contents

(* A store of the in-index, the slot written before, appends its message.  *)
LEMMA PutContents ==
  ASSUME RingTypeOK, RingTypeOK', NEW m \in Msgs,
         ~Full(inIndex, outIndex), buffer[inIndex] = m,
         inIndex' = Next1(inIndex), UNCHANGED <<outIndex, buffer>>
  PROVE  Contents' = Append(Contents, m) /\ Len(Contents) < Size - 1
<1>1. ContentsOK /\ ContentsOK'
  BY ContentsSeq, PTL
<1>2. Count' = Count + 1 /\ Count < Size - 1 /\ Count \in Nat
  BY AheadPush, AheadType, SlotIn DEF Count, Full, RingTypeOK
<1>3. /\ Contents' \in Seq(Cell) /\ Len(Contents') = Count'
      /\ \A k \in 1 .. Count' : Contents'[k] = buffer[Wrap(outIndex + k - 1)]
  BY <1>1 DEF ContentsOK
<1>4. /\ Append(Contents, m) \in Seq(Cell) /\ Len(Append(Contents, m)) = Count + 1
      /\ \A k \in 1 .. Count : Append(Contents, m)[k] = Contents[k]
      /\ Append(Contents, m)[Count + 1] = m
  <2>1. m \in Cell
    BY DEF Cell
  <2> QED
    BY <1>1, <2>1, AppendProperties DEF ContentsOK
<1>5. buffer[Wrap(outIndex + (Count + 1) - 1)] = m
  BY SlotIn DEF Count, RingTypeOK
<1>6. \A k \in 1 .. Count + 1 : Contents'[k] = Append(Contents, m)[k]
  BY <1>1, <1>2, <1>3, <1>4, <1>5 DEF ContentsOK
<1>7. Contents' = Append(Contents, m)
  BY <1>2, <1>3, <1>4, <1>6, SeqEqual
<1> QED
  BY <1>1, <1>2, <1>7 DEF ContentsOK

(* A store of the out-index frees the slot of the oldest message.          *)
LEMMA GetContents ==
  ASSUME RingTypeOK, RingTypeOK', ~Empty(inIndex, outIndex),
         outIndex' = Next1(outIndex), UNCHANGED <<inIndex, buffer>>
  PROVE  /\ Contents # <<>> /\ Head(Contents) = buffer[outIndex]
         /\ Contents' = Tail(Contents)
<1>1. ContentsOK /\ ContentsOK'
  BY ContentsSeq, PTL
<1>2. Count = Count' + 1 /\ Count' \in Nat
  BY AheadPop, AheadType, WrapType DEF Count, Empty, RingTypeOK
<1>3. PICK n \in Nat : Count' = n /\ Count = n + 1
  BY <1>2
<1>4. outIndex \in Int /\ Next1(outIndex) \in Int
  BY RingBufferAssumption DEF RingTypeOK, Indices, Next1, Wrap
<1>5. Contents # <<>> /\ Head(Contents) = buffer[outIndex]
  <2>1. Contents # <<>> /\ Head(Contents) = Contents[1]
    BY <1>1, <1>2, EmptySeq DEF ContentsOK
  <2>2. Contents[1] = buffer[Wrap(outIndex + 1 - 1)]
    BY <1>1, <1>4, <1>3 DEF ContentsOK
  <2> QED
    BY <2>1, <2>2, SlotIn DEF RingTypeOK
<1>6. Contents' = Tail(Contents)
  <2>1. /\ Tail(Contents) \in Seq(Cell) /\ Len(Tail(Contents)) = n
        /\ \A k \in 1 .. n : Tail(Contents)[k] = Contents[k + 1]
    BY <1>1, <1>5, <1>3, HeadTailProperties DEF ContentsOK
  <2>2. ASSUME NEW k \in 1 .. n
        PROVE  Contents'[k] = Contents[k + 1]
    <3>1. k \in 1 .. Count /\ k + 1 \in 1 .. Count
      BY <1>3
    <3>2. Contents'[k] = buffer[Wrap(Next1(outIndex) + k - 1)]
      BY <1>1, <1>4, <1>3 DEF ContentsOK
    <3>3. Contents[k + 1] = buffer[Wrap(outIndex + (k + 1) - 1)]
      BY <1>1, <3>1 DEF ContentsOK
    <3> QED
      BY <1>4, <3>1, <3>2, <3>3, SlotOf DEF Count, RingTypeOK
  <2> QED
    BY <1>1, <1>3, <2>1, <2>2, SeqEqual DEF ContentsOK
<1> QED
  BY <1>5, <1>6

(* A write to the slot of the in-index, or none, leaves the contents alone. *)
LEMMA SameContents ==
  ASSUME RingTypeOK, RingTypeOK', UNCHANGED <<inIndex, outIndex>>,
         \A i \in Indices \ {inIndex} : buffer'[i] = buffer[i]
  PROVE  Contents' = Contents
<1>1. ContentsOK /\ ContentsOK'
  BY ContentsSeq, PTL
<1>2. Count' = Count
  BY DEF Count
<1>3. ASSUME NEW k \in 1 .. Count
      PROVE  Contents'[k] = Contents[k]
  BY <1>1, <1>2, SlotOf DEF ContentsOK, Count, RingTypeOK
<1> QED
  BY <1>1, <1>2, <1>3, SeqEqual DEF ContentsOK
=============================================================================
