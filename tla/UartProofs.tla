----------------------------- MODULE UartProofs -----------------------------
(***************************************************************************)
(* The serial input, for every size of the ring, every alphabet and every  *)
(* number of bytes on their way.                                           *)
(***************************************************************************)
EXTENDS UartInput, SequenceTheorems, TLAPS

USE UartAssumption

(* A position stays one when it moves on.                                  *)
LEMMA FollowingType ==
  ASSUME NEW n \in Positions
  PROVE  /\ Following(n) \in Positions
         /\ Following(n) = IF n = Size - 1 THEN 0 ELSE n + 1
  BY DEF Positions, Following

(* What the ring and the flow control rely on.  Main and handler: while    *)
(* the handler waits, and while the main program fetches a byte, the ring  *)
(* holds one; the byte fetched is the oldest.  An xon that is about to be  *)
(* written with the ring still empty finds the transmitter ready, and is   *)
(* then the last thing the sender hears.  As long as the sender has heard  *)
(* nothing since an xon said to an empty ring, wpos has not come to the    *)
(* end of the buffer, or it did with the read position in the upper half;  *)
(* and there the read position stays until it has caught up with wpos.     *)
FetchInv ==
  /\ isr = "xoff" => ~Empty
  /\ pc \in {"read", "advance"} => ~Empty
  /\ pc = "advance" => got = buffer[rpos]

XonInv ==
  /\ pc = "write" /\ out = "xon" /\ Empty => udr = "empty"
  /\ pc = "test" /\ spinning /\ got \notin High /\ Empty
       => (sender = "sending" /\ udr # "xoff") \/ udr = "xon"

XoffInv ==
  /\ said = "xon" /\ isr = "idle"
  /\ wpos = Size - 1 \/ wpos < rpos
  => rpos \notin LowerHalf

UartInv == FetchInv /\ XonInv /\ XoffInv
-----------------------------------------------------------------------------
LEMMA TypeStep ==
  ASSUME UartTypeOK, [Next]_uartVars
  PROVE  UartTypeOK'
<1> USE DEF UartTypeOK, ringVars, mainVars, portVars
<1>1. ASSUME NEW b \in Bytes, Send(b)
      PROVE  UartTypeOK'
  <2>1. line' \in Seq(Bytes) /\ Len(line') = Len(line) + 1
    BY <1>1, AppendProperties DEF Send
  <2> QED
    BY <1>1, <2>1 DEF Send
<1>2. ASSUME Transmit
      PROVE  UartTypeOK'
  BY <1>2 DEF Transmit
<1>3. ASSUME Receive
      PROVE  UartTypeOK'
  <2>1. /\ Head(line) \in Bytes
        /\ line' \in Seq(Bytes) /\ Len(line') = Len(line) - 1
    BY <1>3, HeadTailProperties DEF Receive
  <2>2. wpos' \in Positions
    BY <1>3, FollowingType DEF Receive, Put
  <2>3. buffer' \in [Positions -> Bytes \cup {NoByte}] /\ isr' \in {"idle", "xoff"}
    BY <1>3, <2>1 DEF Receive, Put
  <2> QED
    BY <1>3, <2>1, <2>2, <2>3 DEF Receive
<1>4. ASSUME Xoff
      PROVE  UartTypeOK'
  BY <1>4 DEF Xoff
<1>5. ASSUME Getchar \/ Putchar
      PROVE  UartTypeOK'
  BY <1>5 DEF Getchar, Putchar
<1>6. ASSUME Test \/ Read \/ Ready \/ Write
      PROVE  UartTypeOK'
  BY <1>6 DEF Test, Read, Ready, Write, Nothing
<1>7. ASSUME Advance
      PROVE  UartTypeOK'
  BY <1>7, FollowingType DEF Advance, Nothing
<1>8. CASE UNCHANGED uartVars
  BY <1>8 DEF uartVars
<1> QED
  BY <1>1, <1>2, <1>3, <1>4, <1>5, <1>6, <1>7, <1>8 DEF Next, Main

(* Every variable of the serial input keeps its type: a position never     *)
(* leaves the ring, whatever the handler does.                             *)
THEOREM UartTypeCorrect == Spec => []UartTypeOK
<1>1. Init => UartTypeOK
  BY DEF Init, UartTypeOK, Positions
<1> QED
  BY <1>1, TypeStep, PTL DEF Spec

-----------------------------------------------------------------------------
(* The handler: it fills a ring that is not full, and wpos does not reach  *)
(* the end of the buffer far away from rpos without a pause asked for.     *)
LEMMA ReceiveStep ==
  ASSUME UartTypeOK, UartInv, Receive
  PROVE  UartInv'
<1>1. UNCHANGED <<rpos, pc, spinning, out, got, udr, said, sender>>
  BY DEF Receive, mainVars
<1>2. ~Empty'
  BY <1>1, FollowingType DEF Receive, Put, Full, Empty, UartTypeOK, Positions
<1>3. XoffInv'
  <2>1. isr = "idle"
    BY DEF Receive
  <2>2. ASSUME ~Full, wpos' = Following(wpos),
               isr' = IF Distant(rpos, Following(wpos)) THEN "xoff" ELSE "idle"
        PROVE  XoffInv'
    BY <1>1, <2>1, <2>2, FollowingType
       DEF Distant, Full, LowerHalf, UartInv, XoffInv, UartTypeOK, Positions
  <2> QED
    BY <2>2 DEF Receive, Put, XoffInv
<1>4. pc = "advance" => buffer'[rpos] = buffer[rpos]
  BY DEF Receive, Put, UartInv, FetchInv, Empty, UartTypeOK
<1> QED
  BY <1>1, <1>2, <1>3, <1>4 DEF UartInv, FetchInv, XonInv

(* The main program makes room, and nothing else it does touches the ring. *)
LEMMA AdvanceStep ==
  ASSUME UartTypeOK, UartInv, Advance
  PROVE  UartInv'
<1>1. ~Empty /\ isr = "idle" /\ pc = "advance"
  BY DEF Advance, UartInv, FetchInv
<1>2. UNCHANGED <<wpos, buffer, got, isr, udr, said, sender>>
  BY DEF Advance, portVars
<1>3. rpos' = Following(rpos)
  BY DEF Advance
<1>4. XoffInv'
  <2>1. rpos \in 0 .. Size - 1 /\ wpos \in 0 .. Size - 1 /\ rpos # wpos
    BY <1>1 DEF Empty, UartTypeOK, Positions
  <2>2. rpos' = IF rpos = Size - 1 THEN 0 ELSE rpos + 1
    BY <1>3, FollowingType DEF UartTypeOK
  <2>3. \A r \in 0 .. Size - 1 : r \in LowerHalf <=> r < Size - 1 - Size \div 2
    BY DEF LowerHalf
  <2>4. XoffInv
    BY DEF UartInv
  <2>5. wpos = Size - 1 \/ wpos < rpos' => wpos = Size - 1 \/ wpos < rpos
    BY <2>1, <2>2
  <2>6. wpos = Size - 1 \/ wpos < rpos' => rpos' = rpos + 1 /\ rpos' \in 0 .. Size - 1
    BY <2>1, <2>2
  <2> QED
    BY <1>1, <1>2, <2>1, <2>3, <2>4, <2>5, <2>6 DEF XoffInv
<1>5. pc' \in {"ready", "test", "idle"} /\ (pc' = "test" => got \in High)
  BY DEF Advance, Nothing
<1> QED
  BY <1>1, <1>2, <1>4, <1>5 DEF UartInv, FetchInv, XonInv

(* An xon said to an empty ring: wpos is not behind rpos, and an empty     *)
(* ring at the end of the buffer has rpos there too.                       *)
LEMMA WriteStep ==
  ASSUME UartTypeOK, UartInv, Write
  PROVE  UartInv'
<1>1. UNCHANGED <<rpos, wpos, buffer, out, got, isr, sender>> /\ isr = "idle"
  BY DEF Write, ringVars
<1>2. said' = said \/ Empty \/ said' # "xon"
  BY DEF Write
<1>3. XoffInv'
  BY <1>1, <1>2 DEF Empty, LowerHalf, UartInv, XoffInv, UartTypeOK, Positions
<1> QED
  BY <1>1, <1>3 DEF Write, UartInv, FetchInv, XonInv, Empty

LEMMA InvStep ==
  ASSUME UartTypeOK, UartInv, [Next]_uartVars
  PROVE  UartInv'
<1> USE DEF UartInv, FetchInv, XonInv, XoffInv, Empty
<1>1. ASSUME NEW b \in Bytes, Send(b)
      PROVE  UartInv'
  BY <1>1 DEF Send, ringVars, mainVars
<1>2. ASSUME Transmit
      PROVE  UartInv'
  BY <1>2 DEF Transmit, ringVars, mainVars
<1>3. ASSUME Xoff
      PROVE  UartInv'
  BY <1>3 DEF Xoff, ringVars, mainVars
<1>4. ASSUME Getchar
      PROVE  UartInv'
  BY <1>4 DEF Getchar, ringVars, portVars
<1>5. ASSUME Putchar
      PROVE  UartInv'
  BY <1>5 DEF Putchar, ringVars, portVars
<1>6. ASSUME Test
      PROVE  UartInv'
  BY <1>6 DEF Test, Nothing, ringVars, portVars
<1>7. ASSUME Read
      PROVE  UartInv'
  BY <1>7 DEF Read, ringVars, portVars
<1>8. ASSUME Ready
      PROVE  UartInv'
  BY <1>8 DEF Ready, ringVars, portVars
<1>9. CASE UNCHANGED uartVars
  BY <1>9 DEF uartVars
<1> QED
  BY <1>1, <1>2, <1>3, <1>4, <1>5, <1>6, <1>7, <1>8, <1>9,
     ReceiveStep, AdvanceStep, WriteStep DEF Next, Main

THEOREM UartInvCorrect == Spec => []UartInv
<1>1. Init => UartInv
  BY DEF Init, UartInv, FetchInv, XonInv, XoffInv, LowerHalf, Empty
<1> QED
  BY <1>1, InvStep, UartTypeCorrect, PTL DEF Spec

(* A full ring has been announced to the sender when the read position is  *)
(* in the lower half of the buffer.                                        *)
THEOREM Announced == Spec => []LowerHalfAnnounced
<1>1. UartTypeOK /\ UartInv => LowerHalfAnnounced
  <2> SUFFICES ASSUME UartTypeOK, UartInv, Full
               PROVE  wpos = Size - 1 \/ wpos < rpos
    BY DEF UartInv, XoffInv, LowerHalfAnnounced
  <2> QED
    BY FollowingType DEF Full, UartTypeOK, Positions
<1> QED
  BY <1>1, UartTypeCorrect, UartInvCorrect, PTL

(* The main program never waits in its loop for a sender that waits for    *)
(* it, however the flow characters of main and handler overtake each       *)
(* other.                                                                  *)
THEOREM NeverStandoff == Spec => []NoStandoff
<1>1. UartInv => NoStandoff
  BY DEF UartInv, XonInv, NoStandoff
<1> QED
  BY <1>1, UartInvCorrect, PTL
-----------------------------------------------------------------------------
(* How many bytes lie between two positions, and where the k-th is.        *)
Gap(r, w)  == (w - r) % Size
Slot(r, k) == (r + k - 1) % Size

LEMMA GapOf ==
  ASSUME NEW r \in Positions, NEW w \in Positions
  PROVE  Gap(r, w) = IF r <= w THEN w - r ELSE w - r + Size
  BY DEF Positions, Gap

LEMMA SlotOf ==
  ASSUME NEW r \in Positions, NEW k \in 1 .. Size
  PROVE  Slot(r, k) = IF r + k - 1 < Size THEN r + k - 1 ELSE r + k - 1 - Size
  BY DEF Positions, Slot

(* A byte more at the write position, one less at the read position.       *)
LEMMA GapMoves ==
  ASSUME NEW r \in Positions, NEW w \in Positions
  PROVE  /\ Gap(r, w) \in 0 .. Size - 1
         /\ Gap(r, w) = 0 <=> r = w
         /\ Following(w) # r => /\ Gap(r, w) < Size - 1
                               /\ Gap(r, Following(w)) = Gap(r, w) + 1
         /\ r # w => Gap(r, w) = Gap(Following(r), w) + 1
<1>1. Following(r) \in Positions /\ Following(w) \in Positions
  BY FollowingType
<1>2. /\ Gap(r, w) = IF r <= w THEN w - r ELSE w - r + Size
      /\ Gap(r, Following(w)) = IF r <= Following(w) THEN Following(w) - r
                                ELSE Following(w) - r + Size
      /\ Gap(Following(r), w) = IF Following(r) <= w THEN w - Following(r)
                                ELSE w - Following(r) + Size
  BY <1>1, GapOf
<1>3. /\ Following(r) = IF r = Size - 1 THEN 0 ELSE r + 1
      /\ Following(w) = IF w = Size - 1 THEN 0 ELSE w + 1
  BY FollowingType
<1>4. r \in 0 .. Size - 1 /\ w \in 0 .. Size - 1
  BY DEF Positions
<1> QED
  BY <1>2, <1>3, <1>4

LEMMA SlotMoves ==
  ASSUME NEW r \in Positions, NEW k \in 1 .. Size - 1
  PROVE  Slot(Following(r), k) = Slot(r, k + 1)
<1>1. /\ Following(r) \in Positions
      /\ k \in 1 .. Size /\ k + 1 \in 1 .. Size
  BY FollowingType
<1>2. r \in 0 .. Size - 1 /\ (r + 1) - 1 = r
  BY DEF Positions
<1>3. Slot(r, k + 1) = IF r + k < Size THEN r + k ELSE r + k - Size
  BY <1>1, <1>2, SlotOf
<1>4. Slot(Following(r), k)
        = IF Following(r) + k - 1 < Size THEN Following(r) + k - 1
          ELSE Following(r) + k - 1 - Size
  BY <1>1, SlotOf
<1> QED
  BY <1>2, <1>3, <1>4, FollowingType

(* The bytes are fewer than the slots, the k-th lies in a slot of its own, *)
(* and the first free slot is the write position.                          *)
LEMMA SlotsInUse ==
  ASSUME NEW r \in Positions, NEW w \in Positions
  PROVE  /\ Slot(r, 1) = r
         /\ Slot(r, Gap(r, w) + 1) = w
         /\ \A k \in 1 .. Gap(r, w) : Slot(r, k) \in Positions \ {w}
<1>1. Gap(r, w) \in 0 .. Size - 1
  BY GapMoves
<1>2. /\ 1 \in 1 .. Size /\ Gap(r, w) + 1 \in 1 .. Size
      /\ \A k \in 1 .. Gap(r, w) : k \in 1 .. Size
  BY <1>1
<1>3. r \in 0 .. Size - 1 /\ w \in 0 .. Size - 1
  BY DEF Positions
<1>4. Slot(r, 1) = r
  BY <1>2, <1>3, SlotOf
<1>5. Slot(r, Gap(r, w) + 1) = w
  <2>1. Slot(r, Gap(r, w) + 1) = IF r + Gap(r, w) < Size THEN r + Gap(r, w)
                                 ELSE r + Gap(r, w) - Size
    BY <1>1, <1>2, <1>3, SlotOf
  <2> QED
    BY <1>3, <2>1, GapOf
<1>6. ASSUME NEW k \in 1 .. Gap(r, w)
      PROVE  Slot(r, k) \in 0 .. Size - 1 /\ Slot(r, k) # w
  <2>1. Slot(r, k) = IF r + k - 1 < Size THEN r + k - 1 ELSE r + k - 1 - Size
    BY <1>2, SlotOf
  <2>2. Gap(r, w) = IF r <= w THEN w - r ELSE w - r + Size
    BY GapOf
  <2> QED
    BY <1>1, <1>3, <2>1, <2>2
<1> QED
  BY <1>4, <1>5, <1>6 DEF Positions

LEMMA CountIsGap == Count = Gap(rpos, wpos)
  BY DEF Count, Gap

ContentsOK ==
  /\ Contents \in Seq(Bytes \cup {NoByte})
  /\ Len(Contents) = Count
  /\ \A k \in 1 .. Count : Contents[k] = buffer[Slot(rpos, k)]

LEMMA ContentsSeq == UartTypeOK => ContentsOK
<1> SUFFICES ASSUME UartTypeOK
             PROVE  ContentsOK
  OBVIOUS
<1>1. Count \in Nat
  BY GapMoves, CountIsGap DEF UartTypeOK
<1>2. \A k \in 1 .. Count : Slot(rpos, k) \in Positions
  BY SlotsInUse, CountIsGap DEF UartTypeOK
<1>3. Contents \in [1 .. Count -> Bytes \cup {NoByte}]
  BY <1>2 DEF Contents, Slot, UartTypeOK
<1>4. Contents \in Seq(Bytes \cup {NoByte})
  BY <1>1, <1>3, SeqDef
<1>5. Len(Contents) = Count
  BY <1>1, <1>3, <1>4, LenProperties
<1> QED
  BY <1>4, <1>5 DEF ContentsOK, Contents, Slot

(* A byte that is stored is appended to the contents.                      *)
LEMMA StoreStep ==
  ASSUME UartTypeOK, UartTypeOK', Receive, ~Full
  PROVE  Queue!Next
<1> DEFINE b == Head(line)
<1>0. ContentsOK /\ ContentsOK'
  BY ContentsSeq, PTL
<1>1. /\ wpos' = Following(wpos) /\ buffer' = [buffer EXCEPT ![wpos] = b]
      /\ UNCHANGED <<rpos, pc, got>>
  BY DEF Receive, Put, mainVars
<1>2. b \in Bytes
  BY HeadTailProperties DEF Receive, UartTypeOK
<1>3. Count \in Nat /\ Count < Size - 1 /\ Count' = Count + 1
  <2>1. Count' = Gap(rpos, Following(wpos))
    BY <1>1 DEF Count, Gap
  <2> QED
    BY <2>1, GapMoves, CountIsGap DEF Full, UartTypeOK, Positions
<1>4. Contents' = Append(Contents, b)
  <2>1. /\ Append(Contents, b) \in Seq(Bytes \cup {NoByte})
        /\ Len(Append(Contents, b)) = Count + 1
        /\ \A k \in 1 .. Count : Append(Contents, b)[k] = Contents[k]
        /\ Append(Contents, b)[Count + 1] = b
    BY <1>0, <1>2, AppendProperties DEF ContentsOK
  <2>2. Contents'[Count + 1] = b
    BY <1>0, <1>1, <1>3, SlotsInUse, CountIsGap DEF ContentsOK, UartTypeOK
  <2>3. ASSUME NEW k \in 1 .. Count
        PROVE  Contents'[k] = Contents[k]
    <3>1. Slot(rpos, k) \in Positions \ {wpos}
      BY SlotsInUse, CountIsGap DEF UartTypeOK
    <3>2. k \in 1 .. Count'
      BY <1>3
    <3> QED
      BY <1>0, <1>1, <3>1, <3>2 DEF ContentsOK, UartTypeOK
  <2>4. \A k \in 1 .. Count + 1 : Contents'[k] = Append(Contents, b)[k]
    BY <1>3, <2>1, <2>2, <2>3
  <2> QED
    BY <1>0, <1>3, <2>1, <2>4, SeqEqual DEF ContentsOK
<1>5. Taken' = Taken
  BY <1>1 DEF Taken
<1> QED
  BY <1>0, <1>2, <1>3, <1>4, <1>5 DEF ContentsOK, Queue!Next, Queue!Put

(* The oldest byte leaves the contents when the read position moves on.    *)
LEMMA TakeStep ==
  ASSUME UartTypeOK, UartTypeOK', UartInv, Advance
  PROVE  Queue!Next
<1>0. ContentsOK /\ ContentsOK'
  BY ContentsSeq, PTL
<1>1. /\ pc = "advance" /\ pc' # "advance" /\ rpos' = Following(rpos)
      /\ UNCHANGED <<wpos, buffer, got>>
  BY DEF Advance, Nothing
<1>2. ~Empty /\ got = buffer[rpos]
  BY <1>1 DEF UartInv, FetchInv
<1>3. PICK n \in Nat : Count' = n /\ Count = n + 1
  <2>1. Count' \in Nat /\ Count = Count' + 1
    <3>1. Count' = Gap(Following(rpos), wpos)
      BY <1>1 DEF Count, Gap
    <3>2. Following(rpos) \in Positions /\ Gap(Following(rpos), wpos) \in Nat
      BY FollowingType, GapMoves DEF UartTypeOK
    <3> QED
      BY <1>2, <3>1, <3>2, GapMoves, CountIsGap DEF Empty, UartTypeOK
  <2> QED
    BY <2>1
<1>4. Contents # <<>> /\ Head(Contents) = got
  <2>1. Contents # <<>> /\ Head(Contents) = Contents[1]
    BY <1>0, <1>3, EmptySeq DEF ContentsOK
  <2>2. Contents[1] = buffer[Slot(rpos, 1)]
    BY <1>0, <1>3 DEF ContentsOK
  <2> QED
    BY <1>2, <2>1, <2>2, SlotsInUse DEF UartTypeOK
<1>5. Contents' = Tail(Contents)
  <2>1. /\ Tail(Contents) \in Seq(Bytes \cup {NoByte}) /\ Len(Tail(Contents)) = n
        /\ \A k \in 1 .. n : Tail(Contents)[k] = Contents[k + 1]
    BY <1>0, <1>3, <1>4, HeadTailProperties DEF ContentsOK
  <2>2. ASSUME NEW k \in 1 .. n
        PROVE  Contents'[k] = Contents[k + 1]
    <3>1. k \in 1 .. Count' /\ k + 1 \in 1 .. Count
      BY <1>3
    <3>2. Contents'[k] = buffer[Slot(Following(rpos), k)]
      BY <1>0, <1>1, <3>1 DEF ContentsOK
    <3>3. Contents[k + 1] = buffer[Slot(rpos, k + 1)]
      BY <1>0, <3>1 DEF ContentsOK
    <3>4. Slot(Following(rpos), k) = Slot(rpos, k + 1)
      <4>1. k \in 1 .. Size - 1
        BY <1>3, GapMoves, CountIsGap DEF UartTypeOK
      <4> QED
        BY <4>1, SlotMoves DEF UartTypeOK
    <3> QED
      BY <3>2, <3>3, <3>4
  <2> QED
    BY <1>0, <1>3, <2>1, <2>2, SeqEqual DEF ContentsOK
<1>6. Taken = NoByte /\ Taken' = Head(Contents)
  BY <1>1, <1>4 DEF Taken
<1> QED
  BY <1>4, <1>5, <1>6 DEF Queue!Next, Queue!Get

(* No other step of the handler or of the main program shows.              *)
LEMMA QuietStep ==
  ASSUME UartTypeOK, UartInv, [Next]_uartVars, ~(Receive /\ ~Full), ~Advance
  PROVE  Contents' = Contents /\ Taken' \in {Taken, NoByte}
<1> USE DEF ringVars, mainVars, portVars
<1>1. UNCHANGED ringVars
  BY DEF Next, Main, Send, Transmit, Receive, Put, Xoff, Getchar, Putchar, Test,
         Read, Ready, Write, uartVars
<1>2. Contents' = Contents
  BY <1>1 DEF Contents, Count
<1>3. Taken' \in {Taken, NoByte}
  BY DEF Taken, Next, Main, Send, Transmit, Receive, Xoff, Getchar, Putchar, Test,
         Nothing, Read, Ready, Write, uartVars
<1> QED
  BY <1>2, <1>3

(* The ring between the handler and the main program implements the        *)
(* bounded FIFO queue: every byte stored is fetched once, in order.        *)
THEOREM UartRefinement == Spec => UartQueue
<1>1. Init => Queue!Init
  <2> SUFFICES ASSUME Init
               PROVE  Queue!Init
    OBVIOUS
  <2>1. Count = 0
    BY GapMoves, CountIsGap DEF Init, Positions
  <2>2. Contents = <<>>
    BY <2>1 DEF Contents
  <2>3. Taken = NoByte
    BY DEF Init, Taken
  <2> QED
    BY <2>2, <2>3 DEF Queue!Init
<1>2. /\ UartTypeOK /\ UartTypeOK' /\ UartInv /\ [Next]_uartVars
      => [Queue!Next]_<<Contents, Taken>>
  BY StoreStep, TakeStep, QuietStep DEF Queue!Next, Queue!Use
<1> QED
  BY <1>1, <1>2, UartTypeCorrect, UartInvCorrect, PTL DEF Spec, UartQueue, Queue!Spec
=============================================================================
