------------------------------ MODULE Channel ------------------------------
(***************************************************************************)
(* What a ring buffer promises its two threads: a bounded first-in         *)
(* first-out queue.  A message appears in the queue at once, and leaves it *)
(* at once into the hands of the consumer.                                 *)
(***************************************************************************)
EXTENDS Naturals, Sequences

CONSTANTS Msgs, NoMsg, Capacity

VARIABLES
  queue,     (* the messages in transit, oldest first                      *)
  taken      (* the message the consumer got last, or NoMsg                *)

Init == queue = <<>> /\ taken = NoMsg

Put(m) ==
  /\ Len(queue) < Capacity
  /\ queue' = Append(queue, m)
  /\ UNCHANGED taken

Get ==
  /\ queue # <<>>
  /\ taken = NoMsg
  /\ taken' = Head(queue)
  /\ queue' = Tail(queue)

Use ==
  /\ taken' = NoMsg
  /\ UNCHANGED queue

Next == (\E m \in Msgs : Put(m)) \/ Get \/ Use

Spec == Init /\ [][Next]_<<queue, taken>>
=============================================================================
