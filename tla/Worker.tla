------------------------------- MODULE Worker -------------------------------
(***************************************************************************)
(* src/lib/threading/worker.4th: the owner of a worker starts and restarts *)
(* its thread, enqueues tickets, stops it and destroys it, while others    *)
(* await its start or join its thread.  The input is a queue, as Mailbox   *)
(* shows; a push may fail when it is full and a pop when it is empty.      *)
(***************************************************************************)
EXTENDS Threads, Sequences

CONSTANTS
  Owner,        (* the caller that the worker belongs to                   *)
  QueueSize     (* MAILBOX-SIZE                                            *)

ASSUME WorkerAssumption == Owner \in Callers /\ QueueSize \in Nat \ {0}

VARIABLES
  current,      (* Worker -> thread                                        *)
  input,        (* Worker -> input                                         *)
  gaveUp,       (* history: structs destroyed on a join that timed out     *)
  unborn        (* history: structs destroyed before their clone had run   *)

workVars   == <<current, input>>
excuses    == <<gaveUp, unborn>>
workerVars == <<threadsVars, workVars, excuses>>

(* Tickets: the one of worker-stop, for the word bye, and any other.       *)
Bye == "bye"
Work == "work"

Init ==
  /\ ThreadsInit
  /\ current = NoStruct /\ input = <<>>
  /\ gaveUp = {} /\ unborn = {}

OwnerAt(label) == at[Owner] = label
In(word) == call[Owner].word = word
Quietly == UNCHANGED <<structVars, cloneVars, waitVars, overlapped>>

-----------------------------------------------------------------------------
(* worker-start.                                                           *)

(* Mutant: a thread that runs is startable too.                            *)
StartableAlways(s) == state[s] \in {Exited, Running}

(* THREAD-INITIATED is not seen from here: see InitThread.                 *)
Startable(s) == state[s] = Exited

WorkerStart ==
  /\ Unused # {}
  /\ IF current # NoStruct /\ Startable(current)
     THEN ThreadStart(Owner, current)
     ELSE Virgins # {} /\ InitThread(Owner)
  /\ UNCHANGED <<workVars, excuses>>

(* The store of the thread commutes with what the clone does by then.      *)
WorkerClones ==
  /\ Cloned(Owner)
  /\ current' = call[Owner].thread
  /\ UNCHANGED <<input, excuses>>

Beginning ==
  WorkerStart \/ WorkerClones \/ (CloneFails(Owner) /\ UNCHANGED <<workVars, excuses>>)

-----------------------------------------------------------------------------
(* Mutant: without the wait for space.                                     *)
PushAnyway(ticket) == input' = Append(input, ticket)

(* mailbox-push, whose answer worker-enqueue-ticket leaves unread.         *)
Push(ticket) ==
  \/ Len(input) < QueueSize /\ input' = Append(input, ticket)
  \/ Len(input) = QueueSize /\ UNCHANGED input

WorkerEnqueue ==
  /\ OwnerAt("idle")
  /\ Push(Work)
  /\ Quietly
  /\ UNCHANGED <<at, call, current, excuses>>

(* worker-stop, which destroy-worker/2 begins with: worker-running?  A     *)
(* stop of a thread that does not run does nothing, and a destroy goes on. *)
Stops(word, limit) ==
  /\ OwnerAt("idle")
  /\ current # NoStruct /\ tid[current] > 0
  /\ call' = [call EXCEPT ![Owner] = Call(word, current, limit)]
  /\ Goto(Owner, "bye")
  /\ Quietly
  /\ UNCHANGED <<workVars, excuses>>

WorkerStop == Stops("worker-stop", FALSE)

DestroyWorker ==
  /\ current # NoStruct /\ state[current] # Destroyed
  /\ \E limit \in BOOLEAN : Stops("destroy-worker/2", limit)

(* A thread that does not run is destroyed without a join.                 *)
DestroyStopped ==
  /\ OwnerAt("idle")
  /\ current # NoStruct /\ tid[current] = 0 /\ state[current] # Destroyed
  /\ call' = [call EXCEPT ![Owner] = Call("destroy-worker/2", current, FALSE)]
  /\ Goto(Owner, "destroy")
  /\ unborn' = IF \E b \in Clones : on[b] = current /\ stage[b] = "cloned"
               THEN unborn \cup {current} ELSE unborn
  /\ Quietly
  /\ UNCHANGED <<workVars, gaveUp>>

EnqueueBye ==
  /\ OwnerAt("bye")
  /\ Push(Bye)
  /\ \/ In("worker-stop") /\ Return(Owner)
     \/ In("destroy-worker/2") /\ Goto(Owner, "join") /\ UNCHANGED call
  /\ Quietly
  /\ UNCHANGED <<current, excuses>>

(* Whatever the join has answered, the thread is destroyed.                *)
DestroyJoined ==
  /\ DestroyThread(Owner)
  /\ gaveUp' = IF OwnerAt("unjoined") THEN gaveUp \cup {current} ELSE gaveUp
  /\ UNCHANGED <<workVars, unborn>>

Ending == WorkerStop \/ DestroyWorker \/ DestroyStopped \/ EnqueueBye \/ DestroyJoined

-----------------------------------------------------------------------------
(* worker-fn.                                                              *)
Quiet(b) == UNCHANGED <<structVars, on, at, call, waitVars, overlapped>>

(* worker-exec of a ticket with bye ends the thread there and then; after  *)
(* any other and its worker-reply the frame repeats.                       *)
Pop(b) ==
  /\ stage[b] = "run" /\ input # <<>>
  /\ input' = Tail(input)
  /\ IF Head(input) = Bye THEN Advance(b, "bye") ELSE UNCHANGED stage
  /\ Quiet(b) /\ UNCHANGED <<current, excuses>>

PopFails(b) ==
  /\ stage[b] = "run" /\ input = <<>>
  /\ Advance(b, "return")
  /\ Quiet(b) /\ UNCHANGED <<workVars, excuses>>

Working(b) == Pop(b) \/ PopFails(b) \/ (Living(b) /\ UNCHANGED <<workVars, excuses>>)

-----------------------------------------------------------------------------
(* worker-wait-to-start/2, and thread-join/2 on the worker's thread, by    *)
(* anybody but the owner.  Bound: without a timeout, which the owner has.  *)
Waits(c) ==
  /\ at[c] = "idle" /\ c # Owner /\ current # NoStruct
  /\ \E word \in {"thread-wait-to-start/2", "thread-join/2"} :
       Await(c, word, current, FALSE)
  /\ UNCHANGED <<workVars, excuses>>

Waiting(c) == Waits(c) \/ (Awaiting(c) /\ UNCHANGED <<workVars, excuses>>)

-----------------------------------------------------------------------------
(* A clone whose stack is gone takes the process down with it.             *)
Standing == \A b \in Clones : OnStack(b) => mapped[on[b]]

Next ==
  /\ Standing
  /\ \/ Beginning \/ WorkerEnqueue \/ Ending
     \/ \E b \in Clones : Working(b)
     \/ \E c \in Callers : Waiting(c)

Spec == Init /\ [][Next]_workerVars

-----------------------------------------------------------------------------
WorkerTypeOK ==
  /\ StructsOK /\ CallsOK
  /\ stage \in [Clones -> Stages]
  /\ at \in [Callers -> Labels \cup {"bye"}]
  /\ current \in Structs \cup {NoStruct}
  /\ input \in Seq({Bye, Work}) /\ Len(input) <= QueueSize

(* "thread-alive?": a thread that was not restarted while it was leaving   *)
(* has its stack for itself, and its tid is the clone that runs on it from *)
(* the first instruction to the last.                                      *)
AliveTells ==
  \A s \in Structs \ overlapped :
    LET clones == {b \in Clones : on[b] = s /\ OnStack(b)}
    IN  /\ \A b, o \in clones : b = o
        /\ \A b \in clones : tid[s] = IF stage[b] = "cloned" THEN 0 ELSE b
        /\ clones = {} => tid[s] = 0

(* destroy-worker/2: no clone loses its stack, unless the owner destroyed  *)
(* the worker on a join that timed out or was interrupted, or before the   *)
(* clone had run for the first time, or after a restart while it was       *)
(* leaving.                                                                *)
StackOutlives ==
  \A b \in Clones :
    OnStack(b) => mapped[on[b]] \/ on[b] \in gaveUp \cup unborn \cup overlapped

(* thread-join/2: nobody sleeps through the end of a thread.  When one     *)
(* sleeps on its tid and the tid is zero, the kernel is about to wake it,  *)
(* or has woken another one in its place.                                  *)
JoinerHasWaker ==
  \A c \in Callers \ passed :
    asleep[c] # Awake /\ call[c].field = "tid" /\ expected[c] # 0 /\ tid[call[c].thread] = 0
      => \E b \in Clones : on[b] = call[c].thread /\ stage[b] = "told"

(* thread-init: nobody sleeps through the start of a thread, even one that *)
(* is over by now.  (THREAD-FAILED and THREAD-DESTROYED wake nobody.)      *)
StarterHasWaker ==
  \A c \in Callers \ passed :
    /\ asleep[c] # Awake /\ call[c].field = "state"
    /\ expected[c] < Running /\ state[call[c].thread] \in {Running, Exited}
    => \E b \in Clones : on[b] = call[c].thread /\ stage[b] = "announce"
=============================================================================
