---------------------------- MODULE FutexWaitFor ----------------------------
(***************************************************************************)
(* futex-wait-for-fun/3 and the words below it, one shared access per      *)
(* step: wait until the cell at an address satisfies a predicate.          *)
(*                                                                         *)
(* The module that waits sets pc[t] to "test" to begin, passes the value   *)
(* of the cell and whether the predicate holds of it to every step, and    *)
(* names the label to go on at when the wait answers true (onTrue) and     *)
(* when it answers an error and false (onFalse).                           *)
(***************************************************************************)
EXTENDS Naturals

CONSTANTS
  Threads, Cells, Awake,
  Values,    (* what the cells hold                                        *)
  Nothing    (* the one that stands for no value outside of a system call  *)

VARIABLES
  pc,        (* the next shared access of each thread                      *)
  expected,  (* expected[t]: the value futex-wait/2 peeked                 *)
  asleep, result

F == INSTANCE Futex

WaitLabels == {"test", "peek", "enter", "woken"}

WaitTypeOK ==
  /\ expected \in [Threads -> Values]
  /\ F!FutexTypeOK

WaitInit ==
  /\ expected = [t \in Threads |-> Nothing]
  /\ F!FutexInit

Goto(t, label) == pc' = [pc EXCEPT ![t] = label]

(* The predicate is asked of one load of the cell ...                      *)
Test(t, holds, onTrue) ==
  /\ pc[t] = "test"
  /\ Goto(t, IF holds THEN onTrue ELSE "peek")
  /\ UNCHANGED <<expected, asleep, result>>

(* ... and the value to sleep on is another: futex-wait/2 peeks again.     *)
Peek(t, value) ==
  /\ pc[t] = "peek"
  /\ expected' = [expected EXCEPT ![t] = value]
  /\ Goto(t, "enter")
  /\ UNCHANGED <<asleep, result>>

Enter(t, cell, value) ==
  /\ pc[t] = "enter"
  /\ F!FutexWait(t, cell, value, expected[t])
  /\ Goto(t, "woken")
  /\ UNCHANGED expected

(* The system call is back.  Woken by a FUTEX_WAKE, the predicate is asked *)
(* again; when it does not hold the frame repeats, unless a timeout was    *)
(* given and the seconds are up.  Any error of the system call ends the    *)
(* wait, EAGAIN and EINTR included, with or without a timeout: the branch  *)
(* that would wait out the rest of the time compares -ETIMEDOUT with       *)
(* ETIMEDOUT and is never taken.                                           *)
Woken(t, holds, timed, onTrue, onFalse) ==
  /\ pc[t] = "woken"
  /\ asleep[t] = Awake
  /\ \/ result[t] = "ok" /\ holds /\ Goto(t, onTrue)
     \/ result[t] = "ok" /\ ~holds /\ Goto(t, "test")
     \/ result[t] = "ok" /\ ~holds /\ timed /\ Goto(t, onFalse)
     \/ result[t] \in F!Errors /\ Goto(t, onFalse)
  /\ F!FutexForget(t)
  /\ expected' = [expected EXCEPT ![t] = Nothing]

(* The kernel's side: the relative timeout, and signals.                   *)
GiveUp(t, error) ==
  /\ F!FutexGiveUp(t, error)
  /\ UNCHANGED <<pc, expected>>
=============================================================================
