------------------------------- MODULE Futex -------------------------------
(***************************************************************************)
(* The kernel side of the futex words of src/lib/linux/futex.4th: which    *)
(* thread is asleep on which 32 bit cell, and the result its last          *)
(* FUTEX_WAIT returned.  The words themselves only marshal the arguments   *)
(* of the system call; what the kernel does with them is external to the   *)
(* repository.  The library uses FUTEX_WAKE with a count of 1, 0x7FFFFFFF  *)
(* and -1; the kernel wakes one waiter before it compares the count, so -1 *)
(* wakes one.                                                              *)
(***************************************************************************)
CONSTANTS
  Threads,  (* the threads that may block                                  *)
  Cells,    (* the memory cells that are waited on                         *)
  Awake     (* not a cell: asleep[t] when t is not in FUTEX_WAIT           *)

VARIABLES
  asleep,   (* asleep[t]: the cell t is blocked on, or Awake               *)
  result    (* result[t]: what the kernel answered t's last FUTEX_WAIT     *)

futexVars == <<asleep, result>>

(* "none" stands for "no call made yet"; the others are 0 and -errno.      *)
Errors  == {"EAGAIN", "ETIMEDOUT", "EINTR"}
Results == {"none", "ok"} \cup Errors

FutexTypeOK ==
  /\ asleep \in [Threads -> Cells \cup {Awake}]
  /\ result \in [Threads -> Results]

FutexInit ==
  /\ asleep = [t \in Threads |-> Awake]
  /\ result = [t \in Threads |-> "none"]

Sleepers(cell) == {t \in Threads : asleep[t] = cell}

(* FUTEX_WAIT: compare and block are one atomic step of the kernel.        *)
FutexWait(t, cell, current, expected) ==
  \/ /\ current = expected
     /\ asleep' = [asleep EXCEPT ![t] = cell]
     /\ UNCHANGED result
  \/ /\ current # expected
     /\ result' = [result EXCEPT ![t] = "EAGAIN"]
     /\ UNCHANGED asleep

(* FUTEX_WAKE with a count of one: some sleeper, if there is any.          *)
FutexWakeOne(cell) ==
  \/ /\ Sleepers(cell) = {}
     /\ UNCHANGED futexVars
  \/ \E t \in Sleepers(cell) :
       /\ asleep' = [asleep EXCEPT ![t] = Awake]
       /\ result' = [result EXCEPT ![t] = "ok"]

(* FUTEX_WAKE with a count of 0x7FFFFFFF: every sleeper.                   *)
FutexWakeAll(cell) ==
  /\ asleep' = [t \in Threads |-> IF asleep[t] = cell THEN Awake ELSE asleep[t]]
  /\ result' = [t \in Threads |-> IF asleep[t] = cell THEN "ok" ELSE result[t]]

(* The kernel ends a wait without a wake: the timespec ran out, or a       *)
(* signal was handled.                                                     *)
FutexGiveUp(t, error) ==
  /\ asleep[t] # Awake
  /\ asleep' = [asleep EXCEPT ![t] = Awake]
  /\ result' = [result EXCEPT ![t] = error]

(* The caller has consumed the result.                                     *)
FutexForget(t) ==
  /\ result' = [result EXCEPT ![t] = "none"]
  /\ UNCHANGED asleep
=============================================================================
