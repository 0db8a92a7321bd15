------------------------------ MODULE PIFutex ------------------------------
(***************************************************************************)
(* The kernel side of futex-lock-pi and futex-unlock-pi of                 *)
(* src/lib/linux/futex.4th.  The word of a priority inheriting futex holds *)
(* the id of its owner and the FUTEX_WAITERS bit; beside it the kernel     *)
(* keeps its own list of waiters and, while there are any, its own idea of *)
(* the owner.  It never repairs a word that was stored to behind its back. *)
(***************************************************************************)
CONSTANTS
  Threads,
  Locks,    (* the words                                                   *)
  Nobody    (* a thread id of zero                                         *)

VARIABLES
  latch,    (* the words: FUTEX_TID_MASK and FUTEX_WAITERS                 *)
  waiting,  (* the threads blocked on each word                            *)
  piOwner   (* whom the kernel takes for the owner they wait for           *)

piVars == <<latch, waiting, piOwner>>

Word(t, b) == [owner |-> t, waiters |-> b]

PITypeOK ==
  /\ latch \in [Locks -> [owner : Threads \cup {Nobody}, waiters : BOOLEAN]]
  /\ waiting \in [Locks -> SUBSET Threads]
  /\ piOwner \in [Locks -> Threads \cup {Nobody}]

PIInit ==
  /\ latch = [l \in Locks |-> Word(Nobody, FALSE)]
  /\ waiting = [l \in Locks |-> {}]
  /\ piOwner = [l \in Locks |-> Nobody]

Store(l, t) == latch' = [latch EXCEPT ![l] = Word(t, FALSE)]

(* FUTEX_LOCK_PI of a free word that nobody waits for.                     *)
LockFree(t, l) ==
  /\ waiting[l] = {} /\ latch[l].owner = Nobody
  /\ Store(l, t)
  /\ UNCHANGED <<waiting, piOwner>>

(* The first waiter sets FUTEX_WAITERS; another one joins if the word      *)
(* still names the owner the kernel knows.                                 *)
LockBlocks(t, l) ==
  /\ \/ /\ waiting[l] = {} /\ latch[l].owner # Nobody
        /\ latch' = [latch EXCEPT ![l] = Word(latch[l].owner, TRUE)]
        /\ piOwner' = [piOwner EXCEPT ![l] = latch[l].owner]
     \/ /\ waiting[l] # {} /\ latch[l].owner = piOwner[l]
        /\ UNCHANGED <<latch, piOwner>>
  /\ waiting' = [waiting EXCEPT ![l] = @ \cup {t}]

(* -EINVAL: the word contradicts what the kernel knows.                    *)
LockRefused(t, l) ==
  /\ waiting[l] # {} /\ latch[l].owner # piOwner[l]
  /\ UNCHANGED piVars

(* FUTEX_UNLOCK_PI hands the word to a waiter, FUTEX_WAITERS set whether   *)
(* or not there are more, ...  It is called with FUTEX_WAITERS seen, which *)
(* nobody but the kernel sets, so there is a waiter or the word has since  *)
(* been stored to.                                                         *)
HandOver(t, l) ==
  /\ latch[l].owner = t /\ piOwner[l] = t
  /\ \E w \in waiting[l] :
       /\ latch' = [latch EXCEPT ![l] = Word(w, TRUE)]
       /\ waiting' = [waiting EXCEPT ![l] = @ \ {w}]
       /\ piOwner' = [piOwner EXCEPT
                        ![l] = IF waiting[l] = {w} THEN Nobody ELSE w]

(* ... or answers -EPERM or -EINVAL.                                       *)
UnlockRefused(t, l) ==
  /\ latch[l].owner # t \/ (waiting[l] # {} /\ piOwner[l] # t)
  /\ UNCHANGED piVars
=============================================================================
