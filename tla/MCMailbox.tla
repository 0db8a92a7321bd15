----------------------------- MODULE MCMailbox -----------------------------
EXTENDS Mailbox, TLC

(* Producers, who are their messages, and consumers are told apart by      *)
(* identity only.                                                          *)
ActorSymmetry == Permutations(Producers) \cup Permutations(Consumers)
=============================================================================
