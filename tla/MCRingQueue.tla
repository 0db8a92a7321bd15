---------------------------- MODULE MCRingQueue ----------------------------
EXTENDS RingQueue, TLC

(* The messages are only copied, so they can be permuted.                  *)
MsgSymmetry == Permutations(Msgs)
=============================================================================
