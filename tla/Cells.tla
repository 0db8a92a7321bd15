------------------------------- MODULE Cells -------------------------------
(***************************************************************************)
(* The cells of the C Forths and the words that only compute on the data   *)
(* stack.  A cell is CellBits wide; it is written as a signed number, and  *)
(* the unsigned reading of the union is taken where the code takes it.     *)
(* The results are sequences with the top last, so that a definition reads *)
(* like the stack comment of its word.  C3, C4 and C5 agree on these.      *)
(***************************************************************************)
EXTENDS Integers, Sequences

CONSTANT CellBits

ASSUME CellBitsAssumption == CellBits \in Nat \ {0}

HalfRange == 2 ^ (CellBits - 1)
ASSUME HalfRangeAssumption == HalfRange \in Nat \ {0}

Signed(n) == ((n + HalfRange) % (2 * HalfRange)) - HalfRange
Unsigned(n) == n % (2 * HalfRange)
Flag(b) == IF b THEN 1 ELSE 0

Magnitude(n) == IF n < 0 THEN -n ELSE n

(* C divides towards zero, TLA+ towards minus infinity.                    *)
Quotient(b, a) ==
  LET q == Magnitude(b) \div Magnitude(a)
  IN  IF (a < 0) = (b < 0) THEN q ELSE -q
Remainder(b, a) == b - a * Quotient(b, a)
-----------------------------------------------------------------------------
(* ( b a -- result )                                                       *)
Differences == {"int_sub", "uint_sub", "ptr_add", "ptr_sub"}
Difference(word, b, a) ==
  <<Signed(IF word = "ptr_add" THEN b + a ELSE b - a)>>

Arithmetic == {"int_add", "int_mul", "int_div", "int_mod"}
Computed(word, b, a) ==
  CASE word = "int_add" -> <<Signed(b + a)>>
    [] word = "int_mul" -> <<Signed(b * a)>>
    [] word = "int_div" -> <<Signed(Quotient(b, a))>>
    [] word = "int_mod" -> <<Signed(Remainder(b, a))>>

Shifts == {"bsl", "bsr"}
Shifted(word, b, a) ==
  <<Signed(IF word = "bsl" THEN Unsigned(b) * 2 ^ a ELSE Unsigned(b) \div 2 ^ a)>>

Comparisons == {"int_lte", "int_lt", "equals"}
Compared(word, b, a) ==
  CASE word = "int_lte" -> <<Flag(b <= a)>>
    [] word = "int_lt" -> <<Flag(b < a)>>
    [] word = "equals" -> <<Flag(b = a)>>

(* ( a b -- b a ), ( a b -- a b b )                                        *)
Copies == {"swap", "fdup"}
Copied(word, a, b) == IF word = "swap" THEN <<b, a>> ELSE <<a, b, b>>

(* ( a b -- a b a )                                                        *)
Overed(word, a, b) == <<a, b, a>>

(* The comments of C4 and C5 name the orders of these three.               *)
Turns == {"roll", "shift", "rot"}
Turned(word, a, b, c) ==
  CASE word = "roll" -> <<c, a, b>>
    [] word = "shift" -> <<b, c, a>>
    [] word = "rot" -> <<c, b, a>>
=============================================================================
