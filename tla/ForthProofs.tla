---------------------------- MODULE ForthProofs ----------------------------
(***************************************************************************)
(* What holds of C4 and C5 for every width of a cell and every program.    *)
(*                                                                         *)
(* First the arithmetic words of Cells: their results wrap around at the   *)
(* width of a cell, and still adding and subtracting undo one another and  *)
(* a quotient and a remainder make up what was divided.  The argument is   *)
(* that Signed changes a number by a multiple of the number of cells, so   *)
(* that it can be left out below another Signed.                           *)
(*                                                                         *)
(* Then the inner loops on the C stack: which functions run one is fixed   *)
(* by the machine, whatever list of words it is given.                     *)
(***************************************************************************)
EXTENDS CForthRun, TLAPS

(* The numbers a cell can hold.                                            *)
Cell == -HalfRange .. HalfRange - 1

(* Integer division by a positive number leaves a remainder below it.      *)
LEMMA DivMod ==
  ASSUME NEW x \in Int, NEW m \in Nat \ {0}
  PROVE  x \div m \in Int /\ x % m \in 0 .. m - 1 /\ x = m * (x \div m) + (x % m)
  OBVIOUS

(* The remainder is the only number below the divisor with this sum.       *)
LEMMA ModUnique ==
  ASSUME NEW m \in Nat \ {0}, NEW q \in Int, NEW s \in 0 .. m - 1
  PROVE  (m * q + s) % m = s
  OBVIOUS

(* Signed gives a cell, and differs from its argument by whole turns.      *)
LEMMA SignedType ==
  ASSUME NEW n \in Int
  PROVE  Signed(n) \in Cell /\ \E k \in Int : n = Signed(n) + 2 * HalfRange * k
<1> DEFINE m == 2 * HalfRange
           d == (n + HalfRange) \div m
           s == (n + HalfRange) % m
<1>1. m \in Nat \ {0} /\ HalfRange \in Nat \ {0}
  BY HalfRangeAssumption
<1>2. d \in Int /\ s \in 0 .. m - 1 /\ n + HalfRange = m * d + s
  <2>1. n + HalfRange \in Int
    BY <1>1
  <2> HIDE DEF m
  <2> QED
    BY <1>1, <2>1, DivMod
<1>3. Signed(n) = s - HalfRange
  BY DEF Signed
<1> HIDE DEF m, d, s
<1>4. Signed(n) \in Cell
  BY <1>1, <1>2, <1>3 DEF Cell, m
<1>5. n = Signed(n) + m * d
  BY <1>1, <1>2, <1>3
<1> QED
  BY <1>2, <1>4, <1>5 DEF m

(* A cell and any number of turns come out as the cell.                    *)
LEMMA SignedOf ==
  ASSUME NEW c \in Cell, NEW k \in Int
  PROVE  Signed(c + 2 * HalfRange * k) = c
<1> DEFINE m == 2 * HalfRange
           s == c + HalfRange
<1>1. m \in Nat \ {0} /\ HalfRange \in Nat \ {0}
  BY HalfRangeAssumption
<1>2. s \in 0 .. m - 1 /\ c \in Int
  BY <1>1 DEF Cell
<1>3. c + 2 * HalfRange * k + HalfRange = m * k + s
  <2>1. m * k \in Int
    BY <1>1
  <2> QED
    BY <1>1, <1>2, <2>1
<1>4. (m * k + s) % m = s
  BY <1>1, <1>2, ModUnique
<1> QED
  BY <1>1, <1>2, <1>3, <1>4 DEF Signed

(* Wrapping a summand makes no difference to the wrapped sum.              *)
LEMMA SignedSum ==
  ASSUME NEW x \in Int, NEW y \in Int
  PROVE  Signed(Signed(x) + y) = Signed(x + y)
<1>1. PICK j \in Int : x = Signed(x) + 2 * HalfRange * j
  BY SignedType
<1>2. PICK k \in Int : x + y = Signed(x + y) + 2 * HalfRange * k
  BY SignedType
<1>3. Signed(x) \in Int /\ Signed(x + y) \in Cell /\ Signed(x + y) \in Int /\ HalfRange \in Int
  BY SignedType, HalfRangeAssumption DEF Cell
<1> DEFINE m == 2 * HalfRange
<1>4. m \in Int
  BY <1>3
<1>5. m * j \in Int /\ m * k \in Int /\ m * (k - j) = m * k - m * j
  <2> HIDE DEF m
  <2> QED
    BY <1>4
<1>6. x = Signed(x) + m * j /\ x + y = Signed(x + y) + m * k
  BY <1>1, <1>2
<1>7. Signed(x) + y = Signed(x + y) + m * (k - j)
  <2> HIDE DEF m
  <2> QED
    BY <1>3, <1>5, <1>6
<1>8. Signed(x) + y = Signed(x + y) + 2 * HalfRange * (k - j)
  BY <1>7
<1>9. k - j \in Int
  OBVIOUS
<1>10. Signed(Signed(x + y) + 2 * HalfRange * (k - j)) = Signed(x + y)
  BY <1>3, <1>9, SignedOf
<1> QED
  BY <1>8, <1>10

(* The magnitude is a natural number, and zero only of zero.               *)
LEMMA MagnitudeType ==
  ASSUME NEW n \in Int
  PROVE  Magnitude(n) \in Nat /\ (n # 0 => Magnitude(n) > 0)
  BY DEF Magnitude

(* Division towards zero, as C does it: quotient and remainder make up the *)
(* dividend, the remainder is smaller than the divisor and has the sign of *)
(* the dividend.                                                           *)
LEMMA DivisionExact ==
  ASSUME NEW b \in Int, NEW a \in Int \ {0}
  PROVE  /\ Quotient(b, a) \in Int /\ Remainder(b, a) \in Int
         /\ b = a * Quotient(b, a) + Remainder(b, a)
         /\ Magnitude(Remainder(b, a)) < Magnitude(a)
         /\ b >= 0 => Remainder(b, a) >= 0
         /\ b <= 0 => Remainder(b, a) <= 0
<1> DEFINE m == Magnitude(a)
           c == Magnitude(b)
           q == c \div m
           s == c % m
<1>1. m \in Nat \ {0} /\ c \in Nat
  BY MagnitudeType
<1>2. q \in Int /\ s \in 0 .. m - 1 /\ c = m * q + s
  <2> HIDE DEF m, c
  <2> QED
    BY <1>1, DivMod
<1>3. Quotient(b, a) = IF (a < 0) = (b < 0) THEN q ELSE -q
  BY DEF Quotient
<1>4. Quotient(b, a) \in Int /\ Remainder(b, a) = b - a * Quotient(b, a)
  BY <1>2, <1>3 DEF Remainder
<1>5. Remainder(b, a) = IF b < 0 THEN -s ELSE s
  <2> HIDE DEF q, s
  <2>1. a * q \in Int /\ m * q \in Int /\ a * (-q) = -(a * q) /\ (-a) * q = -(a * q)
    BY <1>1, <1>2
  <2>2. m = IF a < 0 THEN -a ELSE a
    BY DEF Magnitude
  <2>3. c = IF b < 0 THEN -b ELSE b
    BY DEF Magnitude
  <2> HIDE DEF m, c
  <2>4. CASE a < 0
    <3>1. m * q = -(a * q)
      BY <2>1, <2>2, <2>4
    <3> QED
      BY <1>2, <1>3, <1>4, <2>1, <2>3, <2>4, <3>1
  <2>5. CASE ~(a < 0)
    BY <1>2, <1>3, <1>4, <2>1, <2>2, <2>3, <2>5
  <2> QED
    BY <2>4, <2>5
<1>6. Magnitude(Remainder(b, a)) = s
  BY <1>2, <1>5 DEF Magnitude
<1>7. s >= 0 /\ s < m /\ (b = 0 => s = 0)
  <2>1. b = 0 => c = 0
    BY DEF Magnitude
  <2> HIDE DEF m, c, q, s
  <2>2. c = 0 => s = 0
    <3>1. c = 0 => q = 0
      BY <1>1, <1>2
    <3> QED
      BY <1>1, <1>2, <3>1
  <2> QED
    BY <1>1, <1>2, <2>1, <2>2
<1>8. b = a * Quotient(b, a) + Remainder(b, a)
  <2>1. a * Quotient(b, a) \in Int
    BY <1>4
  <2> QED
    BY <1>4, <2>1
<1> QED
  BY <1>2, <1>4, <1>5, <1>6, <1>7, <1>8

(* What is a cell already is left as it is.                                *)
LEMMA SignedCell ==
  ASSUME NEW c \in Cell
  PROVE  Signed(c) = c
<1>1. c + 2 * HalfRange * 0 = c
  BY HalfRangeAssumption DEF Cell
<1> QED
  BY <1>1, SignedOf

(* Adding and subtracting undo one another at every width of a cell, when  *)
(* the result in between wraps around too: int_add and int_sub of numbers, *)
(* ptr_add and ptr_sub of addresses, uint_sub in place of ptr_sub.  The    *)
(* lists of c4-words-def.c and c4-interp.c go forth and back in the stack  *)
(* and the buffers with these words.                                       *)
THEOREM AddingUndone ==
  ASSUME NEW b \in Cell, NEW a \in Cell
  PROVE  /\ Difference("int_sub", Computed("int_add", b, a)[1], a) = <<b>>
         /\ Computed("int_add", Difference("int_sub", b, a)[1], a) = <<b>>
         /\ Difference("ptr_sub", Difference("ptr_add", b, a)[1], a) = <<b>>
         /\ Difference("uint_sub", Difference("ptr_add", b, a)[1], a) = <<b>>
<1>1. b \in Int /\ a \in Int
  BY HalfRangeAssumption DEF Cell
<1>2. Signed(Signed(b + a) - a) = b
  <2>1. (b + a) + (-a) = b /\ Signed(b + a) \in Int
    BY <1>1, SignedType, HalfRangeAssumption DEF Cell
  <2>2. Signed(Signed(b + a) + (-a)) = Signed(b)
    BY <1>1, <2>1, SignedSum
  <2> QED
    BY <1>1, <2>1, <2>2, SignedCell
<1>3. Signed(Signed(b - a) + a) = b
  <2>1. (b - a) + a = b /\ b - a \in Int
    BY <1>1
  <2> QED
    BY <1>1, <2>1, SignedSum, SignedCell
<1> QED
  BY <1>2, <1>3 DEF Difference, Computed

(* A quotient by two or more is at most half of the dividend.              *)
LEMMA HalfAtMost ==
  ASSUME NEW c \in Nat, NEW m \in Nat, m >= 2
  PROVE  c \div m \in Nat /\ 2 * (c \div m) <= c
<1> DEFINE q == c \div m
           s == c % m
<1>1. q \in Int /\ s \in 0 .. m - 1 /\ c = m * q + s
  BY DivMod
<1> HIDE DEF q, s
<1>2. m * q \in Int /\ m * q <= c
  BY <1>1
<1>3. q >= 0
  BY <1>1
<1>4. m * q >= 2 * q
  BY <1>1, <1>3
<1> QED
  BY <1>1, <1>2, <1>3, <1>4 DEF q

(* Division never leaves the cells but for the smallest by minus one,      *)
(* where C leaves int_div undefined.                                       *)
LEMMA QuotientCell ==
  ASSUME NEW b \in Cell, NEW a \in Cell \ {0}, ~(b = -HalfRange /\ a = -1)
  PROVE  Quotient(b, a) \in Cell /\ Remainder(b, a) \in Cell
<1> DEFINE h == HalfRange
           m == Magnitude(a)
           c == Magnitude(b)
           q == c \div m
<1>1. h \in Nat \ {0} /\ b \in -h .. h - 1 /\ a \in -h .. h - 1 /\ a # 0
  BY HalfRangeAssumption DEF Cell
<1>2. /\ Quotient(b, a) \in Int /\ Remainder(b, a) \in Int
      /\ Magnitude(Remainder(b, a)) < m
      /\ b >= 0 => Remainder(b, a) >= 0
      /\ b <= 0 => Remainder(b, a) <= 0
      /\ b = a * Quotient(b, a) + Remainder(b, a)
  BY <1>1, DivisionExact
<1>3. m \in Nat \ {0} /\ c \in Nat /\ c <= h /\ m <= h
  BY <1>1 DEF Magnitude
<1>4. Remainder(b, a) \in Cell
  BY <1>1, <1>2, <1>3 DEF Magnitude, Cell
<1>5. CASE a = 1 \/ a = -1
  <2>1. Remainder(b, a) = 0
    BY <1>2, <1>5 DEF Magnitude
  <2>2. b = a * Quotient(b, a)
    <3>1. a * Quotient(b, a) \in Int
      BY <1>1, <1>2
    <3> QED
      BY <1>1, <1>2, <2>1, <3>1
  <2>3. Quotient(b, a) = IF a = 1 THEN b ELSE -b
    BY <1>2, <1>5, <2>2
  <2> QED
    BY <1>1, <1>4, <1>5, <2>3 DEF Cell
<1>6. CASE a # 1 /\ a # -1
  <2>1. m >= 2
    BY <1>1, <1>6 DEF Magnitude
  <2>2. q \in Nat /\ 2 * q <= c
    <3> HIDE DEF c, m
    <3> QED
      BY <1>3, <2>1, HalfAtMost
  <2>3. Quotient(b, a) \in {q, -q}
    BY DEF Quotient
  <2> QED
    BY <1>1, <1>3, <1>4, <2>2, <2>3 DEF Cell
<1> QED
  BY <1>5, <1>6

(* int_div and int_mod of C4 and C5 agree at every width of a cell: int_mul *)
(* and int_add of what they push give the dividend back, with a remainder  *)
(* smaller than the divisor and of the sign of the dividend.  Excluded are *)
(* a divisor of zero and the smallest cell by minus one, which C leaves    *)
(* undefined.                                                              *)
THEOREM DivisionUndone ==
  ASSUME NEW b \in Cell, NEW a \in Cell \ {0}, ~(b = -HalfRange /\ a = -1)
  PROVE  LET q == Computed("int_div", b, a)[1]
             s == Computed("int_mod", b, a)[1]
         IN  /\ Computed("int_add", Computed("int_mul", a, q)[1], s) = <<b>>
             /\ Magnitude(s) < Magnitude(a)
             /\ b >= 0 => s >= 0
             /\ b <= 0 => s <= 0
<1>1. b \in Int /\ a \in Int \ {0}
  BY HalfRangeAssumption DEF Cell
<1>2. Computed("int_div", b, a)[1] = Quotient(b, a)
  BY QuotientCell, SignedCell DEF Computed
<1>3. Computed("int_mod", b, a)[1] = Remainder(b, a)
  BY QuotientCell, SignedCell DEF Computed
<1>4. Computed("int_add", Computed("int_mul", a, Quotient(b, a))[1], Remainder(b, a)) = <<b>>
  <2>1. a * Quotient(b, a) \in Int /\ Remainder(b, a) \in Int
    BY <1>1, DivisionExact
  <2>2. a * Quotient(b, a) + Remainder(b, a) = b
    BY <1>1, DivisionExact
  <2>3. Signed(Signed(a * Quotient(b, a)) + Remainder(b, a)) = b
    BY <2>1, <2>2, SignedSum, SignedCell
  <2> QED
    BY <2>3 DEF Computed
<1> QED
  BY <1>1, <1>2, <1>3, <1>4, DivisionExact
-----------------------------------------------------------------------------
(* What a step may do to the activations of inner loops: leave them, end   *)
(* the process, end the innermost, or begin one of these kinds inside it.  *)
Reframes(kinds) ==
  \/ UNCHANGED frames
  \/ frames' = <<>>
  \/ ~Done /\ frames' = Outer
  \/ ~Done /\ \E kind \in kinds : \E e, v, b : frames' = Append(frames, Frame(kind, e, v, b))

(* What a function of C4 can return, and that frames is a sequence.        *)
States == {"GO", "STOP", "DROP_FRAME", "POP"}
Sequence == \E S : frames \in Seq(S)

(* Every turn of the loop of C5 changes the activations in one of these    *)
(* ways, and only enter, rpush, rallot and next begin one.                 *)
LEMMA FiveReframes ==
  ASSUME Five!MachineNext
  PROVE  Reframes({"enter", "rpush", "rallot", "next"})
<1> USE DEF Reframes
<1>1. Five!Go => UNCHANGED frames
  BY DEF Five!Go
<1>2. CASE Five!Stacking
  BY <1>1, <1>2 DEF Five!Stacking, Five!Subtract, Five!Compute, Five!Shift, Five!Compare,
     Five!Copy, Five!Over, Five!Binary, Five!Turn, Five!Drop, Five!DoConst, Five!DoVar,
     Five!DoIvar, Five!Literal, Five!Here, Five!Rhere, Five!Eip, Five!Move, Five!Peek,
     Five!Poke, Five!SetDict, Five!Dict, Five!RamUsed, Five!FreeRam
<1>3. CASE Five!Jumping
  BY <1>3 DEF Five!Jumping, Five!IfJump, Five!UnlessJump, Five!JumpRel, Five!Jump
<1>4. CASE Five!Talking
  BY <1>1, <1>4 DEF Five!Talking, Five!WriteInt, Five!WriteUint, Five!WriteString,
     Five!Write, Five!Flush, Five!Cread, Five!Cwrite, Five!Cexit
<1>5. CASE Five!Nesting
  <2>1. CASE Five!Exec
    BY <2>1 DEF Five!Exec
  <2>2. CASE Five!EnterList \/ Five!DoCol
    BY <2>2 DEF Five!EnterList, Five!DoCol, Five!Enter, Five!Calls, Five!Looping, Five!Nest, Five!Frame, Frame, Five!Done, Done
  <2>3. CASE Five!Rpush \/ Five!Rallot \/ Five!NextWord
    BY <2>3 DEF Five!Rpush, Five!Rallot, Five!NextWord, Five!Share, Five!Calls, Five!Looping, Five!Nest, Five!Frame, Frame, Five!Done, Done
  <2> QED
    BY <1>5, <2>1, <2>2, <2>3 DEF Five!Nesting
<1>6. CASE Five!Leaving
  BY <1>6 DEF Five!Leaving, Five!Return, Five!Exit, Five!Rpop, Five!Ends, Five!Entered,
     Five!RpushBack, Five!RallotBack, Five!Unwound, Five!Ending, Five!Outer, Outer, Five!Done, Done
<1> QED
  BY <1>2, <1>3, <1>4, <1>5, <1>6 DEF Five!MachineNext

(* The same of C4, where the kinds are those of its own functions, and     *)
(* every function returns one of the four states.                          *)
LEMMA FourReframes ==
  ASSUME Four!MachineNext, r \in States
  PROVE  Reframes({"docol", "rpush", "rallot", "over", "fexit", "next"}) /\ r' \in States
<1> USE DEF Reframes, States
<1>1. Four!Go => UNCHANGED frames /\ r' = "GO"
  BY DEF Four!Go, Four!GoTo
<1>2. CASE Four!Stacking
  BY <1>1, <1>2 DEF Four!Stacking, Four!Subtract, Four!Compute, Four!Compare, Four!Copy,
     Four!Binary, Four!Turn, Four!Drop, Four!DoConst, Four!DoVar, Four!DoIvar,
     Four!Literal, Four!GoTo, Four!Here, Four!Rhere, Four!Eip, Four!Move, Four!Peek,
     Four!Poke, Four!SetDict, Four!Dict, Four!RamUsed, Four!FreeRam
<1>3. CASE Four!Jumping
  BY <1>3 DEF Four!Jumping, Four!IfJump, Four!UnlessJump, Four!JumpRel, Four!Jump, Four!GoTo
<1>4. CASE Four!Talking
  BY <1>1, <1>4 DEF Four!Talking, Four!WriteInt, Four!WriteUint, Four!WriteString,
     Four!Write, Four!Flush, Four!Cread, Four!Cwrite, Four!Cexit, Four!GoTo
<1>5. CASE Four!Nesting
  <2>1. CASE Four!Exec
    BY <2>1 DEF Four!Exec
  <2>2. CASE Four!DoCol
    BY <2>2 DEF Four!DoCol, Four!Runs, Four!GoTo, Four!Calls, Four!Looping, Four!Nest,
       Four!Frame, Frame, Four!Done, Done
  <2>3. CASE Four!Over
    BY <2>3 DEF Four!Over, Four!Runs, Four!GoTo, Four!Calls, Four!Looping, Four!Nest,
       Four!Frame, Frame, Four!Done, Done
  <2>4. CASE Four!Rpush
    BY <2>4 DEF Four!Rpush, Four!Runs, Four!GoTo, Four!Calls, Four!Looping, Four!Nest,
       Four!Frame, Frame, Four!Done, Done
  <2>5. CASE Four!Rallot
    BY <2>5 DEF Four!Rallot, Four!Runs, Four!GoTo, Four!Calls, Four!Looping, Four!Nest,
       Four!Frame, Frame, Four!Done, Done
  <2>6. CASE Four!Exit \/ Four!NextWord
    BY <2>6 DEF Four!Exit, Four!NextWord, Four!Runs, Four!GoTo, Four!Calls, Four!Looping,
       Four!Nest, Four!Frame, Frame, Four!Done, Done
  <2> QED
    BY <1>5, <2>1, <2>2, <2>3, <2>4, <2>5, <2>6 DEF Four!Nesting
<1>6. CASE Four!Leaving
  BY <1>6 DEF Four!Leaving, Four!Return, Four!Rpop, Four!Abort, Four!Ends,
     Four!ColonBack, Four!RpushBack, Four!RallotBack, Four!Unwound, Four!Ending,
     Four!Outer, Outer, Four!Done, Done
<1> QED
  BY <1>2, <1>3, <1>4, <1>5, <1>6 DEF Four!MachineNext

(* Such a change keeps the loop of main below all others.                  *)
LEMMA ReframedNests ==
  ASSUME NestingOK, Sequence, Reframes(Beginners), UNCHANGED machine, r' \in States
  PROVE  NestingOK' /\ Sequence'
<1>1. PICK S : frames \in Seq(S)
  BY DEF Sequence
<1>2. Beginners' = Beginners
  BY DEF Beginners
<1>3. CASE UNCHANGED frames
  BY <1>2, <1>3 DEF NestingOK, Sequence, States
<1>4. CASE frames' = <<>>
  BY <1>4 DEF NestingOK, Sequence, States
<1>5. CASE ~Done /\ frames' = Outer
  <2>1. Len(frames) \in Nat \ {0} /\ DOMAIN frames = 1 .. Len(frames)
    BY <1>1, <1>5 DEF Done
  <2>2. frames' \in Seq(S) /\ DOMAIN frames' \subseteq DOMAIN frames
        /\ \A k \in DOMAIN frames' : frames'[k] = frames[k]
    BY <1>1, <1>5, <2>1 DEF Outer
  <2> QED
    BY <1>2, <2>2 DEF NestingOK, Sequence, States
<1>6. CASE ~Done /\ \E kind \in Beginners : \E e, v, b :
             frames' = Append(frames, Frame(kind, e, v, b))
  <2>0. PICK kind \in Beginners : \E e, v, b : frames' = Append(frames, Frame(kind, e, v, b))
    BY <1>6
  <2>1. PICK e, v, b : frames' = Append(frames, Frame(kind, e, v, b))
    BY <2>0
  <2> DEFINE f == Frame(kind, e, v, b)
             T == S \cup {f}
  <2>2. f.kind = kind
    BY DEF Frame
  <2> HIDE DEF f
  <2>3. frames \in Seq(T) /\ f \in T
    BY <1>1
  <2>4. Len(frames) \in Nat \ {0}
    BY <1>1, <1>6 DEF Done
  <2>5. /\ frames' \in Seq(T)
        /\ \A k \in DOMAIN frames' : \/ k \in DOMAIN frames /\ frames'[k] = frames[k]
                                     \/ k # 1 /\ frames'[k] = f
    <3> HIDE DEF T
    <3> QED
      BY <2>1, <2>3, <2>4 DEF f
  <2>6. \A k \in DOMAIN frames' : frames'[k].kind \in IF k = 1 THEN {"main"} ELSE Beginners
    BY <2>2, <2>5 DEF NestingOK
  <2> QED
    BY <1>2, <2>5, <2>6 DEF NestingOK, Sequence, States
<1> QED
  BY <1>3, <1>4, <1>5, <1>6 DEF Reframes

(* Both machines start in the loop of main alone.                          *)
LEMMA BootNests ==
  ASSUME Init
  PROVE  NestingOK /\ Sequence
<1>1. r \in States
  BY DEF Init, Four!Boot, States
<1>2. PICK f : f = Frame("main", NULL, 0, CStackTop) /\ frames = <<f>>
  BY DEF Init, Five!Boot, Four!Boot, Five!Frame, Four!Frame, Frame, Five!NULL, Four!NULL, NULL
<1>3. frames \in Seq({f}) /\ DOMAIN frames = {1} /\ frames[1].kind = "main"
  BY <1>2 DEF Frame
<1> QED
  BY <1>1, <1>3 DEF NestingOK, Sequence, States

(* For every program, in C4 and in C5: the loop of main is below all       *)
(* others, as long as the process runs, every other loop was begun by a    *)
(* function of that machine that has code for its end, and what a function *)
(* of C4 returns is one of the states that code tells apart.               *)
THEOREM NestingCorrect == Spec => []NestingOK
<1> DEFINE IInv == NestingOK /\ Sequence
<1>1. Init => IInv
  BY BootNests
<1>2. IInv /\ [Next]_runVars => IInv'
  <2> SUFFICES ASSUME IInv, [Next]_runVars
               PROVE  IInv'
    OBVIOUS
  <2>1. r \in States
    BY DEF NestingOK, States
  <2>2. CASE machine = "C5" /\ Five!MachineNext /\ UNCHANGED <<r, called>> /\ UNCHANGED machine
    <3>1. Reframes(Beginners)
      BY <2>2, FiveReframes DEF Beginners
    <3> QED
      BY <2>1, <2>2, <3>1, ReframedNests
  <2>3. CASE machine = "C4" /\ Four!MachineNext /\ UNCHANGED machine
    <3>1. Reframes(Beginners) /\ r' \in States
      BY <2>1, <2>3, FourReframes DEF Beginners
    <3> QED
      BY <2>3, <3>1, ReframedNests
  <2>4. CASE UNCHANGED runVars
    <3>1. Reframes(Beginners) /\ UNCHANGED machine /\ r' \in States
      BY <2>1, <2>4 DEF runVars, forthVars, Reframes
    <3> QED
      BY <3>1, ReframedNests
  <2> QED
    BY <2>2, <2>3, <2>4 DEF Next
<1> QED
  BY <1>1, <1>2, PTL DEF Spec

(* A turn of either machine begins a loop inside the innermost, or ends    *)
(* the innermost, or ends the process: no word reaches past the loop that  *)
(* called it, and the activations below keep what they have to come back   *)
(* to and the cell rpush put away.                                         *)
THEOREM InnermostOnly == Spec => [][Reframes(Beginners)]_frames
<1>1. NestingOK /\ [Next]_runVars => [Reframes(Beginners)]_frames
  <2> SUFFICES ASSUME NestingOK, Next
               PROVE  Reframes(Beginners)
    BY DEF runVars, forthVars
  <2>1. CASE machine = "C5" /\ Five!MachineNext
    BY <2>1, FiveReframes DEF Beginners
  <2>2. CASE machine = "C4" /\ Four!MachineNext
    BY <2>2, FourReframes DEF Beginners, NestingOK, States
  <2> QED
    BY <2>1, <2>2 DEF Next
<1> QED
  BY <1>1, NestingCorrect, PTL DEF Spec
=============================================================================
