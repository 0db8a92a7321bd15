------------------------------- MODULE CForth -------------------------------
(***************************************************************************)
(* What the C Forths C4 and C5 share: words in read-only memory, cells in  *)
(* RAM, a data stack that grows down, and the input and output of the      *)
(* process.  Memory is addressed by the cell, and a character takes a cell *)
(* of its own: sizeof(Cell) is 1, and the program never reads the bytes of *)
(* a cell.  NULL is address 0.                                             *)
(***************************************************************************)
EXTENDS Cells, FiniteSetsExt

CONSTANTS
  Ram,          (* the addresses of the variables and the stacks            *)
  Routine,      (* the C functions, numbered                                *)
  LastWord,     (* the address of the variable last_word                    *)
  InitBrk,      (* the address of the static variable of _ram_used          *)
  CStackTop     (* where the C stack, which grows down, starts              *)

VARIABLES
  rom,          (* the words, their lists and their strings, from address 1 *)
  mem,          (* the cells of RAM                                         *)
  sp,           (* the top of the data stack                                *)
  eip,          (* the next word to execute                                 *)
  frames,       (* the activations of C functions that run an inner loop    *)
  script,       (* what the reads of the process will find                  *)
  taken,        (* how much of it has been read                             *)
  out           (* what has been written                                    *)

forthVars == <<rom, mem, sp, eip, frames, script, taken, out>>

NULL == 0
Read(a) == IF a \in DOMAIN rom THEN rom[a] ELSE mem[a]
Arg(n) == mem[sp + n - 1]

(* struct Word                                                             *)
CodeOf(word) == Routine[Read(word + 1)]
DataOf(word) == Read(word + 2)

(* _doop finds the function of a primitive in its data field.              *)
FunctionOf(word) ==
  IF CodeOf(word) = "doop" THEN Routine[DataOf(word)] ELSE CodeOf(word)

(* The stack after the top n cells have been replaced by the results, at   *)
(* most three, when the inner loop has left the word it called below.      *)
Replace(word, n, results) ==
  LET top == sp + n - Len(results)
      result(a, old) == IF a < sp + n THEN results[sp + n - a] ELSE old
  IN  /\ sp' = top
      /\ mem' = [mem EXCEPT ![sp - 1] = word, ![top] = result(top, @),
                            ![top + 1] = result(top + 1, @), ![top + 2] = result(top + 2, @)]

Store(word, a, value, n) ==
  /\ sp' = sp + n
  /\ mem' = [mem EXCEPT ![sp - 1] = word, ![a] = value]

-----------------------------------------------------------------------------
(* The C stack.  A frame of an inner loop takes one cell, besides what     *)
(* alloca adds to it.                                                      *)
Frame(kind, ret, val, base) == [kind |-> kind, eip |-> ret, val |-> val, base |-> base]

Innermost == frames[Len(frames)]
Outer == SubSeq(frames, 1, Len(frames) - 1)
CStack == IF frames = <<>> THEN CStackTop ELSE Innermost.base
Nest(kind, ret, val, room) ==
  frames' = Append(frames, Frame(kind, ret, val, CStack - 1 - room))
Done == frames = <<>>

(* _ram_used: how far the C stack has grown since the first use, which     *)
(* gives 0; not a measure of the heap.                                     *)
MeasureStack ==
  LET first == IF mem[InitBrk] = NULL THEN CStack ELSE mem[InitBrk]
  IN  /\ sp' = sp - 1
      /\ mem' = [mem EXCEPT ![sp - 1] = first - CStack, ![InitBrk] = first]

-----------------------------------------------------------------------------
Says(kind, value) == out' = Append(out, <<kind, value>>)

(* read(2): a number of the characters that wait, the end of the input, or *)
(* an error.  Past the end of the script the input stays at its end.  All  *)
(* descriptors read the same script; the output keeps which one was read.  *)
Eof == -1
Fault == -2
Waiting == SubSeq(script, taken + 1, Len(script))

ReadCells(word, data, len) ==
  \/ /\ Waiting # <<>> /\ Waiting[1] >= 0
     /\ \E n \in 1 .. Min({len, Len(Waiting)}) :
          /\ \A k \in 1 .. n : Waiting[k] >= 0
          /\ taken' = taken + n
          /\ sp' = sp + 2
          /\ mem' = [a \in Ram |->
                       IF a = sp + 2 THEN n
                       ELSE IF a \in data .. data + n - 1 THEN Waiting[a - data + 1]
                       ELSE IF a = sp - 1 THEN word ELSE mem[a]]
  \/ /\ IF Waiting = <<>> THEN UNCHANGED taken
                          ELSE Waiting[1] < 0 /\ taken' = taken + 1
     /\ Replace(word, 3, IF Waiting = <<>> \/ Waiting[1] = Eof THEN <<0>> ELSE <<-1>>)

ReadSome(word, fd, data, len) ==
  /\ Says("read", fd)
  /\ ReadCells(word, data, len)
=============================================================================
