--------------------------------- MODULE C5 ---------------------------------
(***************************************************************************)
(* The inner interpreter of C5: every word is a C function that returns    *)
(* the next word to execute, or NULL to end the inner loop that called it. *)
(* A call of a colon word, rpush and rallot run an inner loop of their own *)
(* on the C stack.                                                         *)
(*                                                                         *)
(* One action is one turn of the loop of _next: it pushes the word w,      *)
(* calls its function and takes what it returns.                           *)
(***************************************************************************)
EXTENDS CForth

VARIABLE w        (* what the last function returned: a word, or NULL      *)

machineVars == <<forthVars, w>>

(* next_op: fetch a word of a list and step over it.                       *)
NextOp(list) == w' = Read(list) /\ eip' = list + 1

(* The loop of _next goes on while there is a word and a list.             *)
Looping == ~Done /\ w # NULL /\ eip # NULL
Calls(words) == Looping /\ FunctionOf(w) \in words

Silent == UNCHANGED <<script, taken, out>>
Go == NextOp(eip) /\ Silent /\ UNCHANGED frames

-----------------------------------------------------------------------------
(* Words that work on the data stack alone.                                *)
Binary(words, F(_, _, _)) ==
  /\ Calls(words)
  /\ Replace(w, 2, F(FunctionOf(w), Arg(2), Arg(1)))
  /\ Go

Subtract == Binary(Differences, Difference)
Compute == Binary(Arithmetic, Computed)
Shift == Binary(Shifts, Shifted)
Compare == Binary(Comparisons, Compared)
Copy == Binary(Copies, Copied)
Over == Binary({"over"}, Overed)

(* Mutant: the word is returned in place of the next one.                  *)
TurnReturnsItself ==
  /\ Calls(Turns)
  /\ Replace(w, 3, Turned(FunctionOf(w), Arg(3), Arg(2), Arg(1)))
  /\ w' = w
  /\ Silent /\ UNCHANGED <<eip, frames>>

Turn ==
  /\ Calls(Turns)
  /\ Replace(w, 3, Turned(FunctionOf(w), Arg(3), Arg(2), Arg(1)))
  /\ Go

Drop == Calls({"drop"}) /\ Replace(w, 1, <<>>) /\ Go

(* _doconst and _dovar find the word itself on the stack.                  *)
DoConst == Calls({"doconst"}) /\ Replace(w, 0, <<DataOf(w)>>) /\ Go
DoVar == Calls({"dovar"}) /\ Replace(w, 0, <<w + 2>>) /\ Go
DoIvar == Calls({"doivar"}) /\ Replace(w, 0, <<DataOf(w)>>) /\ Go

Literal ==
  /\ Calls({"literal"})
  /\ Replace(w, 0, <<Read(eip)>>)
  /\ NextOp(eip + 1)
  /\ Silent /\ UNCHANGED frames

Here == Calls({"here"}) /\ Replace(w, 0, <<sp>>) /\ Go

(* The address of a local variable, below every inner loop.                *)
Rhere == Calls({"rhere"}) /\ Replace(w, 0, <<CStack>>) /\ Go

Eip == Calls({"eip"}) /\ Replace(w, 0, <<eip>>) /\ Go

Move ==
  /\ Calls({"move"})
  /\ sp' = Arg(1)
  /\ mem' = [mem EXCEPT ![sp - 1] = w]
  /\ Go

(* Cells and characters take one cell each.                                *)
Peek == Calls({"peek", "peek_byte"}) /\ Replace(w, 1, <<Read(Arg(1))>>) /\ Go
Poke == Calls({"poke", "poke_byte"}) /\ Store(w, Arg(1), Arg(2), 2) /\ Go

SetDict == Calls({"set_dict"}) /\ Store(w, LastWord, Arg(1), 1) /\ Go
Dict == Calls({"dict"}) /\ Replace(w, 0, <<mem[LastWord]>>) /\ Go

RamUsed == Calls({"ram_used"}) /\ MeasureStack /\ Go
FreeRam == Calls({"free_ram"}) /\ Replace(w, 0, <<-1>>) /\ Go

-----------------------------------------------------------------------------
(* Words that move the list.                                               *)
Jump(test) ==
  /\ Replace(w, 2, <<>>)
  /\ NextOp(IF test THEN eip + Arg(1) ELSE eip)
  /\ Silent /\ UNCHANGED frames

IfJump == Calls({"ifjump"}) /\ Jump(Arg(2) # 0)
UnlessJump == Calls({"unlessjump"}) /\ Jump(Arg(2) = 0)

JumpRel ==
  /\ Calls({"jumprel"})
  /\ Replace(w, 1, <<>>)
  /\ NextOp(eip + Arg(1))
  /\ Silent /\ UNCHANGED frames

-----------------------------------------------------------------------------
(* Input and output.                                                       *)
Write(words, kind, value) ==
  /\ Calls(words)
  /\ Says(kind, value)
  /\ Replace(w, 1, <<>>)
  /\ NextOp(eip)
  /\ UNCHANGED <<frames, script, taken>>

WriteInt == Write({"write_int"}, "number", Arg(1))
WriteUint == Write({"write_uint", "write_hex_int"}, "number", Unsigned(Arg(1)))
WriteString == Write({"cputs", "write_string"}, "string", Arg(1))

Flush == Calls({"flush"}) /\ Replace(w, 1, <<>>) /\ Go

Cread ==
  /\ Calls({"cread"})
  /\ ReadSome(w, Arg(1), Arg(2), Arg(3))
  /\ NextOp(eip)
  /\ UNCHANGED <<frames, script>>

Cwrite ==
  /\ Calls({"cwrite"})
  /\ out' = Append(out, <<"bytes", [k \in 1 .. Arg(3) |-> Read(Arg(2) + k - 1)]>>)
  /\ Replace(w, 3, <<Arg(3)>>)
  /\ NextOp(eip)
  /\ UNCHANGED <<frames, script, taken>>

Cexit ==
  /\ Calls({"cexit"})
  /\ frames' = <<>>
  /\ Silent
  /\ UNCHANGED <<mem, sp, eip, w>>

-----------------------------------------------------------------------------
(* Words that run or end an inner loop.                                    *)

(* exec calls the function of the word on the stack without a turn of the  *)
(* loop: as if it were popped and returned.                                *)
Exec ==
  /\ Calls({"exec"})
  /\ w' = Arg(1)
  /\ Replace(w, 1, <<>>)
  /\ Silent /\ UNCHANGED <<eip, frames>>

(* enter takes a list from the stack and leaves the frame pointer there;   *)
(* the loop it runs has an eip of its own.                                 *)
Enter(n, list) ==
  /\ Replace(w, n, <<sp + n>>)
  /\ NextOp(list)
  /\ Nest("enter", eip, 0, 0)
  /\ Silent

EnterList == Calls({"enter"}) /\ Enter(1, Arg(1))
DoCol == Calls({"docol"}) /\ Enter(0, DataOf(w))

(* The loops of rpush, rallot and next share the eip of their caller.      *)
Share(kind, val, room) == NextOp(eip) /\ Nest(kind, NULL, val, room) /\ Silent

Rpush == Calls({"rpush"}) /\ Replace(w, 1, <<>>) /\ Share("rpush", Arg(1), 0)
Rallot ==
  /\ Calls({"rallot"})
  /\ Replace(w, 1, <<CStack - Arg(1)>>)
  /\ Share("rallot", 0, Arg(1))
NextWord == Calls({"next"}) /\ Replace(w, 0, <<>>) /\ Share("next", 0, 0)

(* What ends the loop: NULL for the word, for the list, or both.           *)
Ends(list) == eip' = list /\ Silent /\ UNCHANGED frames

(* Mutant: return0 takes a cell of its caller along.                       *)
ReturnPopsTwo ==
  /\ Calls({"return0"})
  /\ Replace(w, 2, <<>>)
  /\ w' = w
  /\ Ends(NULL)

(* return0 returns itself, which no caller sees: the loop finds no list.   *)
Return ==
  /\ Calls({"return0"})
  /\ Replace(w, 1, <<>>)
  /\ w' = w
  /\ Ends(NULL)
Exit == Calls({"fexit", "abort_next"}) /\ Replace(w, 0, <<>>) /\ w' = NULL /\ Ends(NULL)
Rpop == Calls({"rpop"}) /\ Replace(w, 0, <<>>) /\ w' = NULL /\ Ends(eip)

-----------------------------------------------------------------------------
(* The end of an inner loop: its frame goes, and the function that ran it  *)
(* returns to the loop that called it.                                     *)
Ending(kinds) == ~Done /\ ~Looping /\ Innermost.kind \in kinds /\ frames' = Outer

(* enter goes on with the list of its caller.                              *)
Entered == Ending({"enter"}) /\ NextOp(Innermost.eip) /\ Silent /\ UNCHANGED <<mem, sp>>

(* rpush puts its cell back, unless the word has ended in between.         *)
RpushBack ==
  /\ Ending({"rpush"}) /\ eip # NULL
  /\ sp' = sp - 1
  /\ mem' = [mem EXCEPT ![sp - 1] = Innermost.val]
  /\ NextOp(eip) /\ Silent
RallotBack ==
  Ending({"rallot"}) /\ eip # NULL /\ NextOp(eip) /\ Silent /\ UNCHANGED <<mem, sp>>

(* rpush and rallot in a word that has ended, next and main return NULL.   *)
Unwound ==
  /\ \/ Ending({"rpush", "rallot"}) /\ eip = NULL
     \/ Ending({"next", "main"})
  /\ w' = NULL
  /\ Silent /\ UNCHANGED <<mem, sp, eip>>

-----------------------------------------------------------------------------
Stacking ==
  \/ Subtract \/ Compute \/ Shift \/ Compare \/ Copy \/ Over \/ Turn \/ Drop
  \/ DoConst \/ DoVar \/ DoIvar \/ Literal \/ Here \/ Rhere \/ Eip \/ Move
  \/ Peek \/ Poke \/ SetDict \/ Dict \/ RamUsed \/ FreeRam
Jumping == IfJump \/ UnlessJump \/ JumpRel
Talking == WriteInt \/ WriteUint \/ WriteString \/ Flush \/ Cread \/ Cwrite \/ Cexit
Nesting == Exec \/ EnterList \/ DoCol \/ Rpush \/ Rallot \/ NextWord
Leaving == Return \/ Exit \/ Rpop \/ Entered \/ RpushBack \/ RallotBack \/ Unwound

MachineNext == Stacking \/ Jumping \/ Talking \/ Nesting \/ Leaving

(* main runs the loop of a list, on a stack of which it has used a cell.   *)
Boot(list) ==
  /\ w = Read(list) /\ eip = list + 1
  /\ frames = <<Frame("main", NULL, 0, CStackTop)>>
=============================================================================
