--------------------------------- MODULE C4 ---------------------------------
(***************************************************************************)
(* The inner interpreter of C4: all inner loops share one eip, a call      *)
(* leaves its return address on the data stack, and every word returns a   *)
(* State that says whether the loop that called it goes on.                *)
(*                                                                         *)
(* One action is one turn of the loop of _next: it fetches a word, pushes  *)
(* it, calls its function and takes what it returns.                       *)
(***************************************************************************)
EXTENDS CForth

VARIABLES
  r,              (* the State the last function returned                   *)
  called          (* the word that exec calls, or NULL                      *)

machineVars == <<forthVars, r, called>>

Looping == ~Done /\ r = "GO" /\ eip # NULL
Word == IF called = NULL THEN Read(eip) ELSE called
Rest == IF called = NULL THEN eip + 1 ELSE eip
Calls(words) == Looping /\ FunctionOf(Word) \in words

Silent == UNCHANGED <<script, taken, out>>
GoTo(list) == eip' = list /\ called' = NULL /\ r' = "GO"
Go == GoTo(Rest) /\ Silent /\ UNCHANGED frames

-----------------------------------------------------------------------------
Binary(words, F(_, _, _)) ==
  /\ Calls(words)
  /\ Replace(Word, 2, F(FunctionOf(Word), Arg(2), Arg(1)))
  /\ Go

Subtract == Binary(Differences, Difference)
Compute == Binary(Arithmetic, Computed)
Compare == Binary(Comparisons, Compared)
Copy == Binary(Copies, Copied)

Turn ==
  /\ Calls(Turns)
  /\ Replace(Word, 3, Turned(FunctionOf(Word), Arg(3), Arg(2), Arg(1)))
  /\ Go

Drop == Calls({"drop"}) /\ Replace(Word, 1, <<>>) /\ Go

DoConst == Calls({"doconst"}) /\ Replace(Word, 0, <<DataOf(Word)>>) /\ Go
DoVar == Calls({"dovar"}) /\ Replace(Word, 0, <<Word + 2>>) /\ Go
DoIvar == Calls({"doivar"}) /\ Replace(Word, 0, <<DataOf(Word)>>) /\ Go

Literal ==
  /\ Calls({"literal"})
  /\ Replace(Word, 0, <<Read(Rest)>>)
  /\ GoTo(Rest + 1)
  /\ Silent /\ UNCHANGED frames

Here == Calls({"here"}) /\ Replace(Word, 0, <<sp>>) /\ Go
Rhere == Calls({"rhere"}) /\ Replace(Word, 0, <<CStack>>) /\ Go

(* Unlike in C5 this is the address of the eip, a local variable of main.  *)
Eip == Calls({"eip"}) /\ Replace(Word, 0, <<CStackTop>>) /\ Go

Move ==
  /\ Calls({"move"})
  /\ sp' = Arg(1)
  /\ mem' = [mem EXCEPT ![sp - 1] = Word]
  /\ Go

Peek == Calls({"peek", "peek_byte"}) /\ Replace(Word, 1, <<Read(Arg(1))>>) /\ Go
Poke == Calls({"poke", "poke_byte"}) /\ Store(Word, Arg(1), Arg(2), 2) /\ Go

SetDict == Calls({"set_dict"}) /\ Store(Word, LastWord, Arg(1), 1) /\ Go
Dict == Calls({"dict"}) /\ Replace(Word, 0, <<mem[LastWord]>>) /\ Go

RamUsed == Calls({"ram_used"}) /\ MeasureStack /\ Go
FreeRam == Calls({"free_ram"}) /\ Replace(Word, 0, <<-1>>) /\ Go

-----------------------------------------------------------------------------
Jump(test) ==
  /\ Replace(Word, 2, <<>>)
  /\ GoTo(IF test THEN Rest + Arg(1) ELSE Rest)
  /\ Silent /\ UNCHANGED frames

IfJump == Calls({"ifjump"}) /\ Jump(Arg(2) # 0)
UnlessJump == Calls({"unlessjump"}) /\ Jump(Arg(2) = 0)

JumpRel ==
  /\ Calls({"jumprel"})
  /\ Replace(Word, 1, <<>>)
  /\ GoTo(Rest + Arg(1))
  /\ Silent /\ UNCHANGED frames

-----------------------------------------------------------------------------
Write(words, kind, value) ==
  /\ Calls(words)
  /\ Says(kind, value)
  /\ Replace(Word, 1, <<>>)
  /\ GoTo(Rest)
  /\ UNCHANGED <<frames, script, taken>>

WriteInt == Write({"write_int"}, "number", Arg(1))
WriteUint == Write({"write_uint", "write_hex_int"}, "number", Unsigned(Arg(1)))
WriteString == Write({"cputs", "write_string"}, "string", Arg(1))
Flush == Calls({"flush"}) /\ Replace(Word, 1, <<>>) /\ Go

Cread ==
  /\ Calls({"cread"})
  /\ ReadSome(Word, Arg(1), Arg(2), Arg(3))
  /\ GoTo(Rest)
  /\ UNCHANGED <<frames, script>>

Cwrite ==
  /\ Calls({"cwrite"})
  /\ out' = Append(out, <<"bytes", [k \in 1 .. Arg(3) |-> Read(Arg(2) + k - 1)]>>)
  /\ Replace(Word, 3, <<Arg(3)>>)
  /\ GoTo(Rest)
  /\ UNCHANGED <<frames, script, taken>>

Cexit ==
  /\ Calls({"cexit"})
  /\ frames' = <<>>
  /\ Silent
  /\ UNCHANGED <<mem, sp, eip, r, called>>

-----------------------------------------------------------------------------
Exec ==
  /\ Calls({"exec"})
  /\ called' = Arg(1)
  /\ Replace(Word, 1, <<>>)
  /\ eip' = Rest
  /\ Silent /\ UNCHANGED <<frames, r>>

(* Words that run an inner loop.                                           *)
Runs(kind, list, val, room) == GoTo(list) /\ Nest(kind, NULL, val, room) /\ Silent

(* The word on the stack gives way to the return address, of which the     *)
(* frame keeps a copy that nothing reads.                                  *)
DoCol ==
  /\ Calls({"docol"})
  /\ Replace(Word, 0, <<Rest>>)
  /\ Runs("docol", DataOf(Word), Rest, 0)

(* The rest of the word is run by an inner loop of over.                   *)
Over ==
  /\ Calls({"over"})
  /\ Replace(Word, 0, <<Arg(2)>>)
  /\ Runs("over", Rest, 0, 0)

Rpush ==
  /\ Calls({"rpush"})
  /\ Replace(Word, 1, <<>>)
  /\ Runs("rpush", Rest, Arg(1), 0)

Rallot ==
  /\ Calls({"rallot"})
  /\ Replace(Word, 1, <<CStack - Arg(1)>>)
  /\ Runs("rallot", Rest, 0, Arg(1))

(* fexit returns to the caller and runs what is left of it.                *)
Exit ==
  /\ Calls({"fexit"})
  /\ Replace(Word, 1, <<>>)
  /\ Runs("fexit", Arg(1), 0, 0)

NextWord == Calls({"next"}) /\ Replace(Word, 0, <<>>) /\ Runs("next", Rest, 0, 0)

(* Words that end the inner loop, and what they tell who ran it.           *)
Ends(state, list) ==
  eip' = list /\ called' = NULL /\ r' = state /\ Silent /\ UNCHANGED frames

Return == Calls({"return0"}) /\ Replace(Word, 1, <<>>) /\ Ends("DROP_FRAME", Arg(1))
Rpop == Calls({"rpop"}) /\ Replace(Word, 0, <<>>) /\ Ends("POP", Rest)
Abort == Calls({"abort_next"}) /\ Replace(Word, 0, <<>>) /\ Ends("STOP", Rest)

-----------------------------------------------------------------------------
Ending(kinds) ==
  /\ ~Done /\ ~Looping /\ Innermost.kind \in kinds
  /\ frames' = Outer
  /\ Silent /\ UNCHANGED <<eip, called>>

(* Mutant: the caller is told to drop a frame too.                         *)
ColonBackDrops ==
  /\ Ending({"docol"})
  /\ UNCHANGED <<r, mem, sp>>

ColonBack ==
  /\ Ending({"docol"})
  /\ r' = IF r = "DROP_FRAME" THEN "GO" ELSE r
  /\ UNCHANGED <<mem, sp>>

(* Whatever ended the loop of rpush, a STOP too, the word goes on.         *)
RpushBack ==
  /\ Ending({"rpush"})
  /\ r' = "GO"
  /\ IF r = "POP" THEN /\ sp' = sp - 1
                       /\ mem' = [mem EXCEPT ![sp - 1] = Innermost.val]
                  ELSE UNCHANGED <<mem, sp>>

RallotBack ==
  /\ Ending({"rallot"})
  /\ r' = IF r = "STOP" THEN r ELSE "GO"
  /\ UNCHANGED <<mem, sp>>

(* over, fexit and next return what their loop did, and main returns.      *)
Unwound == Ending({"over", "fexit", "next", "main"}) /\ UNCHANGED <<mem, sp, r>>

-----------------------------------------------------------------------------
Stacking ==
  \/ Subtract \/ Compute \/ Compare \/ Copy \/ Turn \/ Drop
  \/ DoConst \/ DoVar \/ DoIvar \/ Literal \/ Here \/ Rhere \/ Eip \/ Move
  \/ Peek \/ Poke \/ SetDict \/ Dict \/ RamUsed \/ FreeRam
Jumping == IfJump \/ UnlessJump \/ JumpRel
Talking == WriteInt \/ WriteUint \/ WriteString \/ Flush \/ Cread \/ Cwrite \/ Cexit
Nesting == Exec \/ DoCol \/ Over \/ Rpush \/ Rallot \/ Exit \/ NextWord
Leaving == Return \/ Rpop \/ Abort \/ ColonBack \/ RpushBack \/ RallotBack \/ Unwound

MachineNext == Stacking \/ Jumping \/ Talking \/ Nesting \/ Leaving

Boot(list) ==
  /\ r = "GO" /\ called = NULL /\ eip = list
  /\ frames = <<Frame("main", NULL, 0, CStackTop)>>
=============================================================================
