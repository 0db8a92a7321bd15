---------------------------- MODULE C4Contracts ----------------------------
(***************************************************************************)
(* What the words of C4 and C5 owe their callers, as jobs: each runs a     *)
(* short list on given cells and says what the stack, the buffer and the   *)
(* output are afterwards.  The results are stated without the words: a     *)
(* reversed sequence, the latest word of a name, a quotient.              *)
(***************************************************************************)
EXTENDS CForthRun

Both == {"C4", "C5"}

(* A job that takes cells from the stack and leaves cells there.           *)
Task(machines, list, args, stack) ==
  [kind |-> "word", machines |-> machines, list |-> Append(list, W.abort_next), callee |-> <<>>,
   args |-> args, buffer |-> <<>>, input |-> <<>>,
   stack |-> stack, after |-> <<>>, says |-> <<>>]
Does(list, args, stack) == Task(Both, list, args, stack)
(* ... that works on the buffer, writes, or reads.                         *)
On(before, task, after) == [task EXCEPT !.buffer = before, !.after = after]
Saying(task, says) == [task EXCEPT !.says = says]
Given(input, task) == [task EXCEPT !.input = input]
Calling(callee, task) == [task EXCEPT !.callee = callee]

Number(n) == <<"number", n>>
Reads(n, fd) == [k \in 1 .. n |-> <<"read", fd>>]
String(a) == <<"string", a>>
Up(n) == [k \in 1 .. n |-> k - 1]

-----------------------------------------------------------------------------
(* Cells.                                                                  *)
Extremes == {-HalfRange, -7, -1, 1, 2, HalfRange - 1}

(* Adding is undone by subtracting, past the ends of the range too.        *)
Undone(add, sub) ==
  {Does(<<W.fdup, W.rpush, W[add], W.rpop, W[sub]>>, <<b, a>>, <<b>>) :
     a \in Extremes, b \in Extremes}

(* b = a * (b / a) + b mod a, with the sign of b in the remainder.         *)
Division ==
  {Does(<<W.over, W.over, W.int_mod, W.rpush, W.swap, W.over, W.int_div, W.int_mul,
          W.rpop, W.int_add>>, <<b, a>>, <<b>>) :
     a \in Extremes \ {-1}, b \in Extremes}
  \cup {Does(<<W.int_mod>>, <<b, a>>,
             <<CHOOSE m \in -6 .. 6 :
                 /\ m < Magnitude(a) /\ -m < Magnitude(a)
                 /\ (b - m) % Magnitude(a) = 0
                 /\ (b < 0 => m <= 0) /\ (b > 0 => m >= 0)>>) :
          a \in {-7, -2, 2, 7}, b \in Extremes}

(* The inputs of a shift come back when no bit is lost.                    *)
Shifting ==
  {Task({"C5"}, <<W.fdup, W.rpush, W.bsl, W.rpop, W.bsr>>, <<b, a>>, <<b>>) :
     a \in 0 .. 3, b \in {0, 1, 6}}

Ordering ==
  {Does(<<W.over, W.over, W.int_lt, W.rpush, W.over, W.over, W.equals, W.rpush,
          W.int_lte, W.rpop, W.rpop, W.int_add, W.equals>>, <<b, a>>, <<1>>) :
     a \in Extremes, b \in Extremes}

(* roll and shift turn three cells in opposite directions.                 *)
Turning ==
  {Does(<<W[t], W[u]>>, <<1, 2, 3>>, <<1, 2, 3>>) :
     <<t, u>> \in {<<"roll", "shift">>, <<"shift", "roll">>, <<"rot", "rot">>}}
  \cup {Does(<<W.roll, W.roll>>, <<1, 2, 3>>, <<2, 3, 1>>)}

Picking == {Does(<<W.literal, n, W.pick>>, <<7, 8, 9>>, <<7, 8, 9, 9 - n>>) : n \in 0 .. 2}

Counting == {Does(<<W.nseq>>, <<n>>, Up(n)) : n \in 1 .. 4}

Characters ==
  {Does(<<W[test]>>, <<c>>, <<Flag(c = IF test = "is_space" THEN 32 ELSE 10)>>) :
     test \in {"is_space", "is_newline"}, c \in {0, 10, 31, 32, 33}}

-----------------------------------------------------------------------------
(* The buffer.                                                             *)
Reversing ==
  {On(s, Does(<<W.reverse>>, <<BufferAt, Len(s)>>, <<>>), Reverse(s)) :
     s \in {SubSeq(<<5, 6, 7, 8, 9>>, 1, n) : n \in 1 .. 5}}

Exchanging ==
  {On(<<5, 6, 7>>, Does(<<W.swap_places>>, <<BufferAt + i, BufferAt + j>>, <<>>),
      [k \in 1 .. 3 |-> <<5, 6, 7>>[IF k = i + 1 THEN j + 1 ELSE IF k = j + 1 THEN i + 1 ELSE k]]) :
     i \in 0 .. 2, j \in 0 .. 2}

Terminating ==
  {On(<<5, 6, 7>>, Does(<<W.null_terminate>>, <<BufferAt, n>>, <<>>),
      [k \in 1 .. 3 |-> IF k = n + 1 THEN 0 ELSE <<5, 6, 7>>[k]]) : n \in 0 .. 2}

(* Two strings beside each other: the first n characters and the one after *)
(* them are the same.                                                      *)
Comparing ==
  {On(s \o t, Does(<<W.byte_string_equals3>>, <<BufferAt, BufferAt + 3, n>>,
                   <<Flag(SubSeq(s, 1, n + 1) = SubSeq(t, 1, n + 1))>>), s \o t) :
     s \in [1 .. 3 -> {65, 66}], t \in {<<65, 66, 65>>, <<66, 66, 65>>}, n \in 0 .. 2}

(* lookup finds the latest word of a name, and none by a part of it.       *)
Finding ==
  {On(Append(s, 0),
      Does(<<W.dict, W.lookup>>, <<BufferAt, Len(s)>>,
           IF Named(s) = {} THEN <<0, 0>> ELSE <<W[Vocabulary[Min(Named(s))]], 1>>),
      Append(s, 0)) :
     s \in UNION {[1 .. n -> {65, 66}] : n \in 0 .. 3}}

Entries ==
  {Does(<<W[field], W.peek>>, <<W.one>>, <<ImageRom[W.one + offset]>>) :
     <<field, offset>> \in {<<"dict_entry_name", 0>>, <<"dict_entry_code", 1>>,
                            <<"dict_entry_data", 2>>, <<"dict_entry_next", 3>>}}

-----------------------------------------------------------------------------
(* Output.                                                                 *)
Dumping ==
  {Saying(On(<<5, 6, 7>>, Does(<<W.memdump>>, <<BufferAt, n>>, <<>>), <<5, 6, 7>>),
          [k \in 1 .. n + 1 |-> IF k > n THEN String(W.empty_string) ELSE Number(4 + k)]) :
     n \in 0 .. 3}

Printing ==
  {Saying(Does(<<W.dot>>, <<-5>>, <<-5>>), <<Number(-5), String(W.empty_string)>>),
   Saying(Does(<<W.write_uint>>, <<-1>>, <<>>), <<Number(2 * HalfRange - 1)>>),
   Saying(On(<<5, 6, 7>>, Does(<<W.cwrite>>, <<3, BufferAt, 1>>, <<3>>), <<5, 6, 7>>),
          <<<<"bytes", <<5, 6, 7>>>>>>)}

(* words prints five lines for each word of the dictionary, latest first.  *)
Listing ==
  LET entry(k) ==
        LET x == W[Vocabulary[k]]
        IN  <<Number(Unsigned(x - W.doconst)), Number(x)>>
              \o [f \in 1 .. 3 |-> Number(Unsigned(ImageRom[x + f - 1]))]
              \o <<String(ImageRom[x])>>
  IN  {Saying(Does(<<W.words>>, <<>>, <<>>),
              <<String(W.words1_s1)>>
                \o FlattenSeq([k \in DOMAIN Vocabulary |-> entry(k)]))}

(* test-reverse dumps the stack, the top first, after each reversal: below *)
(* the frame of the dump the cells that were turned, and its own frame.    *)
Testing ==
  LET turned == <<Up(4), <<1>>, <<1, 2>>, Up(3), Up(5), Up(6)>>
      cells(k) == FlattenSeq(Reverse(SubSeq(turned, 1, k)))
      dump(s) ==
        LET n == Len(s) + 2
            h == StackBase - n
        IN  <<String(W.dump_stack_s1), Number(h), Number(StackBase), Number(n),
              String(W.empty_string), Number(n), Number(h + 1)>>
              \o [k \in DOMAIN s |-> Number(s[k])]
              \o <<Number(StackBase), String(W.empty_string)>>
  IN  {Saying(Task({"C5"}, <<W.here, W.stack_top, W.poke, W.test_reverse>>, <<>>, <<>>),
              FlattenSeq([k \in DOMAIN turned |-> dump(cells(k))]))}

-----------------------------------------------------------------------------
(* Input from a descriptor: a character, the end or an error, and a line,  *)
(* each character of it by a read of its own.                              *)
Reading ==
  {Saying(Given(<<c>>, Does(<<W.literal, fd, W.current_input, W.poke, W.read_byte>>, <<>>, <<c>>)),
          Reads(1, fd)) :
     c \in {Eof, Fault, 7}, fd \in {0, 5}}

Lines == {<<7, 10, 8>>, <<7, 8, 10>>, <<10>>, <<7, Eof, 8>>, <<7, 8, 7>>}
LineOf(s, room) ==
  CHOOSE n \in 0 .. room :
    /\ \A k \in 1 .. n : s[k] >= 0 /\ (k < n => s[k] # 10)
    /\ n = room \/ n = Len(s) \/ s[n + 1] < 0 \/ (n > 0 /\ s[n] = 10)
ReadsOf(s, room) ==
  LET n == LineOf(s, room)
  IN  IF n = room \/ (n > 0 /\ s[n] = 10) THEN n ELSE n + 1
ReadingLines ==
  {Saying(Given(s, On(<<0, 0, 0>>, Does(<<W.literal, 0, W.read_line3>>, <<BufferAt, room>>,
                                        <<BufferAt, LineOf(s, room)>>),
                      [k \in 1 .. 3 |-> IF k <= LineOf(s, room) THEN s[k] ELSE 0])),
          Reads(ReadsOf(s, room), 0)) :
     s \in Lines, room \in 0 .. 3}

-----------------------------------------------------------------------------
(* The inner interpreter: lists that run, leave and end other lists.       *)
Leaving ==
  {Calling(<<W.literal, 3, W.swap, W.return0>>,
           Does(<<W.literal, 1, W.literal, W.callee, W.exec, W.int_add>>, <<>>, <<4>>)),
   Calling(<<W.fexit>>, Task({"C4"}, <<W.literal, 1, W.callee, W.literal, 2>>, <<>>, <<1, 2>>)),
   Calling(<<W.drop, W.fexit>>,
           Task({"C5"}, <<W.literal, 1, W.callee, W.literal, 2>>, <<>>, <<1, 2>>)),
   Calling(<<W.return0>>,
           Task({"C5"}, <<W.literal, ProgramAt, W.enter, W.literal, 2>>, <<>>, <<2>>)),
   Does(<<W.literal, 1, W.next, W.literal, 2>>, <<>>, <<1, 2>>),
   Does(<<W.literal, 1, W.cexit, W.literal, 2>>, <<>>, <<1>>),
   Does(<<W.literal, 0, W.jumprel, W.literal, 2, W.jumprel, W.literal, 9, W.free_ram>>, <<>>, <<-1>>)}

(* A word that ends with cells still put aside.                            *)
Abandoning ==
  {Calling(<<W.literal, 8, W.rpush, W.return0>>,
           Task({"C5"}, <<W.literal, 1, W.rpush, W.callee, W.rpop>>, <<>>, <<1>>)),
   Calling(<<W.literal, 2, W.rallot, W.drop, W.return0>>,
           Task({"C5"}, <<W.literal, 1, W.rpush, W.callee, W.rpop>>, <<>>, <<1>>))}

(* Cells taken from the C stack hold what is put there while lists run.    *)
Allotting ==
  {Calling(<<W.literal, 5, W.rpush, W.rpop, W.drop, W.return0>>,
           Does(<<W.literal, 2, W.rallot, W.literal, 7, W.over, W.poke, W.callee,
                  W.peek, W.rpop>>, <<>>, <<7>>)),
   Does(<<W.rhere, W.literal, 1, W.rpush, W.rhere, W.rpop, W.drop, W.int_sub>>, <<>>, <<1>>)}

(* The C stack is measured from where it was measured first.               *)
Measuring ==
  {Does(<<W.literal, 1, W.rpush, W.ram_used, W.literal, 2, W.rpush, W.ram_used, W.rpop, W.rpop,
          W.ram_used>>, <<>>, <<0, 1, 2, 1, -1>>)}

Places ==
  {Does(<<W.dict, W.literal, W.two, W.set_dict, W.dict, W.swap, W.set_dict, W.dict, W.int_sub>>,
        <<>>, <<W.two - W[Vocabulary[1]]>>),
   Does(<<W.a_dovar, W.literal, 6, W.current_input, W.poke, W.current_input, W.peek>>,
        <<>>, <<W.a_dovar + 2, 6>>),
   Does(<<W.here, W.stack_top, W.poke, W.literal, 1, W.mem_used>>, <<>>, <<1, 3>>),
   Does(<<W.here, W.rpush, W.literal, 2, W.stack_allot,
          W.literal, 7, W.over, W.poke, W.literal, 8, W.over, W.literal, 1, W.int_add, W.poke,
          W.literal, 1, W.nseq, W.drop, W.fdup, W.peek, W.swap, W.literal, 1, W.int_add, W.peek,
          W.int_add, W.current_input, W.poke, W.rpop, W.move, W.current_input, W.peek>>,
        <<>>, <<15>>)}

-----------------------------------------------------------------------------
WordJobs ==
  UNION {Undone("int_add", "int_sub"), Undone("int_sub", "int_add"),
         Undone("ptr_add", "ptr_sub"), Undone("ptr_add", "uint_sub"), Division, Shifting,
         Ordering, Turning, Picking, Counting, Characters, Reversing, Exchanging, Terminating,
         Comparing, Finding, Entries, Dumping, Printing, Listing, Testing, Reading,
         ReadingLines, Leaving, Abandoning, Allotting, Measuring,
         Places}

(* A job that has come to its end has left the cells its words owe, and    *)
(* nothing else: on the stack, in the buffer and on the output.            *)
Contracts ==
  Done /\ job.kind = "word" => /\ Stack = job.stack
          /\ Buffer(Len(job.after)) = job.after
          /\ out = job.says
=============================================================================
