------------------------------ MODULE C4Image ------------------------------
(***************************************************************************)
(* The memory C4 and C5 start with.  Read-only: the headers of all words,  *)
(* the string constants, the names, and the lists of the colon words.      *)
(* Above it in RAM: the variables, the lists and the buffer that a run     *)
(* brings along, the data stack and the C stack.                           *)
(***************************************************************************)
EXTENDS C4Interp

CONSTANTS
  Vocabulary,     (* the words last_word leads to, the last word first      *)
  Spelled,        (* the characters of a word's name                        *)
  ListCells,      (* cells for the lists of the program of a run            *)
  BufferCells,    (* cells for its data                                     *)
  StackCells,     (* cells of the data stack                                *)
  CStackCells,    (* cells of the C stack                                   *)
  RamBase         (* where RAM starts, after the read-only memory           *)

(* The lists, in the order of their words.                                 *)
Lists == <<
  words1, words, pick, nl, dot, memdump, dump_stack, prompt, read_byte,
  is_space, is_newline, read_line3, null_terminate, refill_input_buffer,
  input_buffer_read_byte, eat_spaces, read_token3, read_token,
  dict_entry_name, dict_entry_code, dict_entry_data, dict_entry_next,
  byte_string_equals4, byte_string_equals3, lookup, quote, swap_places,
  reverse3, reverse, nseq, interp_loop, rbracket, compile, lbracket,
  stack_allot, interp, load, mem_used, mem_info, boot, test_reverse>>

Values == <<1, 0, 1, 2, 0, 1, -1, 2, 3, 4, 16>>
-----------------------------------------------------------------------------
NameAt[k \in 1 .. Len(Vocabulary) + 1] ==
  IF k = 1 THEN StringBase + Len(Strings)
  ELSE NameAt[k - 1] + Len(Spelled[Vocabulary[k - 1]]) + 1

ListAt[k \in 1 .. Len(Lists) + 1] ==
  IF k = 1 THEN NameAt[Len(Vocabulary) + 1] ELSE ListAt[k - 1] + Len(Lists[k - 1])

VariableAt == [id \in ToSet(Variables) |-> RamBase + Position(Variables, id) - 1]
LastWordAt == RamBase + Len(Variables)
InitBrkAt == LastWordAt + 1
ProgramAt == InitBrkAt + 1
BufferAt == ProgramAt + ListCells
StackBase == BufferAt + BufferCells + StackCells - 1
CStackBase == StackBase + CStackCells
-----------------------------------------------------------------------------
(* The words of a name.                                                    *)
Named(s) == {k \in DOMAIN Vocabulary : Spelled[Vocabulary[k]] = s}

(* DEFWORD2: name, code, data and next of a word.                          *)
Header(id, code, data) ==
  LET place == {k \in DOMAIN Vocabulary : Vocabulary[k] = id}
      k == CHOOSE n \in place : TRUE
  IN  <<IF place = {} THEN 0 ELSE NameAt[k],
        Position(Routines, code),
        data,
        IF place = {} \/ k = Len(Vocabulary) THEN 0 ELSE W[Vocabulary[k + 1]]>>

HeaderOf(id) ==
  CASE id \in ToSet(Primitives) -> Header(id, "doop", Position(Routines, id))
    [] id \in ToSet(Codes) -> Header(id, "doconst", Position(Routines, id))
    [] id \in ToSet(Constants) -> Header(id, "doconst", Values[Position(Constants, id)])
    [] id \in ToSet(Variables) -> Header(id, "doivar", VariableAt[id])
    [] id \in ToSet(Colons) -> Header(id, "docol", ListAt[Position(Colons, id)])
    [] id = "callee" -> Header(id, "docol", ProgramAt)
    [] id = "a_dovar" -> Header(id, "dovar", 0)

ImageRom ==
  [n \in 1 .. 4 * Len(Words) |-> HeaderOf(Words[((n - 1) \div 4) + 1])[((n - 1) % 4) + 1]]
    \o [k \in DOMAIN Strings |-> 0]
    \o FlattenSeq([k \in DOMAIN Vocabulary |-> Append(Spelled[Vocabulary[k]], 0)])
    \o FlattenSeq(Lists)

ASSUME RamBaseAssumption == RamBase > Len(ImageRom)

ImageRam == RamBase .. CStackBase

(* The initial values of the variables that do not start at zero.          *)
InitialValue(a) ==
  CASE a = VariableAt["current_output"] -> 1
    [] a = VariableAt["current_error"] -> 2
    [] a = VariableAt["istate"] -> W.exec
    [] a = LastWordAt -> IF Vocabulary = <<>> THEN 0 ELSE W[Vocabulary[1]]
    [] OTHER -> 0
=============================================================================
