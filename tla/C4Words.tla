------------------------------ MODULE C4Words ------------------------------
(***************************************************************************)
(* The words of C4 and C5 and where they are: read-only memory holds the   *)
(* headers of all words, four cells each, then the string constants.       *)
(***************************************************************************)
EXTENDS Integers, SequencesExt

(* DEFOP2: a word whose function works on the stack.                       *)
Primitives == <<
  "exec", "next", "cputs", "write_string", "flush", "cexit", "literal", "return0",
  "rallot", "here", "rhere", "int_sub", "uint_sub", "ptr_add", "ptr_sub", "write_int",
  "write_uint", "swap", "fdup", "enter", "eip", "abort_next", "write_hex_int",
  "int_add", "int_mul", "int_div", "int_mod", "bsl", "bsr", "int_lte", "int_lt",
  "equals", "peek", "poke", "peek_byte", "poke_byte", "ifjump", "unlessjump", "drop",
  "fexit", "over", "rpush", "rpop", "cread", "cwrite", "jumprel", "roll", "shift",
  "rot", "free_ram", "ram_used", "move", "set_dict", "dict">>

(* The functions of the code fields, each a word that pushes its address.  *)
Codes == <<"doconst", "doop", "docol", "dovar", "doivar">>

(* DEFCONST2: a word that pushes its value.                                *)
Constants == <<
  "cell_size", "standard_input", "standard_output", "standard_error", "zero", "one",
  "mone", "two", "three", "four", "sixteen">>

(* DEFVAR2: a word that pushes the address of a variable.                  *)
Variables == <<
  "current_input", "current_output", "current_error", "input_buffer",
  "input_buffer_max_size", "input_buffer_size", "input_buffer_offset",
  "stack_top", "stack_prompt", "token_buffer", "token_buffer_size", "istate">>

(* DEFCOL2: a word that runs its list.                                     *)
Colons == <<
  "words1", "words", "pick", "nl", "dot", "memdump", "dump_stack", "prompt", "read_byte",
  "is_space", "is_newline", "read_line3", "null_terminate", "refill_input_buffer",
  "input_buffer_read_byte", "eat_spaces", "read_token3", "read_token",
  "dict_entry_name", "dict_entry_code", "dict_entry_data", "dict_entry_next",
  "byte_string_equals4", "byte_string_equals3", "lookup", "quote", "swap_places",
  "reverse3", "reverse", "nseq", "interp_loop", "rbracket", "compile", "lbracket",
  "stack_allot", "interp", "load", "mem_used", "mem_info", "boot", "test_reverse">>

(* A word a run defines, and a use of dovar, which has none in the sources *)
Extras == <<"callee", "a_dovar">>

Strings == <<
  "words1_s1", "empty_string", "dump_stack_s1", "prompt_str", "not_found", "bye_str",
  "mem_info_stack_str", "mem_info_rstack_str", "crnl_str", "hello">>

Routines == Primitives \o Codes
Words == Routines \o Constants \o Variables \o Colons \o Extras
-----------------------------------------------------------------------------
Position(s, x) == CHOOSE i \in DOMAIN s : s[i] = x
StringBase == 4 * Len(Words) + 1

(* The address of every word and string.                                   *)
W == [id \in ToSet(Words \o Strings) |->
        IF id \in ToSet(Words) THEN 4 * Position(Words, id) - 3
        ELSE StringBase + Position(Strings, id) - 1]
=============================================================================
