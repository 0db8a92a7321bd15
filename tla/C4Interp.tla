------------------------------ MODULE C4Interp ------------------------------
(***************************************************************************)
(* The words of C4 and C5 that are lists of other words: c4-words-def.c    *)
(* and c4-interp.c, one definition per word.  W names the address of a     *)
(* word or of a string constant; a number stands for itself.  sizeof(Cell) *)
(* and the size of a character are both 1, the sizes of the two buffers    *)
(* are parameters, and what only DEBUG or AVR compiles is left out.        *)
(***************************************************************************)
EXTENDS C4Words

CONSTANTS TokenBufferSize, InputBufferSize

words1 == <<
  W.swap, W.literal, W.doconst, W.swap, W.literal, W.words1_s1, W.cputs,
  W.over, W.over, W.swap, W.int_sub, W.write_hex_int, W.fdup, W.write_hex_int,
  W.fdup, W.literal, 0, W.int_add, W.peek, W.write_hex_int,
  W.fdup, W.literal, 1, W.int_add, W.peek, W.write_hex_int,
  W.fdup, W.literal, 2, W.int_add, W.peek, W.write_hex_int,
  W.fdup, W.peek, W.cputs, W.literal, 3, W.int_add, W.peek,
  W.fdup, W.literal, -36, W.ifjump, W.drop, W.drop, W.return0>>
words == <<W.dict, W.words1, W.return0>>

pick == <<W.swap, W.literal, 2, W.int_add, W.cell_size, W.int_mul,
          W.here, W.int_add, W.peek, W.swap, W.return0>>

nl == <<W.literal, W.empty_string, W.cputs, W.return0>>
dot == <<W.over, W.write_int, W.nl, W.return0>>

memdump == <<
  W.over, W.literal, 0, W.int_lte, W.literal, 6, W.unlessjump,
  W.nl, W.swap, W.drop, W.swap, W.drop, W.return0,
  W.literal, 2, W.pick, W.peek, W.write_hex_int,
  W.roll, W.cell_size, W.int_sub, W.roll, W.cell_size, W.int_add, W.roll,
  W.literal, -28, W.jumprel>>

dump_stack == <<
  W.literal, W.dump_stack_s1, W.cputs, W.here, W.fdup, W.write_hex_int,
  W.stack_top, W.peek, W.fdup, W.write_hex_int,
  W.over, W.ptr_sub, W.fdup, W.write_uint,
  W.literal, W.empty_string, W.cputs, W.fdup, W.write_int, W.memdump, W.return0>>

prompt == <<
  W.stack_prompt, W.peek, W.fdup, W.write_hex_int,
  W.fdup, W.literal, 1, W.unlessjump, W.peek, W.write_int,
  W.literal, W.prompt_str, W.write_string, W.current_output, W.peek, W.flush, W.return0>>

read_byte == <<
  W.literal, 0, W.here, W.literal, 1, W.swap, W.current_input, W.peek, W.cread,
  W.fdup, W.literal, 0, W.int_lte, W.literal, 3, W.ifjump,
  W.drop, W.swap, W.return0,
  W.swap, W.drop, W.literal, -1, W.int_add, W.swap, W.return0>>

is_space == <<W.swap, W.literal, 32, W.equals, W.swap, W.return0>>
is_newline == <<W.swap, W.literal, 10, W.equals, W.swap, W.return0>>

(* ( buffer max-len counter -- buffer counter )                            *)
read_line3 == <<
  W.literal, 2, W.pick, W.literal, 2, W.pick,
  W.int_lte, W.literal, 3, W.unlessjump, W.shift, W.drop, W.return0,
  W.read_byte, W.fdup, W.literal, 0, W.int_lt,
  W.literal, 4, W.unlessjump, W.drop, W.shift, W.drop, W.return0,
  W.fdup, W.literal, 5, W.pick, W.literal, 4, W.pick, W.int_add, W.poke_byte,
  W.rot, W.literal, 1, W.int_add, W.rot,
  W.is_newline, W.literal, 3, W.unlessjump, W.shift, W.drop, W.return0,
  W.literal, -49, W.jumprel>>

null_terminate == <<W.shift, W.shift, W.int_add, W.literal, 0, W.swap, W.poke_byte, W.return0>>

(* Mutant: the offset of the line before is kept.                          *)
refill_keeps_offset == <<
  W.prompt, W.input_buffer, W.peek, W.input_buffer_max_size, W.peek,
  W.literal, 0, W.read_line3,
  W.fdup, W.literal, 0, W.int_lte, W.literal, 3, W.ifjump, W.over, W.over, W.null_terminate,
  W.swap, W.drop, W.fdup, W.input_buffer_size, W.poke,
  W.literal, 0, W.int_lte, W.literal, 4, W.unlessjump, W.literal, 0, W.swap, W.return0,
  W.literal, 1, W.swap, W.return0>>

refill_input_buffer == <<
  W.prompt, W.input_buffer, W.peek, W.input_buffer_max_size, W.peek,
  W.literal, 0, W.read_line3,
  W.fdup, W.literal, 0, W.int_lte, W.literal, 3, W.ifjump, W.over, W.over, W.null_terminate,
  W.swap, W.drop, W.fdup, W.input_buffer_size, W.poke,
  W.literal, 0, W.input_buffer_offset, W.poke,
  W.literal, 0, W.int_lte, W.literal, 4, W.unlessjump, W.literal, 0, W.swap, W.return0,
  W.literal, 1, W.swap, W.return0>>

input_buffer_read_byte == <<
  W.input_buffer_size, W.peek,
  W.fdup, W.literal, 0, W.int_lt, W.literal, 2, W.unlessjump, W.swap, W.return0,
  W.input_buffer_offset, W.peek, W.swap, W.int_lt, W.literal, 11, W.ifjump,
  W.refill_input_buffer, W.literal, 4, W.ifjump, W.literal, -1, W.swap, W.return0,
  W.literal, -29, W.jumprel,
  W.input_buffer, W.peek, W.input_buffer_offset, W.peek, W.int_add, W.peek_byte,
  W.input_buffer_offset, W.peek, W.literal, 1, W.int_add, W.input_buffer_offset, W.poke,
  W.swap, W.return0>>

eat_spaces == <<
  W.input_buffer_read_byte,
  W.fdup, W.is_newline, W.literal, 4, W.unlessjump, W.drop, W.literal, -10, W.jumprel,
  W.fdup, W.is_space, W.literal, 4, W.unlessjump, W.drop, W.literal, -19, W.jumprel,
  W.swap, W.return0>>

(* ( buffer max-len count -- buffer count )                                *)
read_token3 == <<
  W.eat_spaces, W.literal, 1, W.jumprel, W.input_buffer_read_byte,
  W.fdup, W.literal, 0, W.int_lt, W.literal, 26, W.ifjump,
  W.fdup, W.is_newline, W.literal, 21, W.ifjump,
  W.fdup, W.is_space, W.literal, 16, W.ifjump,
  W.literal, 4, W.pick, W.literal, 3, W.pick, W.int_add, W.poke_byte,
  W.swap, W.literal, 1, W.int_add, W.swap, W.literal, -34, W.jumprel,
  W.literal, 4, W.pick, W.literal, 3, W.pick, W.int_add, W.literal, 0, W.swap, W.poke_byte,
  W.drop, W.shift, W.drop, W.return0>>
read_token == <<W.roll, W.literal, 0, W.read_token3, W.shift, W.return0>>

dict_entry_name == <<W.swap, W.literal, 0, W.int_add, W.swap, W.return0>>
dict_entry_code == <<W.swap, W.literal, 1, W.int_add, W.swap, W.return0>>
dict_entry_data == <<W.swap, W.literal, 2, W.int_add, W.swap, W.return0>>
dict_entry_next == <<W.swap, W.literal, 3, W.int_add, W.swap, W.return0>>

(* Mutant: the character after the name is not compared.                   *)
equals_to_length == <<
  W.over, W.literal, 3, W.pick, W.int_lt, W.literal, 14, W.ifjump,
  W.roll, W.swap, W.drop, W.roll, W.swap, W.drop, W.roll, W.swap, W.drop, W.drop,
  W.literal, 1, W.swap, W.return0,
  W.over, W.literal, 5, W.pick, W.int_add, W.peek_byte,
  W.literal, 2, W.pick, W.literal, 5, W.pick, W.int_add, W.peek_byte,
  W.equals, W.literal, 14, W.ifjump,
  W.roll, W.swap, W.drop, W.roll, W.swap, W.drop, W.roll, W.swap, W.drop, W.drop,
  W.literal, 0, W.swap, W.return0,
  W.swap, W.literal, 1, W.int_add, W.swap, W.literal, -62, W.jumprel>>

(* ( a b length index -- equal? )                                          *)
byte_string_equals4 == <<
  W.over, W.literal, 3, W.pick, W.int_lte, W.literal, 14, W.ifjump,
  W.roll, W.swap, W.drop, W.roll, W.swap, W.drop, W.roll, W.swap, W.drop, W.drop,
  W.literal, 1, W.swap, W.return0,
  W.over, W.literal, 5, W.pick, W.int_add, W.peek_byte,
  W.literal, 2, W.pick, W.literal, 5, W.pick, W.int_add, W.peek_byte,
  W.equals, W.literal, 14, W.ifjump,
  W.roll, W.swap, W.drop, W.roll, W.swap, W.drop, W.roll, W.swap, W.drop, W.drop,
  W.literal, 0, W.swap, W.return0,
  W.swap, W.literal, 1, W.int_add, W.swap, W.literal, -62, W.jumprel>>

(* ( a b length -- equal? )                                                *)
byte_string_equals3 == <<
  W.literal, 3, W.pick, W.literal, 3, W.pick, W.literal, 3, W.pick,
  W.literal, 0, W.byte_string_equals4,
  W.roll, W.swap, W.drop, W.roll, W.swap, W.drop, W.roll, W.swap, W.drop, W.return0>>

(* ( buffer length dict -- dict ok? )                                      *)
lookup == <<
  W.over, W.literal, 12, W.ifjump,
  W.swap, W.drop, W.swap, W.drop, W.swap, W.drop,
  W.literal, 0, W.swap, W.over, W.swap, W.return0,
  W.over, W.dict_entry_name, W.peek, W.literal, 4, W.pick, W.literal, 4, W.pick,
  W.byte_string_equals3, W.literal, 10, W.unlessjump,
  W.roll, W.swap, W.drop, W.roll, W.swap, W.drop, W.literal, 1, W.swap, W.return0,
  W.swap, W.dict_entry_next, W.peek, W.swap, W.literal, -46, W.jumprel>>

quote == <<
  W.here, W.rpush, W.literal, 0, W.literal, 0, W.literal, 0, W.literal, 0,
  W.here, W.literal, 32, W.read_token,
  W.fdup, W.literal, 0, W.int_lte, W.literal, 14, W.ifjump,
  W.dict, W.lookup, W.literal, 9, W.unlessjump,
  W.rpop, W.cell_size, W.int_sub, W.over, W.over, W.poke, W.move, W.swap, W.return0,
  W.literal, W.not_found, W.cputs, W.rpop, W.move, W.literal, 0, W.swap, W.return0>>

(* ( a b -- )                                                              *)
swap_places == <<
  W.literal, 2, W.pick, W.peek, W.literal, 2, W.pick, W.peek,
  W.literal, 4, W.pick, W.poke, W.literal, 2, W.pick, W.poke,
  W.swap, W.drop, W.swap, W.drop, W.return0>>

(* ( ptr length n -- ptr length n )                                        *)
reverse3 == <<
  W.literal, 3, W.pick, W.literal, 3, W.pick, W.literal, 3, W.pick, W.int_sub,
  W.literal, 1, W.int_sub, W.cell_size, W.int_mul, W.int_add,
  W.literal, 4, W.pick, W.literal, 3, W.pick, W.cell_size, W.int_mul, W.int_add, W.swap_places,
  W.swap, W.literal, 1, W.int_add, W.swap,
  W.literal, 1, W.pick, W.literal, 2, W.int_mul,
  W.literal, 3, W.pick, W.int_lt, W.literal, -44, W.ifjump, W.return0>>
reverse == <<W.roll, W.literal, 0, W.reverse3, W.drop, W.drop, W.drop, W.return0>>

(* ( n -- 0 1 2 ... n-1 )                                                  *)
nseq == <<
  W.literal, 0, W.roll, W.swap, W.literal, 1, W.int_sub, W.swap,
  W.over, W.literal, 3, W.ifjump, W.swap, W.drop, W.return0,
  W.literal, 2, W.pick, W.literal, 1, W.int_add, W.roll, W.literal, -22, W.jumprel>>

interp_loop == <<
  W.rpush, W.here, W.stack_prompt, W.poke,
  W.token_buffer, W.peek, W.token_buffer_size, W.peek, W.read_token,
  W.fdup, W.literal, 0, W.int_lte, W.literal, 18, W.ifjump,
  W.dict, W.lookup, W.literal, 6, W.unlessjump,
  W.istate, W.peek, W.exec, W.literal, 4, W.jumprel,
  W.drop, W.literal, W.not_found, W.cputs, W.literal, -33, W.jumprel,
  W.literal, W.bye_str, W.cputs, W.rpop, W.return0>>

rbracket == <<W.literal, W.exec, W.istate, W.poke,
              W.here, W.cell_size, W.int_add, W.swap, W.return0>>
compile == <<W.over, W.literal, W.rbracket, W.equals, W.literal, 1, W.ifjump, W.return0,
             W.rpush, W.exec, W.rpop, W.return0>>
lbracket == <<W.literal, W.compile, W.istate, W.poke, W.return0>>

(* ( num-bytes -- ... pointer )                                            *)
stack_allot == <<W.rpush, W.here, W.swap, W.uint_sub, W.move, W.here, W.rpop, W.return0>>

interp == <<
  W.rpush, W.literal, TokenBufferSize, W.stack_allot, W.token_buffer, W.poke,
  W.literal, TokenBufferSize, W.token_buffer_size, W.poke,
  W.literal, InputBufferSize, W.stack_allot, W.input_buffer, W.poke,
  W.literal, InputBufferSize, W.input_buffer_max_size, W.poke,
  W.interp_loop,
  W.literal, 0, W.token_buffer, W.poke, W.literal, 0, W.token_buffer_size, W.poke,
  W.rpop, W.return0>>

(* Mutant: the input of before is not taken up again.                      *)
load_keeps_input == <<
  W.rpush, W.current_input, W.peek, W.rpush, W.current_input, W.poke,
  W.interp_loop, W.rpop, W.drop, W.rpop, W.return0>>

load == <<
  W.rpush, W.current_input, W.peek, W.rpush, W.current_input, W.poke,
  W.interp_loop, W.rpop, W.current_input, W.poke, W.rpop, W.return0>>

mem_used == <<W.stack_top, W.peek, W.here, W.ptr_sub, W.swap, W.return0>>
mem_info == <<
  W.literal, W.mem_info_stack_str, W.write_string, W.mem_used, W.write_uint,
  W.literal, W.crnl_str, W.write_string,
  W.literal, W.mem_info_rstack_str, W.write_string, W.ram_used, W.write_uint,
  W.literal, W.crnl_str, W.write_string, W.return0>>

boot == <<W.here, W.stack_top, W.poke, W.mem_info, W.interp, W.return0>>

(* c4-interp-tests.c                                                       *)
test_reverse == <<
  W.here, W.rpush,
  W.literal, 4, W.nseq, W.here, W.literal, 4, W.reverse, W.dump_stack,
  W.literal, 1, W.here, W.literal, 1, W.reverse, W.dump_stack,
  W.literal, 1, W.literal, 2, W.here, W.literal, 2, W.reverse, W.dump_stack,
  W.literal, 3, W.nseq, W.here, W.literal, 3, W.reverse, W.dump_stack,
  W.literal, 5, W.nseq, W.here, W.literal, 5, W.reverse, W.dump_stack,
  W.literal, 6, W.nseq, W.here, W.literal, 6, W.reverse, W.dump_stack,
  W.rpop, W.move, W.return0>>
=============================================================================
