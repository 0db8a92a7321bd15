---------------------------- MODULE ForthMachine ----------------------------
(***************************************************************************)
(* What the inner interpreters promise to a list of words: a data stack, a *)
(* return stack that holds return addresses and the cells rpush has put    *)
(* aside, and the position in the list.  How deep the C functions nest is  *)
(* not part of it.  A call leaves a Mark on the data stack that its return *)
(* takes off again, and the word can only move it around.                  *)
(***************************************************************************)
EXTENDS Integers, Sequences, SequencesExt

CONSTANTS
  WordName,       (* the name of the word at an address                     *)
  Callee,         (* the address of the one colon word of the program       *)
  Entry,          (* and of its list                                        *)
  Mark            (* what a call leaves on the data stack                   *)

VARIABLES
  code,           (* the lists of the program                               *)
  ip,             (* the address of the next word, 0 after the last         *)
  stack,          (* the data stack, the top last                           *)
  rstack          (* the return stack, the top last                         *)

vars == <<code, ip, stack, rstack>>

Addr(a) == [kind |-> "return", val |-> a]
Cell(v) == [kind |-> "cell", val |-> v]

Init ==
  /\ ip \in DOMAIN code
  /\ stack \in Seq(Int)
  /\ rstack = <<>>

Runs(name) ==
  ip # 0 /\ code[ip] \in DOMAIN WordName /\ WordName[code[ip]] = name /\ UNCHANGED code

(* The top n cells of the stack give way to others.                        *)
Args(n) == Tail(SubSeq(stack, Len(stack) - n, Len(stack)))
Below(n) == SubSeq(stack, 1, Len(stack) - n)
Effect(name, n, results) ==
  Runs(name) /\ stack' = Below(n) \o results /\ ip' = ip + 1 /\ UNCHANGED rstack

a == stack[Len(stack) - 1]
b == stack[Len(stack)]

Compute ==
  \/ Effect("swap", 2, <<b, a>>)
  \/ Effect("fdup", 1, <<b, b>>)
  \/ Effect("over", 2, <<a, b, a>>)
  \/ Effect("drop", 1, <<>>)

Literal ==
  /\ Runs("literal")
  /\ stack' = Append(stack, code[ip + 1])
  /\ ip' = ip + 2
  /\ UNCHANGED rstack

Rpush ==
  /\ Runs("rpush")
  /\ rstack' = Append(rstack, Cell(b))
  /\ stack' = Below(1)
  /\ ip' = ip + 1

Rpop ==
  /\ Runs("rpop")
  /\ rstack # <<>> /\ Last(rstack).kind = "cell"
  /\ stack' = Append(stack, Last(rstack).val)
  /\ rstack' = Front(rstack)
  /\ ip' = ip + 1

Call ==
  /\ ip # 0 /\ code[ip] = Callee
  /\ rstack' = Append(rstack, Addr(ip + 1))
  /\ stack' = Append(stack, Mark)
  /\ ip' = Entry
  /\ UNCHANGED code

(* A return takes the cells with it that the word has left on the return   *)
(* stack.                                                                  *)
Return ==
  /\ Runs("return0")
  /\ b = Mark
  /\ \E k \in DOMAIN rstack :
       /\ rstack[k].kind = "return"
       /\ \A j \in k + 1 .. Len(rstack) : rstack[j].kind = "cell"
       /\ ip' = rstack[k].val
       /\ rstack' = SubSeq(rstack, 1, k - 1)
  /\ stack' = Below(1)

Stop == Runs("abort_next") /\ ip' = 0 /\ rstack' = <<>> /\ UNCHANGED stack

Next == Compute \/ Literal \/ Rpush \/ Rpop \/ Call \/ Return \/ Stop

Spec == Init /\ [][Next]_vars
=============================================================================
