----------------------------- MODULE CForthRun -----------------------------
(***************************************************************************)
(* C4 and C5 running jobs: a list of words with the data stack, the buffer *)
(* and the input it is given, and what it should leave behind.  The        *)
(* machine and the job are chosen once.                                    *)
(***************************************************************************)
EXTENDS C4Image, CForth

CONSTANT Jobs     (* records of machines, list, callee, args, buffer and    *)
                  (* input, and what C4Contracts and ForthPrograms add      *)

VARIABLES machine, job, w, r, called

runVars == <<forthVars, machine, job, w, r, called>>

Five == INSTANCE C5
Four == INSTANCE C4

(* The list of the word "callee", which a job may define, comes before the *)
(* list of the job.  Without a list it is boot's, as in the main of C4.    *)
Program(j) == j.callee \o j.list
MainList(j) ==
  IF j.list = <<>> THEN ListAt[Position(Colons, "boot")] ELSE ProgramAt + Len(j.callee)

Memory(j) ==
  [x \in Ram |->
     IF x \in ProgramAt .. ProgramAt + Len(Program(j)) - 1
       THEN Program(j)[x - ProgramAt + 1]
     ELSE IF x \in BufferAt .. BufferAt + Len(j.buffer) - 1
       THEN j.buffer[x - BufferAt + 1]
     ELSE IF x \in StackBase - Len(j.args) .. StackBase - 1
       THEN j.args[StackBase - x]
     ELSE InitialValue(x)]

Init ==
  /\ \E j \in Jobs : \E m \in j.machines :
       /\ job = j /\ machine = m
       /\ rom = ImageRom /\ mem = Memory(j)
       /\ sp = StackBase - Len(j.args)
       /\ script = j.input /\ taken = 0 /\ out = <<>>
  /\ IF machine = "C5" THEN /\ Five!Boot(MainList(job))
                            /\ r = "GO" /\ called = NULL
                       ELSE /\ Four!Boot(MainList(job))
                            /\ w = NULL

Next ==
  /\ \/ machine = "C5" /\ Five!MachineNext /\ UNCHANGED <<r, called>>
     \/ machine = "C4" /\ Four!MachineNext /\ UNCHANGED w
  /\ UNCHANGED <<rom, machine, job>>

Spec == Init /\ [][Next]_runVars /\ WF_runVars(Next)

-----------------------------------------------------------------------------
(* The data stack, the top last.                                           *)
Stack == [k \in 1 .. StackBase - sp |-> mem[StackBase - k]]
Buffer(n) == [k \in 1 .. n |-> mem[BufferAt + k - 1]]

(* The loop of main is below all others, and every other one was begun by  *)
(* a word of its machine that goes on when it ends.                        *)
Beginners ==
  IF machine = "C5" THEN {"enter", "rpush", "rallot", "next"}
  ELSE {"docol", "rpush", "rallot", "over", "fexit", "next"}
NestingOK ==
  /\ \A k \in DOMAIN frames : frames[k].kind \in IF k = 1 THEN {"main"} ELSE Beginners
  /\ r \in {"GO", "STOP", "DROP_FRAME", "POP"}

(* No word writes outside the memory or moves the stack out of its cells,  *)
(* and the C stack does not grow into the data stack.                      *)
RunTypeOK ==
  /\ mem \in [Ram -> Int]
  /\ sp \in BufferAt + BufferCells .. StackBase
  /\ CStack \in StackBase .. CStackTop
  /\ NestingOK
  /\ taken \in 0 .. Len(script)

(* Every job comes to its end: the lists have no jump that goes astray and *)
(* no loop, reading ones included, that misses its end.                    *)
Finishes == <>Done
=============================================================================
