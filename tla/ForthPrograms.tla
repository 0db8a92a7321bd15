--------------------------- MODULE ForthPrograms ---------------------------
(***************************************************************************)
(* Every short program of the words that move cells and lists, as jobs of  *)
(* C4 and C5, and the machines' state read as one of the ForthMachine.     *)
(***************************************************************************)
EXTENDS C4Contracts

CONSTANTS MainLength, CalleeLength      (* bounds of the lists of a program *)

Movers == {"swap", "over", "drop", "fdup", "rpush", "rpop"}

(* A program makes sense when no word finds the stack too short, what is   *)
(* put aside is taken back where it was put, and a word returns with its   *)
(* own frame on top.  A cell is 0 here and the frame of the n-th call n.   *)
Sense(calls, stack, aside) == [ok |-> TRUE, calls |-> calls, stack |-> stack, aside |-> aside]
NoSense == [ok |-> FALSE, calls |-> 0, stack |-> <<>>, aside |-> <<>>]

After(st, name) ==
  LET s == st.stack
      n == Len(s)
      below(k) == SubSeq(s, 1, n - k)
      to(stack) == Sense(st.calls, stack, st.aside)
  IN  IF ~st.ok \/ n < (IF name \in {"swap", "over"} THEN 2
                        ELSE IF name \in {"literal", "callee", "rpop"} THEN 0 ELSE 1)
      THEN NoSense
      ELSE CASE name = "swap" -> to(below(2) \o <<s[n], s[n - 1]>>)
             [] name = "over" -> to(Append(s, s[n - 1]))
             [] name = "drop" -> to(below(1))
             [] name = "fdup" -> to(Append(s, s[n]))
             [] name = "literal" -> to(Append(s, 0))
             [] name = "rpush" -> Sense(st.calls, below(1), Append(st.aside, s[n]))
             [] name = "rpop" -> IF st.aside = <<>> \/ Last(st.aside) = -1 THEN NoSense
                                 ELSE Sense(st.calls, Append(s, Last(st.aside)), Front(st.aside))
             [] name = "callee" -> Sense(st.calls + 1, Append(s, st.calls + 1), Append(st.aside, -1))
             [] name = "return0" -> IF st.aside = <<>> \/ Last(st.aside) # -1 \/ s[n] # st.calls
                                    THEN NoSense ELSE Sense(st.calls, below(1), Front(st.aside))

MakesSense(main, callee, depth) ==
  LET run == FlattenSeq([k \in DOMAIN main |->
               IF main[k] = "callee" THEN <<"callee">> \o callee \o <<"return0">> ELSE <<main[k]>>])
      end == FoldLeft(After, Sense(0, [k \in 1 .. depth |-> 0], <<>>), run)
  IN  end.ok /\ end.aside = <<>>

Upto(n, S) == UNION {[1 .. k -> S] : k \in 0 .. n}

(* A literal in a list pushes a cell that no other word has made.          *)
Cells(names) ==
  FlattenSeq([k \in DOMAIN names |->
    IF names[k] = "literal" THEN <<W.literal, 3>> ELSE <<W[names[k]]>>])

ProgramJobs ==
  {[Task(Both, Cells(p[1]), <<1, 2>>, <<>>) EXCEPT
     !.kind = "program", !.callee = Append(Cells(p[2]), W.return0)] :
     p \in {q \in (Upto(MainLength, Movers \cup {"callee"})
                     \X Upto(CalleeLength, Movers \cup {"literal"})) :
              /\ (q[2] = <<>> \/ \E k \in DOMAIN q[1] : q[1][k] = "callee")
              /\ MakesSense(q[1], q[2], 2)}}

-----------------------------------------------------------------------------
(* The abstract machine.  A frame on the data stack is an address, which   *)
(* no cell of a program is.                                                *)
Mark == -1
Marked(v) == IF v >= ProgramAt THEN Mark ELSE v

IsProgram == job.kind = "program"
AbsCode ==
  IF IsProgram THEN [x \in ProgramAt .. ProgramAt + Len(Program(job)) - 1 |-> mem[x]]
  ELSE [x \in {ProgramAt} |-> W.abort_next]

(* The innermost call, and whether its word has ended.                     *)
Call == Max({0} \cup {k \in DOMAIN frames : frames[k].kind \in {"enter", "docol"}})
Ended == IF machine = "C5" THEN eip = NULL ELSE r = "DROP_FRAME"

AbsIp ==
  CASE ~IsProgram -> ProgramAt
    [] IsProgram /\ (Done \/ r = "STOP") -> 0
    [] IsProgram /\ ~Done /\ machine = "C5" ->
         IF ~Ended THEN eip - 1 ELSE IF Call = 0 THEN 0 ELSE frames[Call].eip
    [] IsProgram /\ ~Done /\ machine = "C4" /\ r # "STOP" -> IF r = "POP" THEN eip - 1 ELSE eip

AbsStack == IF IsProgram THEN [k \in DOMAIN Stack |-> Marked(Stack[k])] ELSE <<>>

(* An inner loop that has ended no longer counts.                          *)
AbsRstack ==
  IF ~IsProgram \/ r = "STOP" THEN <<>>
  ELSE FlattenSeq([k \in 1 .. (IF Ended THEN Max({0, Call - 1}) ELSE Len(frames)) |->
         CASE frames[k].kind = "enter" -> <<[kind |-> "return", val |-> frames[k].eip]>>
           [] frames[k].kind = "docol" -> <<[kind |-> "return", val |-> frames[k].val]>>
           [] frames[k].kind = "rpush" -> <<[kind |-> "cell", val |-> Marked(frames[k].val)]>>
           [] OTHER -> <<>>])

ProgramWords == Movers \cup {"literal", "return0", "abort_next"}
Machine == INSTANCE ForthMachine WITH
  code <- AbsCode, ip <- AbsIp, stack <- AbsStack, rstack <- AbsRstack,
  WordName <- [x \in {W[n] : n \in ProgramWords} |-> CHOOSE n \in ProgramWords : W[n] = x],
  Callee <- W.callee, Entry <- ProgramAt

(* However C4 and C5 nest their C functions and whatever they keep on the  *)
(* C stack, they run a program as the machine does: every step is a step   *)
(* of its, or changes nothing in it.                                       *)
RunsAsMachine == Machine!Spec
=============================================================================
