----------------------------- MODULE C4Sessions -----------------------------
(***************************************************************************)
(* C4 and C5 as they are run: boot on the characters of a session.  What   *)
(* the interpreter should make of them is a fold over the session that     *)
(* knows words, lines and the end of the input, and no lists.              *)
(***************************************************************************)
EXTENDS CForthRun

Space == 32
Newline == 10

Session(machine_, chars) ==
  [kind |-> "session", machines |-> {machine_},
   list |-> IF machine_ = "C5" THEN <<W.boot, W.fexit>> ELSE <<>>,
   callee |-> <<>>, args |-> <<>>, buffer |-> <<>>, input |-> chars]

-----------------------------------------------------------------------------
(* The two buffers are the first of the stack, but for the frame of boot   *)
(* in C5, and each has a cell above it.                                    *)
TokenBuffer == StackBase - TokenBufferSize - (IF machine = "C5" THEN 2 ELSE 1)
Bottom == TokenBuffer - 1 - InputBufferSize

(* The meaning of a session: the token that is being read, how much of the *)
(* line has been read, the stack, what has been reported, what a word is   *)
(* for, the inputs of the session and of the loads under way, the          *)
(* descriptors read so far, and whether the session is over.               *)
Start == [token |-> <<>>, line |-> 0, stack |-> <<>>, reports |-> <<>>,
          mode |-> "exec", quoting |-> FALSE, inputs |-> <<0>>, reads |-> <<>>,
          over |-> FALSE]

Push(st, v) == [st EXCEPT !.stack = Append(@, v)]
Report(st, id) == [st EXCEPT !.reports = Append(@, W[id])]

(* The address of the top of the stack, for "]".                           *)
Here(st) == Bottom - Len(st.stack)

Execute(st, id) ==
  CASE id = "one" -> Push(st, 1)
    [] id = "two" -> Push(st, 2)
    [] id = "load" -> [st EXCEPT !.stack = Front(@), !.inputs = Append(@, Last(st.stack))]
    [] id = "quote" -> [st EXCEPT !.quoting = TRUE]
    [] id = "lbracket" -> [st EXCEPT !.mode = "compile"]
    [] id = "rbracket" -> Push([st EXCEPT !.mode = "exec"], Here(st))

(* A complete token: a name to quote, to execute or to compile.            *)
Word_(st) ==
  LET id == Vocabulary[Min(Named(st.token))]
      read == [st EXCEPT !.token = <<>>, !.quoting = FALSE]
  IN  CASE Named(st.token) = {} /\ st.quoting -> Push(Report(read, "not_found"), 0)
        [] Named(st.token) = {} /\ ~st.quoting -> Report(read, "not_found")
        [] Named(st.token) # {} /\ ~st.quoting /\ (st.mode = "exec" \/ id = "rbracket") ->
             Execute(read, id)
        [] OTHER -> Push(read, W[id])

(* The end of the input, or an error, only ends a line when part of it has *)
(* been read, and otherwise a token, a load or the session.  A loop that   *)
(* ends leaves the address of the token buffer and the length of no token. *)
Ending(st) ==
  CASE st.line > 0 -> [st EXCEPT !.line = 0]
    [] st.line = 0 /\ (st.token # <<>> \/ st.quoting) -> Word_(st)
    [] OTHER -> [Push(Push(Report(st, "bye_str"), TokenBuffer), 0)
                   EXCEPT !.inputs = Front(@), !.over = Len(st.inputs) = 1]

Filled(st) == [st EXCEPT !.line = (@ + 1) % InputBufferSize]
Character(st, c) ==
  CASE c < 0 -> Ending(st)
    [] c >= 0 /\ c \notin {Space, Newline} -> [Filled(st) EXCEPT !.token = Append(@, c)]
    [] OTHER ->
         LET next == IF c = Newline THEN [st EXCEPT !.line = 0] ELSE Filled(st)
         IN  IF st.token = <<>> THEN next ELSE Word_(next)

(* Every character, end and error is read from the input of the innermost  *)
(* load.                                                                   *)
Means(st, c) ==
  IF st.over THEN st
  ELSE Character([st EXCEPT !.reads = Append(@, Last(st.inputs))], c)

(* Past its characters a session stays at the end of the input.            *)
Meaning(chars) == FoldLeft(Means, Start, chars \o [k \in 1 .. Len(chars) + 3 |-> Eof])

-----------------------------------------------------------------------------
Reports ==
  LET told == SelectSeq(out, LAMBDA e : e \in {<<"string", W.not_found>>, <<"string", W.bye_str>>})
  IN  [k \in DOMAIN told |-> told[k][2]]

Descriptors ==
  LET reads == SelectSeq(out, LAMBDA e : e[1] = "read")
  IN  [k \in DOMAIN reads |-> reads[k][2]]

(* What the session has left on the stack: the return of boot takes the    *)
(* last cell for its frame.                                                *)
Left == [k \in 1 .. Bottom - sp |-> mem[Bottom - k]]

(* A session that is over has reported and left on the stack what its      *)
(* characters mean, wherever lines, ends and errors have cut them, and has *)
(* read each character from the input of the load it belongs to.           *)
SessionsMean ==
  Done /\ job.kind = "session" =>
    LET m == Meaning(job.input)
    IN  /\ Reports = m.reports
        /\ Left = Front(m.stack)
        /\ Descriptors = m.reads
=============================================================================
