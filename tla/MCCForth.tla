------------------------------ MODULE MCCForth ------------------------------
EXTENDS ForthPrograms, C4Sessions

(* A small dictionary: a name that is the beginning of another, and a name *)
(* given twice.                                                            *)
MCVocabulary == <<"one", "two", "three", "quote", "lbracket", "rbracket", "load">>
MCSpelled == [one |-> <<65>>, two |-> <<65, 66>>, three |-> <<65, 66>>, quote |-> <<39>>,
              lbracket |-> <<91>>, rbracket |-> <<93>>, load |-> <<76>>]

(* A constant given as a definition is evaluated again at each use: that   *)
(* definition is only a name of another.                                   *)
MCRam == ImageRam
MCRoutine == Routines
MCLastWord == LastWordAt
MCInitBrk == InitBrkAt
MCCStackTop == CStackBase

(* "' A ", "' B ", "' C A ", "' " with nothing to quote, a quote at the    *)
(* end of a line, "[ A AB ] A ", "[ ' A ] ", "A ] ", lines of one word, a  *)
(* quoted quote, an unknown word while compiling, and loads that end.      *)
MCTexts ==
  {<<39, 32, 65, 32>>, <<39, 32, 66, 32>>, <<39, 32, 67, 32, 65, 32>>, <<39, 32>>,
   <<39, 10, 65, 10>>, <<91, 32, 65, 32, 65, 66, 32, 93, 32, 65, 32>>,
   <<91, 32, 39, 32, 65, 32, 93, 32>>, <<65, 32, 93, 32>>, <<91, 10, 91, 10, 93, 10>>,
   <<39, 32, 39, 32, 65, 10>>, <<91, 32, 66, 32, 93>>,
   <<65, 32, 76, 10, 65, Eof, Eof, Eof, 65, 66>>,
   <<65, 66, 32, 65, 10, 76, 10, Fault, 76, 10, Eof, 66>>}

(* Every short text, cut by the end of the input and by errors.            *)
MCSessions ==
  {Session(m, s) : m \in {"C4", "C5"}, s \in MCTexts}
    \cup {Session("C5", s) : s \in [1 .. 3 -> {65, 32, 10, Eof}]}
    \cup {Session("C4", s) : s \in [1 .. 3 -> {65, 66, 10, Fault}]}

MCJobs == WordJobs \cup ProgramJobs \cup MCSessions
=============================================================================
