--------------------------- MODULE MCTestlibProgram ---------------------------
(***************************************************************************)
(* The command lines and files of the runs of TestlibProgram.               *)
(***************************************************************************)
EXTENDS TestlibProgram

CONSTANT Kinds          \* the kinds of program of this run
MCLongMin == -12
MCIntMin == -1

MCFile(text) == [exists |-> TRUE, bytes |-> text]
MCNoFile == [exists |-> FALSE, bytes |-> <<>>]
MCInputs == {MCFile(<<>>), MCFile(<<97>>), MCNoFile}
MCOutputs == {MCFile(<<97>>), MCFile(<<97, SPACE, LF>>), MCFile(<<97, SPACE, 97>>),
              MCFile(<<97, 97, 97, 97, 97>>), MCNoFile}
MCAnswers == {MCFile(<<97>>), MCNoFile}
MCResults == {_ok, _wa, _pe, _fail, _dirt, _points, _unexpected_eof, 9, _partially, _partially + 1}

MCPlain(kind, n) ==
  [kind |-> kind, names |-> n, optionsFine |-> TRUE, help |-> FALSE, report |-> "file",
   appes |-> TRUE, toutFine |-> TRUE, logs |-> {"overview", "markup", "testcase"},
   badLogs |-> {}, unusedOpts |-> FALSE]
\* What only depends on there being enough names is tried with three and five.
MCCommandLines ==
  LET plain == {MCPlain(kind, n) : kind \in Kinds, n \in 2..5}
      some == {a \in plain : a.names \in {3, 5}}
  IN  plain
      \cup {[a EXCEPT !.report = "bad"] : a \in plain}
      \cup {[a EXCEPT !.optionsFine = FALSE] : a \in some}
      \cup {[a EXCEPT !.help = TRUE] : a \in some}
      \cup {[a EXCEPT !.appes = FALSE] : a \in some}
      \cup {[a EXCEPT !.toutFine = FALSE] : a \in some}
      \cup {[a EXCEPT !.unusedOpts = TRUE] : a \in some}
      \cup {[a EXCEPT !.badLogs = {l}] : a \in some, l \in {"overview", "markup", "testcase"}}
=============================================================================
