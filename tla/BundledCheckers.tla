-------------------------- MODULE BundledCheckers --------------------------
(***************************************************************************)
(* The checkers that ship with the judge (support/checkers), each a         *)
(* sequential program over the answer file and the participant's output,    *)
(* run by the engine as `checker input output answer'.  One action per      *)
(* iteration of a loop.  What only goes into the message (counts, first     *)
(* elements) is left out.                                                   *)
(***************************************************************************)
EXTENDS TestlibQuit, Pattern

CONSTANTS Eps4Inv, Eps6Inv, Eps9Inv     \* 1 / EPS of rcmp4, rcmp6, rcmp9

VARIABLES
  checker,              \* which program this is
  files,                \* [ans, out]: what the engine staged
  ans, ouf,             \* the streams
  expected, found,      \* default.cpp: the lines read so far
  extraInAns, extraInOuf,
  pc,                   \* where main is; "exited" at the end
  exit                  \* the exit code

locals == <<expected, found, extraInAns, extraInOuf>>
vars == <<checker, files, ans, ouf, locals, pc, exit>>

YES == <<89, 69, 83>>
NO == <<78, 79>>
Closed == [mode |-> "_input", strict |-> FALSE, open |-> FALSE, rest |-> <<>>]

(* The process starts; Case is what the engine staged for it. *)
Starts(c, fs) ==
  /\ checker = c /\ files = fs
  /\ ans = Closed /\ ouf = Closed
  /\ expected = <<>> /\ found = <<>> /\ extraInAns = 0 /\ extraInOuf = 0
  /\ pc = "start" /\ exit = -1

-----------------------------------------------------------------------------
(* quit called on a stream of this mode, with the streams as they are then.   *)
Quit(mode, result, a, o) ==
  /\ ans' = a /\ ouf' = o /\ pc' = "exited"
  /\ exit' = quit([testlibMode |-> "_checker", ouf |-> o, resultName |-> "",
                   appesMode |-> FALSE, points |-> "inf"], mode, result).exit
  /\ UNCHANGED <<checker, files, locals>>

(* quitf is ouf.quit. *)
quitf(result, a, o) == Quit("_output", result, a, o)

Goto(next, a, o) ==
  /\ ans' = a /\ ouf' = o /\ pc' = next
  /\ UNCHANGED <<checker, files, exit>>

(* registerTestlibCmd with three file names: inf, ouf and its BOM, ans.  The   *)
(* input file is always staged and no bundled checker reads it.                *)
registerTestlibCmd ==
  LET o == init(files.out, "_output")
      a == init(files.ans, "_answer")
  IN  /\ pc = "start"
      /\ IF o.quit # NoQuit THEN Quit("_output", o.quit, ans, o.in)
         ELSE IF a.quit # NoQuit THEN Quit("_answer", a.quit, a.in, skipBom(o.in))
         ELSE Goto("main", a.in, skipBom(o.in)) /\ UNCHANGED locals

In(c) == checker = c /\ pc = "main"

(* One read from the answer, then one from the output; then the comparison's   *)
(* result, NoQuit to go on with the loop.                                       *)
Compare(a, o, result) ==
  IF a.quit # NoQuit THEN Quit("_answer", a.quit, a.in, ouf)
  ELSE IF o.quit # NoQuit THEN Quit("_output", o.quit, a.in, o.in)
  ELSE IF result # NoQuit THEN quitf(result, a.in, o.in)
  ELSE Goto("main", a.in, o.in) /\ UNCHANGED locals

(* Mutant: a difference is called a wrong format. *)
MutantWaUnless(same) == IF same THEN NoQuit ELSE _pe
WaUnless(same) == IF same THEN NoQuit ELSE _wa

-----------------------------------------------------------------------------
wcmp ==
  LET a == seekEof(ans)
      o == seekEof(ouf)
      j == readWordTo(a)
      p == readWordTo(o)
  IN  /\ In("wcmp")
      /\ IF ~eof(a) /\ ~eof(o) THEN Compare(j, p, WaUnless(j.val = p.val))
         ELSE quitf(IF eof(a) /\ eof(o) THEN _ok ELSE _wa, a, o)

(* The words of a line, as stringstream >> splits it. *)
Whitespace == (9..13) \cup {SPACE}
Words(s) ==
  LET words[k \in 0..Len(s)] ==     \* of the first k characters
        IF k = 0 THEN <<>>
        ELSE LET before == words[k - 1] IN
             IF s[k] \in Whitespace THEN before
             ELSE IF k = 1 \/ s[k - 1] \in Whitespace THEN Append(before, <<s[k]>>)
             ELSE [before EXCEPT ![Len(before)] = Append(@, s[k])]
  IN  words[Len(s)]

compareWords(a, b) == Words(a) = Words(b)

(* fcmp and lcmp: the loop over the answer's lines, same(j, p) comparing two. *)
LineLoop(j, p, same) ==
  IF eof(ans) THEN quitf(_ok, ans, ouf)
  ELSE IF j.quit = NoQuit /\ j.val = <<>> /\ eof(j.in) THEN quitf(_ok, j.in, ouf)
  ELSE Compare(j, p, WaUnless(same))

fcmp ==
  LET j == readString(ans)
      p == readString(ouf)
  IN  In("fcmp") /\ LineLoop(j, p, j.val = p.val)
lcmp ==
  LET j == readString(ans)
      p == readString(ouf)
  IN  In("lcmp") /\ LineLoop(j, p, compareWords(j.val, p.val))

-----------------------------------------------------------------------------
(* rcmp4, rcmp6 and rcmp9 differ in EPS. *)
RealLoop(epsInv) ==
  LET a == seekEof(ans)
      j == readReal(a)
      p == readReal(ouf)
  IN  IF eof(a) THEN quitf(_ok, a, ouf)
      ELSE Compare(j, p, WaUnless(doubleCompare(j.val, p.val, epsInv)))
rcmp4 == In("rcmp4") /\ RealLoop(Eps4Inv)
rcmp6 == In("rcmp6") /\ RealLoop(Eps6Inv)
rcmp9 == In("rcmp9") /\ RealLoop(Eps9Inv)

-----------------------------------------------------------------------------
(* pnum, the pattern 0|-?[1-9][0-9]* *)
pnum == Compile(<<48, 124, 45, 63, 91, 49, 45, 57, 93, 91, 48, 45, 57, 93, 42>>)
isNumeric(p) == matches(pnum, p)

hcmp ==
  LET ja == readWordTo(ans)
      pa == readWordTo(ouf)
      rest == seekEof(ja.in)
      result == IF ~isNumeric(ja.val) \/ ~eof(rest) THEN _fail
                ELSE IF ~isNumeric(pa.val) THEN _pe
                ELSE IF ja.val # pa.val THEN _wa ELSE _ok
  IN  In("hcmp") /\ Compare(ja, pa, result)

(* The common part of yesno and nyesno, after upperCase. *)
YesNo(ja, pa) ==
  IF ja \notin {YES, NO} THEN _fail
  ELSE IF pa \notin {YES, NO} THEN _pe
  ELSE WaUnless(ja = pa)

yesno ==
  LET ja == readWordTo(ans)
      pa == readWordTo(ouf)
      verdict == YesNo(upperCase(ja.val), upperCase(pa.val))
  IN  In("yesno") /\ Compare(ja, pa, IF verdict = NoQuit THEN _ok ELSE verdict)

-----------------------------------------------------------------------------
(* ncmp and nyesno: a loop over both files, then the extra elements of each.  *)
BothLoop(a, o, j, p, result) ==
  IF ~eof(a) /\ ~eof(o) THEN Compare(j, p, result)
  ELSE Goto("extraInAns", a, IF eof(a) THEN ouf ELSE o) /\ UNCHANGED locals

ncmp ==
  LET a == seekEof(ans)
      o == seekEof(ouf)
      j == readLong(a)
      p == readLong(o)
  IN  In("ncmp") /\ BothLoop(a, o, j, p, WaUnless(j.val = p.val))

nyesno ==
  LET a == seekEof(ans)
      o == seekEof(ouf)
      ja == readWordTo(a)
      pa == readWordTo(o)
  IN  In("nyesno") /\ BothLoop(a, o, ja, pa, YesNo(upperCase(ja.val), upperCase(pa.val)))

Element(in) == IF checker = "ncmp" THEN readLong(in) ELSE readWordTo(in)

ExtraInAns ==
  LET a == seekEof(ans)
      r == Element(a)
  IN  /\ pc = "extraInAns"
      /\ IF eof(a) THEN Goto("extraInOuf", a, ouf) /\ UNCHANGED locals
         ELSE IF r.quit # NoQuit THEN Quit("_answer", r.quit, r.in, ouf)
         ELSE /\ extraInAns' = extraInAns + 1
              /\ Goto("extraInAns", r.in, ouf) /\ UNCHANGED <<expected, found, extraInOuf>>

ExtraInOuf ==
  LET o == seekEof(ouf)
      r == Element(o)
  IN  /\ pc = "extraInOuf"
      /\ IF eof(o) THEN quitf(IF extraInAns > 0 \/ extraInOuf > 0 THEN _wa ELSE _ok, ans, o)
         ELSE IF r.quit # NoQuit THEN Quit("_output", r.quit, ans, r.in)
         ELSE /\ extraInOuf' = extraInOuf + 1
              /\ Goto("extraInOuf", ans, r.in) /\ UNCHANGED <<expected, found, extraInAns>>

-----------------------------------------------------------------------------
(* default.cpp *)
hasUtf8Bom(s) == Len(s) >= 3 /\ SubSeq(s, 1, 3) = utf8Bom

normalizeLine(line, isFirstLine) ==
  DropLast(IF isFirstLine /\ hasUtf8Bom(line) THEN DropFirst(line, 3) ELSE line,
           {SPACE, TAB, CR, 11, 12})

(* One iteration of readNormalizedLines: the lines after it, and more is FALSE *)
(* when the loop has ended and the empty lines at the end are popped.           *)
NormalizedLines(in, lines) ==
  LET r == readString(in)
      over == eof(in) \/ (r.val = <<>> /\ eof(r.in))
  IN  [more |-> ~over,
       in |-> IF eof(in) THEN in ELSE r.in,
       lines |-> IF over THEN DropLast(lines, {<<>>})
                 ELSE Append(lines, normalizeLine(r.val, lines = <<>>))]

defaultAns ==
  LET step == NormalizedLines(ans, expected)
  IN  /\ In("default")
      /\ Goto(IF step.more THEN "main" ELSE "oufLines", step.in, ouf)
      /\ expected' = step.lines /\ UNCHANGED <<found, extraInAns, extraInOuf>>

defaultOuf ==
  LET step == NormalizedLines(ouf, found)
  IN  /\ pc = "oufLines"
      /\ Goto(IF step.more THEN "oufLines" ELSE "lines", ans, step.in)
      /\ found' = step.lines /\ UNCHANGED <<expected, extraInAns, extraInOuf>>

defaultVerdict ==
  /\ pc = "lines"
  /\ quitf(IF expected = found THEN _ok ELSE _wa, ans, ouf)

-----------------------------------------------------------------------------
(* The process is gone. *)
Exited == pc = "exited" /\ UNCHANGED vars

Next == \/ registerTestlibCmd
        \/ wcmp \/ fcmp \/ lcmp \/ rcmp4 \/ rcmp6 \/ rcmp9 \/ hcmp \/ yesno \/ ncmp \/ nyesno
        \/ ExtraInAns \/ ExtraInOuf
        \/ defaultAns \/ defaultOuf \/ defaultVerdict
        \/ Exited
=============================================================================
