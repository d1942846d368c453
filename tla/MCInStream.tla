------------------------------ MODULE MCInStream ------------------------------
(***************************************************************************)
(* A program that reads a text file through InStream, one call after the    *)
(* other, in the strict or in the ordinary mode; and a twin that makes the  *)
(* same calls on the same text with Windows line ends.                      *)
(***************************************************************************)
EXTENDS InStream

CONSTANT MaxText        \* bound: characters of the file

VARIABLES
  file,                 \* the text
  in, twin,             \* the two streams
  got, twinGot,         \* the last call and its answer: [op, quit, val]
  log                   \* everything the calls returned, put together

vars == <<file, in, twin, got, twinGot, log>>

Texts == UNION {[1..n -> {48, 49, SPACE, LF, CR}] : n \in 0..MaxText}

(* The text with CR LF for every LF that does not stand after a CR. *)
Crlf(s) == LET conv[k \in 0..Len(s)] ==
                 IF k = 0 THEN <<>>
                 ELSE conv[k - 1] \o (IF s[k] = LF /\ (k = 1 \/ s[k - 1] # CR) THEN <<CR, LF>> ELSE <<s[k]>>)
           IN  conv[Len(s)]

Open(text, strict) == [mode |-> "_output", strict |-> strict, open |-> TRUE, rest |-> text]
Init == /\ file \in Texts
        /\ \E strict \in BOOLEAN : in = Open(file, strict) /\ twin = Open(Crlf(file), strict)
        /\ got = [op |-> "open", quit |-> NoQuit, val |-> <<>>] /\ twinGot = got
        /\ log = <<>>

(* A call that answered r, and the twin's answer t; `text' is what r stands   *)
(* for in the file.                                                            *)
Call(op, r, t, text) ==
  /\ got.quit = NoQuit
  /\ in' = r.in /\ got' = [op |-> op, quit |-> r.quit, val |-> r.val]
  /\ twin' = t.in /\ twinGot' = [op |-> op, quit |-> t.quit, val |-> t.val]
  /\ log' = IF r.quit = NoQuit THEN log \o text ELSE log
  /\ UNCHANGED file

LineEnd == IF in.strict \/ LF \in {in.rest[i] : i \in 1..Len(in.rest)} THEN <<LF>> ELSE <<>>

Word == LET r == readWordTo(in) IN Call("Word", r, readWordTo(twin), r.val)
Line == LET r == readString(in) IN Call("Line", r, readString(twin), r.val \o LineEnd)
NextLine == Call("NextLine", nextLine(in), nextLine(twin), readString(in).val \o LineEnd)
Eoln == LET r == eoln(in)
        IN  Call("Eoln", r, eoln(twin), IF r.val /\ in.rest # <<>> THEN <<LF>> ELSE <<>>)
SeekEoln == ~in.strict /\ Call("SeekEoln", seekEoln(in), seekEoln(twin), <<>>)
ReadEoln == Call("ReadEoln", readEoln(in), readEoln(twin), IF in.rest = <<>> THEN <<>> ELSE <<LF>>)
ReadEof == Call("ReadEof", readEof(in), readEof(twin), <<>>)
SeekEof == ~in.strict /\ Call("SeekEof", Ret(seekEof(in), eof(seekEof(in))),
                              Ret(seekEof(twin), eof(seekEof(twin))), <<>>)
Space == Call("Space", readSpace(in), readSpace(twin), <<SPACE>>)
Digit == Call("Digit", readCharOf(in, 49), readCharOf(twin, 49), <<49>>)

Next == Word \/ Line \/ NextLine \/ Eoln \/ SeekEoln \/ ReadEoln \/ ReadEof \/ SeekEof
          \/ Space \/ Digit
Spec == Init /\ [][Next]_vars

-----------------------------------------------------------------------------
Consumed == SubSeq(file, 1, Len(file) - Len(in.rest))
NoEnd(c) == c # ToChar(EOFC)
Visible(s) == SelectSeq(s, LAMBDA c : ~isBlanks(c) /\ NoEnd(c))
WithoutCR(s) == SelectSeq(s, LAMBDA c : c # CR)

(* In the strict mode nothing is skipped: what the calls returned, with the   *)
(* separators they insisted on, is the consumed text to the byte, except that  *)
(* a line comes without its lone CRs.                                           *)
StrictReadsEverything ==
  in.strict /\ got.quit = NoQuit =>
    /\ WithoutCR(log) = WithoutCR(Consumed)
    /\ WithoutCR(file) = file => log = Consumed

(* Outside the strict mode only blanks are skipped: the visible characters     *)
(* returned are those of the consumed text, in order, none lost or repeated.   *)
(* One more is made up only for a CR that ends the file: char(EOFC).            *)
OnlyBlanksAreSkipped ==
  got.quit = NoQuit =>
    /\ Visible(log) = Visible(Consumed)
    /\ log = SelectSeq(log, NoEnd) \/ file[Len(file)] = CR

(* Outside the strict mode a file with Windows line ends reads exactly as the  *)
(* one with Unix line ends, lone CRs and all: every call returns the same, and *)
(* leaves the two streams at the same place.                                    *)
LineEndsDoNotMatter == ~in.strict =>
  /\ twinGot = got
  /\ got.quit = NoQuit => twin.rest = Crlf(in.rest)

(* Integers in a row: readInts returns its numbers in order exactly if the     *)
(* text is such a row, in the strict mode with single spaces; a number out of  *)
(* range is refused.                                                            *)
IntsAreTheTokens ==
  LET r == readInts(in, 2, 0, 1)
      row(a, b) == <<48 + a, SPACE, 48 + b>>
      isRow(a, b) == /\ Len(in.rest) >= 3 /\ SubSeq(in.rest, 1, 3) = row(a, b)
                     /\ Len(in.rest) = 3 \/ isBlanks(in.rest[4])
  IN  /\ \A a, b \in 0..1 : isRow(a, b) => r.quit = NoQuit /\ r.val = <<a, b>>
      /\ in.strict /\ r.quit = NoQuit => \E a, b \in 0..1 : isRow(a, b)
      /\ r.quit = NoQuit => \A i \in 1..2 : r.val[i] \in 0..1
=============================================================================
