------------------------------ MODULE InStream ------------------------------
(***************************************************************************)
(* InStream of testlib.h: the reading operations of a checker, validator or *)
(* interactor, over a CharStream (which the readers are shown to be).  A    *)
(* stream is a record                                                       *)
(*   [mode, strict, open, rest]                                             *)
(* with open FALSE where reader is NULL.  An operation answers              *)
(*   [quit, in, val]:                                                       *)
(* the stream after it, its value, and the TResult it calls quit with, or   *)
(* NoQuit.  Line numbers and names only go into messages and are left out.  *)
(***************************************************************************)
EXTENDS TestlibNumbers

CONSTANTS MaxTokenLength, MaxFileSize   \* maxTokenLength and maxFileSize

ASSUME InStreamAssumption == MaxTokenLength \in Nat /\ MaxFileSize \in Nat

(* TResult; _pc(k) is _partially + k. *)
_ok == 0
_wa == 1
_pe == 2
_fail == 3
_dirt == 4
_points == 5
_unexpected_eof == 8
_partially == 16
NoQuit == -1

Ret(in, v) == [quit |-> NoQuit, in |-> in, val |-> v]
Quits(in, result) == [quit |-> result, in |-> in, val |-> <<>>]

Cur(in) == IF in.rest = <<>> THEN EOFC ELSE in.rest[1]
Skip(in, k) == [in EXCEPT !.rest = DropFirst(@, k)]

-----------------------------------------------------------------------------
(* Opening: init(fileName, mode) and the reset() it ends with.  A missing    *)
(* input file leaves the stream closed.                                       *)
init(f, mode) ==
  LET closed == [mode |-> mode, strict |-> FALSE, open |-> FALSE, rest |-> <<>>] IN
  CASE f.exists /\ Len(f.bytes) > MaxFileSize -> Quits(closed, _pe)
    [] f.exists /\ Len(f.bytes) <= MaxFileSize ->
         Ret([closed EXCEPT !.open = TRUE, !.rest = f.bytes], <<>>)
    [] ~f.exists /\ mode = "_output" -> Quits(closed, _pe)
    [] ~f.exists /\ mode = "_answer" -> Quits(closed, _fail)
    [] ~f.exists /\ mode = "_input" -> Ret(closed, <<>>)

utf8Bom == <<239 - 256, 187 - 256, 191 - 256>>

(* A partial match is put back. *)
skipBom(in) == IF SubSeq(in.rest, 1, Min({3, Len(in.rest)})) = utf8Bom THEN Skip(in, 3) ELSE in

-----------------------------------------------------------------------------
(* Characters. *)
readChar(in) == Ret(IF in.rest = <<>> THEN in ELSE Skip(in, 1), ToChar(Cur(in)))

readCharOf(in, c) == LET r == readChar(in) IN IF r.val = c THEN r ELSE Quits(r.in, _pe)
readSpace(in) == readCharOf(in, SPACE)

skipBlanks(in) == Skip(in, SpanLen(in.rest, Blanks))

eof(in) == (~in.strict /\ ~in.open) \/ in.rest = <<>>

(* seekEof(): its value is eof() of the stream it leaves. *)
seekEof(in) == IF ~in.strict /\ ~in.open THEN in ELSE skipBlanks(in)

-----------------------------------------------------------------------------
(* Mutant: a CR that no LF follows is taken as a line end. *)
MutantEolnLength(in) == IF Cur(in) \in {CR, LF} THEN 1 ELSE 0

(* How many characters make up the line end at the position, 0 for none. *)
EolnLength(in) ==
  IF in.strict THEN IF Cur(in) = LF THEN 1 ELSE 0
  ELSE CASE Cur(in) = LF -> 1
         [] Cur(in) = CR /\ Cur(Skip(in, 1)) = LF -> 2
         [] OTHER -> 0

(* eoln(): outside the strict mode the end of the file is a line end too. *)
eoln(in) ==
  Ret(Skip(in, EolnLength(in)),
      \/ EolnLength(in) > 0
      \/ ~in.strict /\ Cur(in) = EOFC)

readEoln(in) == LET r == eoln(in) IN IF r.val THEN r ELSE Quits(r.in, _pe)
readEof(in) == IF eof(in) THEN Ret(in, <<>>) ELSE Quits(in, _pe)
seekEoln(in) == IF ~in.strict /\ ~in.open THEN Ret(in, TRUE)
                ELSE eoln(Skip(in, SpanLen(in.rest, {SPACE, TAB})))

-----------------------------------------------------------------------------
WordStart(in) == IF in.strict THEN in ELSE skipBlanks(in)

(* Tokens: readWordTo, the core of every other read of a token. *)
readWordTo(in) ==
  LET at == WordStart(in)
      n == SpanNotLen(at.rest, Blanks)
  IN  CASE at.rest = <<>> -> Quits(at, _unexpected_eof)
        [] at.rest # <<>> /\ n = 0 -> Quits(at, _pe)
        [] n > MaxTokenLength -> Quits(Skip(at, MaxTokenLength + 1), _pe)
        [] n \in 1..MaxTokenLength -> Ret(Skip(at, n), SubSeq(at.rest, 1, n))

(* readWord(pattern), with the texts the pattern matches: another token is a  *)
(* wrong answer.                                                               *)
Matching(r, texts) == IF r.quit = NoQuit /\ r.val \notin texts THEN Quits(r.in, _wa) ELSE r
readWord(in, texts) == Matching(readWordTo(in), texts)

(* A token converted to a number, c being the conversion's answer. *)
Converted(r, c) == IF r.quit # NoQuit THEN r
                   ELSE IF c.ok THEN Ret(r.in, c.v) ELSE Quits(r.in, _pe)

(* readInteger, readLong, ... first look for the end, outside the strict mode. *)
NumberToken(in) ==
  LET at == IF in.strict THEN in ELSE seekEof(in)
  IN  IF ~in.strict /\ eof(at) THEN Quits(at, _unexpected_eof) ELSE readWordTo(at)

readLong(in) == LET r == NumberToken(in) IN Converted(r, stringToLongLong(r.val))
readUnsignedLong(in) == LET r == NumberToken(in) IN Converted(r, stringToUnsignedLongLong(r.val))
readReal(in) == LET r == NumberToken(in) IN Converted(r, stringToDouble(r.val))
readInteger(in) ==
  LET r == readLong(in)
  IN  IF r.quit = NoQuit /\ r.val \notin INT_MIN..INT_MAX THEN Quits(r.in, _pe) ELSE r

(* The range check of readInt(minv, maxv), readLong(minv, maxv), ... *)
InRange(r, minv, maxv) ==
  IF r.quit = NoQuit /\ ~(r.val \in minv..maxv) THEN Quits(r.in, _wa) ELSE r
readIntIn(in, minv, maxv) == InRange(readInteger(in), minv, maxv)
readLongIn(in, minv, maxv) == InRange(readLong(in), minv, maxv)
readUnsignedLongIn(in, minv, maxv) == InRange(readUnsignedLong(in), minv, maxv)

(* The same for doubles, minv and maxv in units. *)
InRealRange(r, minv, maxv) ==
  IF r.quit # NoQuit THEN r
  ELSE IF r.val.kind = "inf" \/ r.val.u \notin minv..maxv THEN Quits(r.in, _wa) ELSE r
readRealIn(in, minv, maxv) == InRealRange(readReal(in), minv, maxv)
readStrictReal(in, minv, maxv, minAfter, maxAfter) ==
  LET r == NumberToken(in)
  IN  InRealRange(Converted(r, stringToStrictDouble(r.val, minAfter, maxAfter)), minv, maxv)

-----------------------------------------------------------------------------
(* Lines: the loop of readStringTo from position i of the text s.  A CR that  *)
(* no LF follows is dropped and the character after it is taken unseen: at    *)
(* the end of the file that is EOFC, appended as char(EOFC).                   *)
LineFrom(s, i) ==
  LET At(j) == IF j > Len(s) THEN EOFC ELSE s[j]
      body[j \in i..(Len(s) + 2)] ==
        CASE At(j) \in {LF, EOFC} \/ (At(j) = CR /\ At(j + 1) = LF) ->
               [text |-> <<>>, next |-> Min({j, Len(s) + 1})]
          [] At(j) = CR /\ At(j + 1) # LF ->
               [body[j + 2] EXCEPT !.text = <<ToChar(At(j + 1))>> \o @]
          [] OTHER -> [body[j + 1] EXCEPT !.text = <<At(j)>> \o @]
  IN  body[i]

readString(in) ==
  LET l == LineFrom(in.rest, 1)
      at == Skip(in, l.next - 1)
      end == IF in.strict THEN readEoln(at) ELSE eoln(at)
  IN  IF ~in.open THEN Quits(in, _pe)
      ELSE IF end.quit # NoQuit THEN end ELSE Ret(end.in, l.text)

readStringOf(in, texts) == Matching(readString(in), texts)

(* nextLine(): a line read and thrown away. *)
nextLine(in) == LET r == readString(in) IN [r EXCEPT !.val = <<>>]

-----------------------------------------------------------------------------
(* __testlib_readMany(readInts, readInt(minv, maxv), int, space): `size'      *)
(* numbers, in the strict mode with exactly one space between two.             *)
readInts(in, size, minv, maxv) ==
  LET many[i \in 0..size] ==
        IF i = 0 THEN Ret(in, <<>>)
        ELSE LET before == many[i - 1]
                 space == IF in.strict /\ i > 1 THEN readSpace(before.in) ELSE before
                 r == readIntIn(space.in, minv, maxv)
             IN  IF before.quit # NoQuit THEN before
                 ELSE IF space.quit # NoQuit THEN space
                 ELSE IF r.quit # NoQuit THEN r
                 ELSE Ret(r.in, Append(before.val, r.val))
  IN  IF size \notin 0..100000000 THEN Quits(in, _fail) ELSE many[size]
=============================================================================
