----------------------------- MODULE FileReader -----------------------------
(***************************************************************************)
(* FileInputStreamReader of testlib.h, the unbuffered reader behind stdin   *)
(* (the participant's stream of an interactor, the input of a validator):   *)
(* ::getc with a stack of characters put back.  It also keeps, for the      *)
(* validator's markup, every character read and the test cases' places      *)
(* among them.                                                              *)
(*                                                                         *)
(* curChar, nextChar and eof ask feof(file) before they look at the stack.  *)
(* Whether the caller puts a character back once ::getc has met the end of  *)
(* the file is the constant BackFromEof: InStream::eoln does, on a lone CR  *)
(* at the end.                                                              *)
(***************************************************************************)
EXTENDS TestlibChars

CONSTANTS Files, BackFromEof,
          MaxTaken, MaxUndo, MaxTestCase  \* bounds: the caller's stack, undoChars, test cases

FileReaderAssumption ==
  BackFromEof \in BOOLEAN /\ MaxTaken \in Nat /\ MaxUndo \in Nat /\ MaxTestCase \in Nat

EOF == -1               \* what ::getc returns at the end

VARIABLES
  file,                 \* the bytes of the stream
  r,                    \* the reader: [off, feof, undo, read, undoRead, line]
  taken, last,          \* the caller's side, as in CharStream
  testCase,             \* setTestCase's last argument
  floor                 \* how many characters had been taken then

vars == <<file, r, taken, last, testCase, floor>>

Top(s) == s[Len(s)]
Pop(s) == SubSeq(s, 1, Len(s) - 1)

Init == /\ file \in Files
        /\ r = [off |-> 0, feof |-> FALSE, undo |-> <<>>, read |-> <<>>,
                undoRead |-> <<>>, line |-> 1]
        /\ taken = <<>> /\ last = [op |-> "open", c |-> 0]
        /\ testCase = 0 /\ floor = 0

-----------------------------------------------------------------------------

(* The line++ of getc and the line-- of ungetc. *)
LineStep(c) == IF c = LF THEN 1 ELSE 0

(* getc(file): [c, r], from the stack if it is not empty, else from the file. *)
getc(q) ==
  LET atEnd == q.off = Len(file)
      c == IF q.undo # <<>> THEN Top(q.undo) ELSE IF atEnd THEN EOF ELSE file[q.off + 1]
      rc == IF q.undo # <<>> THEN Top(q.undoRead) ELSE c
      popped == IF q.undo # <<>>
                  THEN [q EXCEPT !.undo = Pop(@), !.undoRead = Pop(@)]
                  ELSE [q EXCEPT !.off = IF atEnd THEN @ ELSE @ + 1, !.feof = @ \/ atEnd]
  IN  [c |-> c, r |-> [popped EXCEPT !.read = Append(@, rc), !.line = @ + LineStep(c)]]

(* ungetc's move of the last entry of readChars to undoReadChars. *)
UnreadMarks(q) == 
  IF q.read = <<>> THEN q ELSE [q EXCEPT !.undoRead = Append(@, Top(q.read)), !.read = Pop(@)]

ungetc(q, c) == [UnreadMarks(q) EXCEPT !.undo = Append(@, c), !.line = @ - LineStep(c)]

postprocessGetc(c) == IF c = EOF THEN EOFC ELSE c

Answer(op, c) == last' = [op |-> op, c |-> c]

curChar ==
  /\ IF r.feof
       THEN Answer("curChar", EOFC) /\ UNCHANGED r
       ELSE LET g == getc(r) IN
              Answer("curChar", postprocessGetc(g.c)) /\ r' = ungetc(g.r, g.c)
  /\ UNCHANGED <<file, taken, testCase, floor>>

nextChar ==
  LET g == IF r.feof THEN [c |-> EOF, r |-> r] ELSE getc(r)
      c == postprocessGetc(g.c) IN
  /\ Len(taken) < MaxTaken
  /\ r' = g.r
  /\ taken' = Append(taken, c)
  /\ Answer("nextChar", c)
  /\ UNCHANGED <<file, testCase, floor>>

skipChar ==
  /\ last.op = "curChar" /\ last.c # EOFC
  /\ r' = getc(r).r
  /\ taken' = Append(taken, last.c)
  /\ Answer("skipChar", 0)
  /\ UNCHANGED <<file, testCase, floor>>

unreadChar ==
  /\ Len(taken) > floor /\ Len(r.undo) < MaxUndo
  /\ (Top(taken) # EOFC /\ r.feof) => BackFromEof
  /\ r' = ungetc(r, Top(taken))
  /\ Answer("unreadChar", Top(taken))
  /\ taken' = Pop(taken)
  /\ UNCHANGED <<file, testCase, floor>>

(* eof(): a nextChar, put back unless it was the end. *)
AfterEof(g) == IF postprocessGetc(g.c) = EOFC THEN g.r ELSE ungetc(g.r, g.c)
eof ==
  LET g == IF r.feof THEN [c |-> EOF, r |-> r] ELSE getc(r) IN
  /\ r' = AfterEof(g)
  /\ Answer("eof", IF postprocessGetc(g.c) = EOFC THEN 1 ELSE 0)
  /\ UNCHANGED <<file, taken, testCase, floor>>

(* setTestCase(testCase), by a validator between two reads: what was taken    *)
(* before it is not put back after it.                                         *)
setTestCase ==
  /\ testCase < MaxTestCase
  /\ testCase' = testCase + 1
  /\ floor' = Len(taken)
  /\ r' = [r EXCEPT !.read = Append(@, testCase + 1 + 256)]
  /\ UNCHANGED <<file, taken, last>>

Next == curChar \/ nextChar \/ skipChar \/ unreadChar \/ eof \/ setTestCase
Spec == Init /\ [][Next]_vars

-----------------------------------------------------------------------------
(* The types of the reader's and the caller's variables. *)
TypeOK == /\ r.off \in 0..Len(file)
          /\ r.feof \in BOOLEAN
          /\ ~r.feof => Len(r.undo) = Len(r.undoRead)
          /\ r.line \in Nat \ {0}
          /\ taken \in Seq(0..EOFC)

(* The characters the caller will still read: what was put back, last first, *)
(* and the rest of the file, but nothing once feof is set.                    *)
PutBack == [i \in 1..Len(r.undo) |-> r.undo[Len(r.undo) + 1 - i]]
Rest == IF r.feof THEN <<>> ELSE PutBack \o SubSeq(file, r.off + 1, Len(file))

(* The elements of s that are in C, in order. *)
Kept(s, C) ==
  LET kept[k \in 0..Len(s)] ==
        IF k = 0 THEN <<>>
        ELSE IF s[k] \in C THEN Append(kept[k - 1], s[k]) ELSE kept[k - 1]
  IN  kept[Len(s)]

(* readChars, from which the validator writes the test's markup, holds the  *)
(* characters consumed and not put back, in order, whatever was looked at,  *)
(* put back and read again, and wherever test cases were marked.  (Once the *)
(* end was met, an EOFC put back takes the last character with it.)           *)
MarkupIsFaithful == ~r.feof => Kept(r.read, 0..EOFC) = taken
=============================================================================
