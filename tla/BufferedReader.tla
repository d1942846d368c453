--------------------------- MODULE BufferedReader ---------------------------
(***************************************************************************)
(* BufferedFileInputStreamReader of testlib.h, the reader behind inf, ouf   *)
(* and ans of a checker: a block buffer whose first MAX_UNREAD_COUNT slots  *)
(* are kept for characters put back across a refill, and one end-of-file    *)
(* mark per slot.                                                           *)
(*                                                                         *)
(* A nextChar at the end of the file does not move bufferPos, but putting   *)
(* its EOFC back does: every such pair uses one slot for good.  `eofPeeks'  *)
(* counts them; the caller makes at most MaxEofPeeks, and has at most       *)
(* MaxUnread characters put back at a time (InStream never has more than 2).*)
(***************************************************************************)
EXTENDS TestlibChars

CONSTANTS Files, BUFFER_SIZE, MAX_UNREAD_COUNT, MaxUnread, MaxEofPeeks,
          MaxTaken      \* bound: characters taken and not put back

ASSUME BufferAssumption ==
  /\ BUFFER_SIZE \in Nat /\ MAX_UNREAD_COUNT \in Nat
  /\ MAX_UNREAD_COUNT < BUFFER_SIZE
  /\ MaxUnread \in Nat /\ MaxEofPeeks \in Nat
  /\ MaxUnread + MaxEofPeeks <= MAX_UNREAD_COUNT

VARIABLES
  file, fetched,        \* the file's bytes and how many fread has delivered
  buffer, isEof, bufferPos, bufferSize, line,
  taken, last,          \* the caller's side, as in CharStream
  putBack, eofPeeks,    \* characters put back and not read again; EOFC put back
  failed                \* __testlib_fail was called: the process is exiting

readerVars == <<file, fetched, buffer, isEof, bufferPos, bufferSize, line>>
callerVars == <<taken, last, putBack, eofPeeks, failed>>
vars == <<readerVars, callerVars>>

Slots == 0..(BUFFER_SIZE - 1)
Garbage == -2           \* the contents of memory never written

Init == /\ file \in Files /\ fetched = 0
        /\ buffer = [i \in Slots |-> Garbage]
        /\ isEof \in [Slots -> BOOLEAN]     \* new bool[]: not initialised
        /\ bufferSize = MAX_UNREAD_COUNT
        /\ bufferPos = MAX_UNREAD_COUNT
        /\ line = 1
        /\ taken = <<>> /\ last = [op |-> "open", c |-> 0]
        /\ putBack = 0 /\ eofPeeks = 0 /\ failed = FALSE

-----------------------------------------------------------------------------
(* Mutants: the marks are not cleared; no room is left before the data. *)
MutantMark(i, fresh) == isEof[i]
MutantRefillPos == 0

(* memset(isEof + MAX_UNREAD_COUNT, 0, readSize): the mark of slot i after it. *)
MarkAfter(i, fresh) == i \notin fresh /\ isEof[i]

(* Where fread puts the data and reading resumes. *)
RefillPos == MAX_UNREAD_COUNT

(* refill(): the buffer's state after it, from the state before it. *)
refill ==
  LET readSize == Min({BUFFER_SIZE - MAX_UNREAD_COUNT, Len(file) - fetched})
      fresh == RefillPos..(RefillPos + readSize - 1)
  IN  IF bufferPos < bufferSize
        THEN [ok |-> TRUE, buf |-> buffer, eof |-> isEof, pos |-> bufferPos,
              size |-> bufferSize, got |-> fetched]
        ELSE [ok |-> readSize > 0,
              buf |-> [i \in Slots |-> IF i \in fresh THEN file[fetched + i - RefillPos + 1]
                                                     ELSE buffer[i]],
              eof |-> [i \in Slots |-> MarkAfter(i, fresh)],
              pos |-> RefillPos,
              size |-> RefillPos + readSize,
              got |-> fetched + readSize]

(* The character a refilled buffer b answers with, the `isEof[pos] ? EOFC : buffer[pos]'. *)
CharAt(b) == IF ~b.ok \/ b.eof[b.pos] THEN EOFC ELSE b.buf[b.pos]

(* Keep the refilled buffer b, its position moved to p. *)
Install(b, p) == /\ buffer' = b.buf /\ isEof' = b.eof
                 /\ bufferSize' = b.size /\ fetched' = b.got
                 /\ bufferPos' = p
                 /\ UNCHANGED file

Answer(op, c) == last' = [op |-> op, c |-> c]

(* increment()'s line++ and unreadChar's line--. *)
LineStep(c) == IF c = LF THEN 1 ELSE 0
LineBack(c) == IF c = LF THEN 1 ELSE 0

(* How far nextChar moves: not at all at the end of the file. *)
Advance(c) == IF c = EOFC THEN 0 ELSE 1

(* The caller's count of characters put back, once it reads one again. *)
Read == putBack' = IF putBack > 0 THEN putBack - 1 ELSE 0

curChar == LET b == refill IN
  /\ Install(b, b.pos)
  /\ Answer("curChar", CharAt(b))
  /\ UNCHANGED <<line, taken, putBack, eofPeeks, failed>>

(* nextChar(): increment() unless the slot is at the end of the file. *)
nextChar == LET b == refill
                c == CharAt(b) IN
  /\ Len(taken) < MaxTaken
  /\ Install(b, b.pos + Advance(c))
  /\ line' = line + LineStep(c)
  /\ taken' = Append(taken, c)
  /\ Answer("nextChar", c)
  /\ IF c = EOFC THEN UNCHANGED putBack ELSE Read
  /\ UNCHANGED <<eofPeeks, failed>>

(* skipChar(): increment() with no refill and no look at isEof. *)
skipChar ==
  /\ last.op = "curChar" /\ last.c # EOFC
  /\ bufferPos' = bufferPos + 1
  /\ line' = line + LineStep(buffer[bufferPos])
  /\ taken' = Append(taken, last.c)
  /\ Answer("skipChar", 0)
  /\ Read
  /\ UNCHANGED <<file, fetched, buffer, isEof, bufferSize, eofPeeks, failed>>

(* unreadChar(c) of the last character taken. *)
unreadChar ==
  /\ taken # <<>>
  /\ LET c == taken[Len(taken)]
         p == bufferPos - 1 IN
       /\ IF c = EOFC
            THEN eofPeeks < MaxEofPeeks /\ eofPeeks' = eofPeeks + 1 /\ UNCHANGED putBack
            ELSE putBack < MaxUnread /\ putBack' = putBack + 1 /\ UNCHANGED eofPeeks
       /\ bufferPos' = p
       /\ failed' = (p < 0)
       /\ isEof' = IF p < 0 THEN isEof ELSE [isEof EXCEPT ![p] = (c = EOFC)]
       /\ buffer' = IF p < 0 THEN buffer ELSE [buffer EXCEPT ![p] = ToChar(c)]
       /\ line' = IF p < 0 THEN line ELSE line - LineBack(c)
       /\ Answer("unreadChar", c)
  /\ taken' = SubSeq(taken, 1, Len(taken) - 1)
  /\ UNCHANGED <<file, fetched, bufferSize>>

(* eof(): !refill() || EOFC == curChar(). *)
eof == LET b == refill IN
  /\ Install(b, b.pos)
  /\ Answer("eof", IF CharAt(b) = EOFC THEN 1 ELSE 0)
  /\ UNCHANGED <<line, taken, putBack, eofPeeks, failed>>

Next == ~failed /\ (curChar \/ nextChar \/ skipChar \/ unreadChar \/ eof)
Spec == Init /\ [][Next]_vars

-----------------------------------------------------------------------------
(* The types of the reader's and the caller's variables: bufferPos and       *)
(* bufferSize of BufferedFileInputStreamReader stay inside the allocation.   *)
TypeOK == /\ fetched \in 0..Len(file)
          /\ DOMAIN buffer = Slots /\ isEof \in [Slots -> BOOLEAN]
          /\ bufferSize \in 0..BUFFER_SIZE
          /\ bufferPos \in -1..bufferSize
          /\ line \in Nat \ {0}
          /\ failed \in BOOLEAN

(* The characters the buffer still holds: the slots up to the first end mark. *)
Held == LET n == Min({bufferSize} \cup {i \in bufferPos..(bufferSize - 1) : isEof[i]})
        IN  [i \in 1..(n - bufferPos) |-> buffer[bufferPos + i - 1]]

(* The characters the caller will still read: those held and those in the file. *)
Rest == Held \o SubSeq(file, fetched + 1, Len(file))

(* getLine() counts exactly the line feeds consumed and not put back, so the *)
(* line a message of InStream names is the one its token is on.              *)
LineIsExact == ~failed => 
  line = 1 + Cardinality({i \in 1..Len(taken) : taken[i] = LF})

(* unreadChar's "bufferPos < 0" failure needs more than MAX_UNREAD_COUNT     *)
(* put-backs and peeks at the end: it never hits a caller within its bounds. *)
NeverOutOfSlots == ~failed
=============================================================================
