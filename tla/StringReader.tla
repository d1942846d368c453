---------------------------- MODULE StringReader ----------------------------
(***************************************************************************)
(* StringInputStreamReader of testlib.h, the reader of an InStream made     *)
(* from a string: a position that also counts the reads past the end, so    *)
(* that every EOFC taken can be put back.  It counts no lines.              *)
(***************************************************************************)
EXTENDS TestlibChars

CONSTANTS Files,        \* the possible contents
          MaxTaken      \* bound: characters taken and not put back

VARIABLES s, pos, taken, last, failed
vars == <<s, pos, taken, last, failed>>

Init == /\ s \in Files /\ pos = 0
        /\ taken = <<>> /\ last = [op |-> "open", c |-> 0] /\ failed = FALSE

Here == IF pos >= Len(s) THEN EOFC ELSE s[pos + 1]
Advance == pos + 1
Written(c) == IF pos \in 1..Len(s) THEN [s EXCEPT ![pos] = ToChar(c)] ELSE s
Answer(op, c) == last' = [op |-> op, c |-> c]

curChar == /\ Answer("curChar", Here)
           /\ UNCHANGED <<s, pos, taken, failed>>

nextChar == /\ Len(taken) < MaxTaken
            /\ Answer("nextChar", Here)
            /\ taken' = Append(taken, Here)
            /\ pos' = Advance
            /\ UNCHANGED <<s, failed>>

skipChar == /\ last.op = "curChar" /\ last.c # EOFC
            /\ Answer("skipChar", 0)
            /\ taken' = Append(taken, last.c)
            /\ pos' = pos + 1
            /\ UNCHANGED <<s, failed>>

unreadChar ==
  /\ taken # <<>>
  /\ LET c == taken[Len(taken)] IN
       /\ Answer("unreadChar", c)
       /\ failed' = (pos = 0)
       /\ pos' = IF pos = 0 THEN pos ELSE pos - 1
       /\ s' = Written(c)
  /\ taken' = SubSeq(taken, 1, Len(taken) - 1)

eof == /\ Answer("eof", IF pos >= Len(s) THEN 1 ELSE 0)
       /\ UNCHANGED <<s, pos, taken, failed>>

Next == ~failed /\ (curChar \/ nextChar \/ skipChar \/ unreadChar \/ eof)
Spec == Init /\ [][Next]_vars

-----------------------------------------------------------------------------
(* The characters the caller will still read. *)
Rest == DropFirst(s, pos)

(* The position is exactly what the caller holds: unreadChar's "pos == 0"     *)
(* failure cannot meet a caller that puts back only what it took.             *)
PositionIsTaken == pos = Len(taken) /\ ~failed
=============================================================================
