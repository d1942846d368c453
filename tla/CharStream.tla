----------------------------- MODULE CharStream -----------------------------
(***************************************************************************)
(* What InStream expects of an InputStreamReader, whatever buffers it       *)
(* keeps: the characters not yet consumed, in order, and EOFC for ever      *)
(* after.  A character that is put back is the next one read.               *)
(*                                                                         *)
(* The caller's side is InStream's use of the interface: it puts back only  *)
(* what it has taken, last taken first, and skips only a character it has   *)
(* just looked at and found not to be the end.                              *)
(***************************************************************************)
EXTENDS TestlibChars

CONSTANT Files          \* the possible contents of the file
VARIABLES
  rest,                 \* the characters not yet consumed
  line,                 \* getLine()
  taken,                \* the caller's: what it has taken, last taken last
  last                  \* the last call and what it returned

streamVars == <<rest, line, taken, last>>

Here == IF rest = <<>> THEN EOFC ELSE rest[1]
LineStep(c) == IF c = LF THEN 1 ELSE 0

Init == /\ rest \in Files
        /\ line = 1
        /\ taken = <<>>
        /\ last = [op |-> "open", c |-> 0]

Consume == IF rest = <<>>
             THEN UNCHANGED <<rest, line>>
             ELSE rest' = DropFirst(rest, 1) /\ line' = line + LineStep(Here)

CurChar == /\ last' = [op |-> "curChar", c |-> Here]
           /\ UNCHANGED <<rest, line, taken>>

NextChar == /\ Consume
            /\ taken' = Append(taken, Here)
            /\ last' = [op |-> "nextChar", c |-> Here]

SkipChar == /\ last.op = "curChar" /\ last.c # EOFC
            /\ Consume
            /\ taken' = Append(taken, last.c)
            /\ last' = [op |-> "skipChar", c |-> 0]

UnreadChar == 
  /\ taken # <<>>
  /\ LET c == taken[Len(taken)] IN
       /\ rest' = IF c = EOFC THEN rest ELSE <<c>> \o rest
       /\ line' = line - LineStep(c)
       /\ last' = [op |-> "unreadChar", c |-> c]
  /\ taken' = SubSeq(taken, 1, Len(taken) - 1)

Eof == /\ last' = [op |-> "eof", c |-> IF rest = <<>> THEN 1 ELSE 0]
       /\ UNCHANGED <<rest, line, taken>>

Next == CurChar \/ NextChar \/ SkipChar \/ UnreadChar \/ Eof
Spec == Init /\ [][Next]_streamVars
=============================================================================
