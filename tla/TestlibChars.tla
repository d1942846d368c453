---------------------------- MODULE TestlibChars ----------------------------
(***************************************************************************)
(* The characters of testlib.h and the helpers on strings that the readers *)
(* and the checkers share.  A byte is an integer; strings are sequences of *)
(* bytes.  `char' is signed in the build, so byte 0xFF is -1, while the     *)
(* end-of-file marker EOFC is 255: appending EOFC to a string, char(EOFC),  *)
(* appends the byte -1.                                                     *)
(***************************************************************************)
EXTENDS Integers, Sequences, FiniteSetsExt

LF == 10
CR == 13
TAB == 9
SPACE == 32
EOFC == 255

isEoln(c) == c \in {LF, CR}

Blanks == {LF, CR, SPACE, TAB}
isBlanks(c) == c \in Blanks

(* The conversion char(c) of an int returned by a reader. *)
ToChar(c) == IF c = EOFC THEN -1 ELSE c

(* What the loops `while (i < n && s[i] in C) i++' and their converses count. *)
SpanLen(s, C) == Max({k \in 0..Len(s) : \A i \in 1..k : s[i] \in C})
SpanNotLen(s, C) == Max({k \in 0..Len(s) : \A i \in 1..k : s[i] \notin C})
DropFirst(s, k) == SubSeq(s, k + 1, Len(s))
DropLast(s, C) == 
  SubSeq(s, 1, Min({k \in 0..Len(s) : \A i \in (k + 1)..Len(s) : s[i] \in C}))

trim(s) == DropLast(DropFirst(s, SpanLen(s, Blanks)), Blanks)

Shifted(s, C, d) == [i \in 1..Len(s) |-> IF s[i] \in C THEN s[i] + d ELSE s[i]]
upperCase(s) == Shifted(s, 97..122, -32)
lowerCase(s) == Shifted(s, 65..90, 32)

Digits == 48..57
MINUS == 45
=============================================================================
