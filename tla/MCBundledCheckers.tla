------------------------- MODULE MCBundledCheckers -------------------------
(***************************************************************************)
(* Every bundled checker on every pair of small files made of a few pieces  *)
(* that matter to it, against what its name says it compares.               *)
(***************************************************************************)
EXTENDS BundledCheckers

CONSTANTS Checkers,     \* the checkers of this run
          MaxPieces,    \* bound: pieces of a file
          LoneCR        \* whether a carriage return may stand without a line feed

MCLongMin == -12
MCIntMin == -1

SP == <<SPACE>>
NL == <<LF>>
CRNL == <<CR, LF>>
yes == <<121, 101, 115>>
letter == <<97>>

Pieces(c) ==
  CASE c \in {"wcmp", "lcmp", "fcmp"} -> {letter, <<98>>, SP, NL, CRNL}
    [] c = "default" -> {letter, SP, NL, CRNL} \cup (IF LoneCR THEN {<<CR>>} ELSE {})
    [] c \in {"yesno", "nyesno"} -> {YES, yes, NO, letter, SP}
    [] c = "hcmp" -> {<<48>>, <<49>>, <<MINUS>>, NL}
    [] c = "ncmp" -> {<<48>>, <<49>>, <<MINUS>>, SP}
    [] c \in {"rcmp4", "rcmp6", "rcmp9"} -> {<<48>>, <<57>>, <<49, 46>>, <<MINUS>>, SP}

Concat(ss) == LET cat[k \in 0..Len(ss)] == IF k = 0 THEN <<>> ELSE cat[k - 1] \o ss[k]
              IN  cat[Len(ss)]
(* rcmp4 and rcmp9 are rcmp6 with another bound: two pieces tell them apart. *)
PiecesOf(c) == IF c \in {"rcmp4", "rcmp9"} THEN Min({2, MaxPieces}) ELSE MaxPieces
Texts(c) == {Concat(ss) : ss \in UNION {[1..n -> Pieces(c)] : n \in 0..PiecesOf(c)}}

(* A file that is there, one that is not, and one that starts with a BOM. *)
File(text) == [exists |-> TRUE, bytes |-> text]
NoFile == [exists |-> FALSE, bytes |-> <<>>]
Staged(c) == {File(t) : t \in Texts(c)} \cup {NoFile, File(utf8Bom \o letter), File(utf8Bom)}

Init == \E c \in Checkers : \E a, o \in Staged(c) : Starts(c, [ans |-> a, out |-> o])
Spec == Init /\ [][Next]_vars

-----------------------------------------------------------------------------
(* The reference: what the two files say.                                     *)
Answer == files.ans.bytes
Output == LET s == files.out.bytes IN IF hasUtf8Bom(s) THEN DropFirst(s, 3) ELSE s

(* What stands between the characters of C. *)
Split(s, C) ==
  LET cuts == {0, Len(s) + 1} \cup {i \in 1..Len(s) : s[i] \in C}
      pieces[i \in cuts] ==
        IF i = 0 THEN <<>>
        ELSE LET from == Max({j \in cuts : j < i})
             IN  Append(pieces[from], SubSeq(s, from + 1, i - 1))
  IN  pieces[Len(s) + 1]

TokensOf(s) == SelectSeq(Split(s, Blanks), LAMBDA t : t # <<>>)

(* The lines of a text, without the CR that stands before a line feed. *)
LinesOf(s) ==
  LET crlf == {i \in 1..(Len(s) - 1) : s[i] = CR /\ s[i + 1] = LF}
      unix[i \in 0..Len(s)] == IF i = 0 THEN <<>>
                               ELSE IF i \in crlf THEN unix[i - 1] ELSE Append(unix[i - 1], s[i])
  IN  Split(unix[Len(s)], {LF})

Butlast(s) == SubSeq(s, 1, Len(s) - 1)
(* What fcmp and lcmp compare of the answer: the piece after the last line    *)
(* feed is no line if it is empty, nor is one empty line before it.            *)
AnswerLines(s) ==
  LET l == LinesOf(s)
      m == IF l[Len(l)] = <<>> THEN Butlast(l) ELSE l
  IN  IF m # <<>> /\ l[Len(l)] = <<>> /\ m[Len(m)] = <<>> THEN Butlast(m) ELSE m

LinesAgree(a, o, bywords) ==
  LET la == AnswerLines(a)
      lo == LinesOf(o)
      outLine(i) == IF i <= Len(lo) THEN lo[i] ELSE <<>>
  IN  /\ \A i \in 1..Len(la) : IF bywords THEN TokensOf(la[i]) = TokensOf(outLine(i))
                                          ELSE la[i] = outLine(i)
      /\ \A i \in (Len(la) + 1)..Len(lo) : TokensOf(lo[i]) = <<>>

(* The lines without trailing blanks and the file without trailing empty lines. *)
Normalized(s) ==
  LET bare == IF hasUtf8Bom(s) THEN DropFirst(s, 3) ELSE s
      l == LinesOf(bare)
  IN  DropLast([i \in 1..Len(l) |-> DropLast(l[i], {SPACE, TAB, CR})], {<<>>})

Every(ts, P(_)) == \A i \in 1..Len(ts) : P(ts[i])
Short(t) == Len(t) <= MaxTokenLength
IsLong(t) == Short(t) /\ stringToLongLong(t).ok
IsReal(t) == Short(t) /\ stringToDouble(t).ok
IsYesNo(t) == upperCase(t) \in {YES, NO}
IsHuge(t) == Short(t) /\ (t = <<48>> \/ LET d == IF FirstIs(t, {MINUS}) THEN DropFirst(t, 1) ELSE t
                                        IN  AllDigits(d) /\ FirstIs(d, 49..57))

RealsAgree(a, o, epsInv) ==
  /\ Len(a) = Len(o)
  /\ Every(o, IsReal)
  /\ \A i \in 1..Len(a) : DeltaAtMost(stringToDouble(a[i]).v, stringToDouble(o[i]).v, epsInv)

(* The answer file is one the checker can work with. *)
AnswerIsValid ==
  LET a == TokensOf(Answer) IN
  /\ files.ans.exists /\ Len(Answer) <= MaxFileSize
  /\ CASE checker \in {"default", "fcmp", "lcmp"} -> TRUE
       [] checker = "wcmp" -> Every(a, Short)
       [] checker = "ncmp" -> Every(a, IsLong)
       [] checker \in {"rcmp4", "rcmp6", "rcmp9"} -> Every(a, IsReal)
       [] checker = "nyesno" -> Every(a, IsYesNo)
       [] checker = "yesno" -> a # <<>> /\ IsYesNo(a[1])
       [] checker = "hcmp" -> Len(a) = 1 /\ IsHuge(a[1])

Agree ==
  LET a == TokensOf(Answer)
      o == TokensOf(Output)
      upper(ts) == [i \in 1..Len(ts) |-> upperCase(ts[i])]
  IN  CASE checker = "default" -> Normalized(Answer) = Normalized(Output)
        [] checker = "fcmp" -> LinesAgree(Answer, Output, FALSE)
        [] checker = "lcmp" -> LinesAgree(Answer, Output, TRUE)
        [] checker \in {"wcmp", "ncmp", "hcmp"} -> a = o
        [] checker = "nyesno" -> upper(a) = upper(o)
        [] checker = "yesno" -> upper(o) = <<upper(a)[1]>>
        [] checker = "rcmp4" -> RealsAgree(a, o, Eps4Inv)
        [] checker = "rcmp6" -> RealsAgree(a, o, Eps6Inv)
        [] checker = "rcmp9" -> RealsAgree(a, o, Eps9Inv)

OutputIsThere == files.out.exists /\ Len(files.out.bytes) <= MaxFileSize

-----------------------------------------------------------------------------
(* A bundled checker exits with 0 exactly if the files are there and agree in  *)
(* the sense of the checker: no early break of a loop, no leftover of either   *)
(* file and no blank at an end makes a difference it should not.                *)
AcceptsWhatAgrees ==
  pc = "exited" => (exit = OK_EXIT_CODE <=> (OutputIsThere /\ AnswerIsValid /\ Agree))

(* A checker fails, which the engine reports as its own error, only for an      *)
(* answer file that is no valid answer: nothing the participant prints leads    *)
(* there.  A checker that cannot open the output blames the output.             *)
FailureIsTheAnswers == pc = "exited" /\ exit = FAIL_EXIT_CODE => ~AnswerIsValid

(* The participant is told of a wrong format (2) only for an output that is not *)
(* of the form the checker reads: a missing file, a token of another type, or   *)
(* more or fewer of them than the checker reads; never for a wrong value.        *)
FormatErrorIsTheOutputs ==
  LET o == TokensOf(Output)
      rest == DropFirst(LinesOf(Output), Len(AnswerLines(Answer)))
      wellFormed ==
        CASE checker = "default" -> TRUE
          [] checker \in {"fcmp", "lcmp"} -> Every(rest, LAMBDA l : TokensOf(l) = <<>>)
          [] checker = "wcmp" -> Every(o, Short)
          [] checker = "ncmp" -> Every(o, IsLong)
          [] checker \in {"rcmp4", "rcmp6", "rcmp9"} ->
               Every(o, IsReal) /\ Len(o) = Len(TokensOf(Answer))
          [] checker = "nyesno" -> Every(o, IsYesNo)
          [] checker = "yesno" -> Len(o) = 1 /\ IsYesNo(o[1])
          [] checker = "hcmp" -> Len(o) = 1 /\ IsHuge(o[1])
  IN  pc = "exited" /\ exit = PE_EXIT_CODE => ~OutputIsThere \/ ~wellFormed

(* Every checker ends: each iteration of each loop, the first that meets the    *)
(* end of a file included, brings the program closer to its quit.  (With the    *)
(* absence of deadlocks this is termination.)                                    *)
Ahead == Len(ans.rest) + Len(ouf.rest)
Stages == [start |-> 5, main |-> 4, extraInAns |-> 3, oufLines |-> 3, extraInOuf |-> 2, lines |-> 2,
           exited |-> 1]
Advances == \/ Stages[pc'] < Stages[pc]
            \/ Stages[pc'] = Stages[pc] /\ Ahead' < Ahead

(* The name of the default checker: trailing spaces and line endings, in       *)
(* whatever style, do not matter.                                               *)
TrailingIsIgnored ==
  pc = "exited" /\ OutputIsThere /\ AnswerIsValid /\ Normalized(Answer) = Normalized(Output)
    => exit = OK_EXIT_CODE
=============================================================================
