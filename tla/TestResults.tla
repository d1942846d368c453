----------------------------- MODULE TestResults -----------------------------
(***************************************************************************)
(* The scorer's part of testlib.h: test results written one per line, their *)
(* fields separated by semicolons and escaped, and read back by the         *)
(* TestlibScorerGuard.  A verdict's name is a word of one symbol.  Points    *)
(* are thousandths, the resolution of "%.03lf" (FracDigits is 3), or NaN.   *)
(***************************************************************************)
EXTENDS InStream

SEMICOLON == 59
BACKSLASH == 92
SmallN == 110

Verdicts == 0..9                \* SKIPPED .. FAILED
Failed == [ok |-> FALSE]        \* ensuref fails, or stoi throws
Parsed(v) == [ok |-> TRUE, v |-> v]

serializeVerdict(verdict) == <<1000 + verdict>>
deserializeTestResultVerdict(s) ==
  IF Len(s) = 1 /\ s[1] - 1000 \in Verdicts THEN Parsed(s[1] - 1000) ELSE Failed

(* std::to_string and std::stoi, std::stoll. *)
to_string(n) ==
  LET digits[k \in 0..Abs(n)] ==
        IF k < 10 THEN <<48 + k>> ELSE Append(digits[k \div 10], 48 + (k % 10))
  IN  IF n < 0 THEN <<MINUS>> \o digits[-n] ELSE digits[n]
stoi(s) ==
  LET body == IF FirstIs(s, {MINUS}) THEN DropFirst(s, 1) ELSE s
      n == SpanLen(body, Digits)
      v == DecimalValue(SubSeq(body, 1, n))
  IN  IF n = 0 THEN Failed ELSE Parsed(IF FirstIs(s, {MINUS}) THEN -v ELSE v)

serializePoints(points) ==
  LET a == Abs(points.u)
      thousandths == [i \in 1..3 |-> 48 + ((a \div 10^(3 - i)) % 10)]
      sign == IF points.u < 0 THEN <<MINUS>> ELSE <<>>
  IN  IF points.kind = "nan" THEN <<>>
      ELSE sign \o to_string(a \div 1000) \o <<POINT>> \o thousandths
deserializePoints(s) ==
  IF s = <<>> THEN Parsed(NaN)
  ELSE LET d == ScanDouble(s) IN IF d.ok THEN Parsed(d.v) ELSE Failed

-----------------------------------------------------------------------------
(* One character of escapeTestResultString. *)
Escape(c) == CASE c = CR -> <<>>
               [] c = LF -> <<BACKSLASH, SmallN>>
               [] c \in {BACKSLASH, SEMICOLON} -> <<BACKSLASH, c>>
               [] OTHER -> <<c>>

escapeTestResultString(s) ==
  LET out[k \in 0..Len(s)] == IF k = 0 THEN <<>> ELSE out[k - 1] \o Escape(s[k])
  IN  out[Len(s)]

(* The loop, from position i on. *)
unescapeTestResultString(s) ==
  LET from[i \in 1..(Len(s) + 2)] ==
        IF i > Len(s) THEN <<>>
        ELSE IF s[i] = BACKSLASH /\ i < Len(s) /\ s[i + 1] \in {SmallN, SEMICOLON, BACKSLASH}
          THEN <<IF s[i + 1] = SmallN THEN LF ELSE s[i + 1]>> \o from[i + 2]
        ELSE <<s[i]>> \o from[i + 1]
  IN  from[1]

serializeTestResult(tr) ==
  LET sep == <<SEMICOLON>> IN
  to_string(tr.testIndex) \o sep \o
  escapeTestResultString(tr.testset) \o sep \o
  escapeTestResultString(tr.group) \o sep \o
  serializeVerdict(tr.verdict) \o sep \o
  serializePoints(tr.points) \o sep \o
  to_string(tr.timeConsumed) \o sep \o
  to_string(tr.memoryConsumed) \o sep \o
  escapeTestResultString(tr.input) \o sep \o
  escapeTestResultString(tr.output) \o sep \o
  escapeTestResultString(tr.answer) \o sep \o
  to_string(tr.exitCode) \o sep \o
  escapeTestResultString(tr.checkerComment)

Hides(c) == c = BACKSLASH

(* The items of a line: split at the semicolons no backslash hides. *)
Items(s) ==
  LET from[i \in 1..(Len(s) + 2)] ==    \* the items from position i on
        IF i > Len(s) THEN <<<<>>>>
        ELSE IF Hides(s[i])
          THEN LET rest == from[i + 2]
               IN  <<SubSeq(s, i, Min({i + 1, Len(s)})) \o rest[1]>> \o Tail(rest)
        ELSE LET rest == from[i + 1]
             IN  IF s[i] = SEMICOLON THEN <<<<>>>> \o rest
                                     ELSE <<<<s[i]>> \o rest[1]>> \o Tail(rest)
  IN  from[1]

deserializeTestResult(s) ==
  LET it == Items(s)
      numbers == [i \in {1, 6, 7, 11} |-> stoi(it[i])]
      verdict == deserializeTestResultVerdict(it[4])
      points == deserializePoints(it[5])
      text(i) == unescapeTestResultString(it[i])
  IN  IF Len(it) # 12 THEN Failed
      ELSE IF ~verdict.ok \/ ~points.ok \/ \E i \in DOMAIN numbers : ~numbers[i].ok THEN Failed
      ELSE Parsed([testIndex |-> numbers[1].v, testset |-> text(2), group |-> text(3),
                   verdict |-> verdict.v, points |-> points.v,
                   timeConsumed |-> numbers[6].v, memoryConsumed |-> numbers[7].v,
                   input |-> text(8), output |-> text(9), answer |-> text(10),
                   exitCode |-> numbers[11].v, checkerComment |-> text(12)])

-----------------------------------------------------------------------------
VARIABLES
  given,        \* the results the judging system wrote
  inf,          \* the scorer's input
  testResults,  \* those read so far
  pc            \* "reading", "scored" or "failed"
vars == <<given, inf, testResults, pc>>

(* The file: a line per result, ended by `end'. *)
Written(results, end) ==
  LET lines[k \in 0..Len(results)] ==
        IF k = 0 THEN <<>> ELSE lines[k - 1] \o serializeTestResult(results[k]) \o end
  IN  lines[Len(results)]

(* registerScorer: inf is stdin, not strict. *)
registerScorer(results, end) ==
  /\ given = results
  /\ inf = [mode |-> "_input", strict |-> FALSE, open |-> TRUE, rest |-> Written(results, end)]
  /\ testResults = <<>> /\ pc = "reading"

(* One iteration of ~TestlibScorerGuard. *)
ReadResult ==
  LET line == readString(inf)
      tr == deserializeTestResult(line.val)
  IN  /\ pc = "reading" /\ ~eof(inf)
      /\ inf' = line.in
      /\ IF line.val = <<>> THEN UNCHANGED <<testResults, pc>>
         ELSE IF tr.ok THEN testResults' = Append(testResults, tr.v) /\ UNCHANGED pc
         ELSE pc' = "failed" /\ UNCHANGED testResults
      /\ UNCHANGED given

(* The loop has ended: readEof, and the score of testResults is printed. *)
Score ==
  /\ pc = "reading" /\ eof(inf)
  /\ pc' = "scored"
  /\ UNCHANGED <<given, inf, testResults>>

Next == ReadResult \/ Score

-----------------------------------------------------------------------------
(* For TLC: results whose texts hold what the format must quote. *)
CONSTANT MaxText        \* bound: characters of a text field

Texts == UNION {[1..n -> {SmallN, BACKSLASH, SEMICOLON, LF, CR}] : n \in 0..MaxText}
Points == {NaN, Finite(0), Finite(1), Finite(12345), Finite(-2050)}

Result(testset, comment, points) ==
  [testIndex |-> 12, testset |-> testset, group |-> comment, verdict |-> 1, points |-> points,
   timeConsumed |-> 0, memoryConsumed |-> -7, input |-> <<>>, output |-> testset,
   answer |-> comment, exitCode |-> 3, checkerComment |-> comment]

Init == \E a, b \in Texts, points \in Points, end \in {<<LF>>, <<CR, LF>>, <<LF, LF>>} :
          registerScorer(<<Result(a, b, points), Result(b, a, NaN)>>, end)
Spec == Init /\ [][Next]_vars

WithoutCR(s) == SelectSeq(s, LAMBDA c : c # CR)
AsRead(tr) == [tr EXCEPT !.testset = WithoutCR(@), !.group = WithoutCR(@), !.input = WithoutCR(@),
                         !.output = WithoutCR(@), !.answer = WithoutCR(@),
                         !.checkerComment = WithoutCR(@)]

(* The scorer gets the results that were written, in order, whatever their      *)
(* texts hold: every field comes back, but for the carriage returns.            *)
ResultsComeBack ==
  /\ pc # "failed"
  /\ \A i \in 1..Len(testResults) : testResults[i] = AsRead(given[i])
  /\ pc = "scored" => Len(testResults) = Len(given)
=============================================================================
