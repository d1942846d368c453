------------------------ MODULE TestlibProgramProofs ------------------------
(***************************************************************************)
(* Proofs about TestlibProgram: whatever files and command line a program   *)
(* written with testlib.h is given, and in whatever order its main reads    *)
(* and quits, its exit code, report and logs are earned.                    *)
(***************************************************************************)
EXTENDS TestlibProgram, SequenceTheorems, TLAPS

Shared == INSTANCE SharedLemmas

Modes == {"_input", "_output", "_answer"}
Streams == [mode : Modes, strict : BOOLEAN, open : BOOLEAN, rest : Seq(Int)]
Globals ==
  [pc : {"start", "main", "atexit", "scorer", "dead"},
   testlibMode : {"_unknown", "_checker", "_validator", "_interactor", "_scorer", "_generator"},
   alive : BOOLEAN, registered : BOOLEAN, quitCount : 0..1, readEofCount : 0..1,
   inf : Streams, ouf : Streams, ans : Streams,
   resultName : {"", "file", "bad"}, appesMode : BOOLEAN, points : {"inf", "set"},
   report : SUBSET Results, logNames : SUBSET LogNames, logs : SUBSET LogNames,
   exitCode : Nat, score : {"none", "printed", "crash"},
   blamed : {"nobody"} \cup Modes, result : Int, disabled : BOOLEAN]

-----------------------------------------------------------------------------
\* The inductive invariant, of the globals q of a process.

\* Before the destructors run there is at most one quit, and only
\* disableFinalizeGuard switches the guard off.
PlaceOK(q) ==
  /\ q.pc \in {"start", "main"} => q.result = NoQuit /\ q.exitCode = 0 /\ q.quitCount = 0
  /\ q.pc \in {"start", "main", "atexit"} => q.logs = {} /\ (q.alive <=> ~q.disabled)

\* Only checkers and interactors have a stream of the participant's.
ModesOK(q) ==
  q.testlibMode \notin {"_checker", "_interactor"} =>
    q.inf.mode = "_input" /\ q.ouf.mode = "_input" /\ q.ans.mode = "_input"

\* What a quit has left behind.
ResultOK(q) ==
  /\ q.result = NoQuit => q.quitCount = 0 /\ q.report = {}
  /\ q.result # NoQuit => q.result \in Results /\ q.exitCode = resultExitCode(q.result)
  /\ q.result \notin {NoQuit, _fail} =>
       q.blamed = "_output" /\ q.testlibMode \in {"_checker", "_interactor"}
  /\ q.report \subseteq {q.result}
  /\ q.report # {} => q.resultName = "file"

\* readEof was called at the end, and nothing comes back before a quit.
EofOK(q) == q.readEofCount = 1 /\ q.result = NoQuit => q.inf.rest = <<>>

\* A checker that accepted left nothing but blanks, l, unread.
ReadOK(q, l) ==
  q.testlibMode = "_checker" /\ q.result = _ok => \A i \in 1..Len(l) : isBlanks(l[i])

LogsOK(q) ==
  /\ q.logNames # {} => q.testlibMode = "_validator"
  /\ q.logs \subseteq q.logNames
  /\ q.logs # {} => q.quitCount = 0 /\ (q.inf.rest = <<>> \/ q.disabled)

CoreOK(q) == q \in Globals /\ PlaceOK(q) /\ ModesOK(q) /\ ResultOK(q) /\ LogsOK(q)
LifeOK(q, l) == CoreOK(q) /\ EofOK(q) /\ ReadOK(q, l)

\* At the start nothing is set; in main the output of a checker is open.
StartOK(q) ==
  q.pc = "start" => /\ q.testlibMode = "_unknown" /\ q.logNames = {} /\ q.resultName = ""
                    /\ q.readEofCount = 0
OpenOK(q) == q.pc = "main" /\ q.testlibMode = "_checker" => q.ouf.open

\* What the guard has checked.
GuardOK(q) ==
  q.pc \in {"scorer", "dead"} /\ ~q.disabled /\ q.exitCode = 0 =>
    /\ q.registered
    /\ q.testlibMode = "_checker" => q.quitCount = 1
    /\ q.testlibMode = "_validator" => q.readEofCount = 1

ProcessInv ==
  /\ files \in [inf : Inputs, ouf : Outputs, ans : Answers]
  /\ args \in CommandLines /\ left \in Seq(Int)
  /\ LifeOK(p, left) /\ StartOK(p) /\ OpenOK(p) /\ GuardOK(p)

-----------------------------------------------------------------------------
\* The lengths of runs of characters, and dropping them.

\* A bounded set of numbers has a greatest one.
LEMMA MaxIs ==
  ASSUME NEW n \in Nat, NEW T, T \subseteq 0..n, T # {}
  PROVE  Max(T) \in T /\ \A y \in T : y <= Max(T)
<1> DEFINE U == {k \in Nat : n - k \in T}
<1>1. U \subseteq Nat /\ U # {}
  <2>1. PICK y : y \in T
    OBVIOUS
  <2>2. n - y \in Nat /\ n - (n - y) = y
    BY <2>1
  <2> QED BY <2>1, <2>2
<1> HIDE DEF U
<1>2. PICK k \in U : \A m \in U : k <= m
  BY <1>1, Shared!LeastNumber
<1>3. k \in Nat /\ n - k \in T
  BY <1>2 DEF U
<1>4. ASSUME NEW y \in T PROVE y <= n - k
  <2>1. y \in 0..n /\ n - y \in Nat /\ n - (n - y) = y
    OBVIOUS
  <2>2. n - y \in U
    BY <2>1 DEF U
  <2> QED BY <1>2, <1>3, <2>1, <2>2
<1>5. \E x \in T : \A y \in T : x >= y
  <2>1. \A y \in T : n - k >= y
    BY <1>3, <1>4
  <2> QED BY <1>3, <2>1, Zenon
<1>6. Max(T) \in T /\ \A y \in T : Max(T) >= y
  BY <1>5, Zenon DEF Max
<1>7. \A y \in T : y \in Int
  OBVIOUS
<1> QED BY <1>6, <1>7

\* SpanLen and SpanNotLen count a run at the front.
LEMMA SpanIs ==
  ASSUME NEW s \in Seq(Int), NEW C
  PROVE  /\ SpanLen(s, C) \in 0..Len(s)
         /\ \A i \in 1..SpanLen(s, C) : s[i] \in C
         /\ SpanNotLen(s, C) \in 0..Len(s)
<1> DEFINE n == Len(s)
           T == {k \in 0..n : \A i \in 1..k : s[i] \in C}
           U == {k \in 0..n : \A i \in 1..k : s[i] \notin C}
<1>1. n \in Nat
  BY LenProperties
<1>2. 0 \in T /\ 0 \in U /\ T \subseteq 0..n /\ U \subseteq 0..n
  BY <1>1
<1>3. SpanLen(s, C) = Max(T) /\ SpanNotLen(s, C) = Max(U)
  BY Zenon DEF SpanLen, SpanNotLen
<1> HIDE DEF n, T, U
<1>4. Max(T) \in T /\ Max(U) \in U
  BY <1>1, <1>2, MaxIs
<1> QED BY <1>3, <1>4 DEF T, U, n

\* A stream moves on by k characters.
LEMMA SkipIs ==
  ASSUME NEW in \in Streams, NEW k \in 0..Len(in.rest)
  PROVE  LET at == Skip(in, k) IN
         /\ at \in Streams
         /\ at.mode = in.mode /\ at.strict = in.strict /\ at.open = in.open
         /\ at.rest = DropFirst(in.rest, k) /\ Len(at.rest) = Len(in.rest) - k
<1> DEFINE s == in.rest
           d == DropFirst(s, k)
<1>1. s \in Seq(Int) /\ Len(s) \in Nat /\ k \in 0..Len(s)
  BY LenProperties DEF Streams
<1>2. d \in Seq(Int) /\ Len(d) = Len(s) - k
  <2> HIDE DEF s
  <2>1. k + 1 \in 1..Len(s) + 1 /\ Len(s) \in (k + 1) - 1..Len(s)
    BY <1>1
  <2>2. /\ SubSeq(s, k + 1, Len(s)) \in Seq(Int)
        /\ Len(SubSeq(s, k + 1, Len(s))) = Len(s) - (k + 1) + 1
    BY <1>1, <2>1, SubSeqProperties
  <2> QED BY <1>1, <2>2 DEF DropFirst
<1>3. Skip(in, k) = [in EXCEPT !.rest = d]
  BY DEF Skip
<1> HIDE DEF d
<1> QED BY <1>2, <1>3 DEF Streams, d

\* A stream with nothing left after its blanks has only blanks.
LEMMA EofMeansBlanks ==
  ASSUME NEW in \in Streams, in.strict \/ in.open, eof(seekEof(in))
  PROVE  \A i \in 1..Len(in.rest) : isBlanks(in.rest[i])
<1> DEFINE k == SpanLen(in.rest, Blanks)
           at == Skip(in, k)
<1>1. in.rest \in Seq(Int)
  BY DEF Streams
<1>2. k \in 0..Len(in.rest) /\ \A i \in 1..k : in.rest[i] \in Blanks
  BY <1>1, SpanIs
<1>3. at.rest = <<>>
  <2>1. seekEof(in) = at
    BY DEF seekEof, skipBlanks, Streams
  <2> HIDE DEF k
  <2>2. at.strict = in.strict /\ at.open = in.open
    BY <1>2, SkipIs
  <2> HIDE DEF at
  <2> QED BY <2>1, <2>2 DEF eof, Streams
<1> HIDE DEF k
<1>4. Len(at.rest) = Len(in.rest) - k /\ at \in Streams
  BY <1>2, SkipIs
<1> HIDE DEF at
<1>5. Len(in.rest) = k
  <2>1. Len(at.rest) = 0
    BY <1>3, EmptySeq
  <2>2. Len(in.rest) \in Nat
    BY <1>1, LenProperties
  <2> QED BY <1>2, <1>4, <2>1, <2>2
<1> QED BY <1>2, <1>5 DEF isBlanks

\* readWordTo: where it leaves the stream, and how it quits.
LEMMA ReadWordIs ==
  ASSUME NEW in \in Streams
  PROVE  LET r == readWordTo(in) IN
         /\ r.in \in Streams
         /\ r.in.mode = in.mode /\ r.in.strict = in.strict /\ r.in.open = in.open
         /\ r.quit \in {NoQuit, _unexpected_eof, _pe}
         /\ in.rest = <<>> => r.quit # NoQuit
<1> DEFINE k == SpanLen(in.rest, Blanks)
           at == WordStart(in)
           n == SpanNotLen(at.rest, Blanks)
           r == readWordTo(in)
           Same(x) == x \in Streams /\ x.mode = in.mode /\ x.strict = in.strict /\ x.open = in.open
<1>1. in.rest \in Seq(Int) /\ Len(in.rest) \in Nat
  BY LenProperties DEF Streams
<1>2. k \in 0..Len(in.rest)
  BY <1>1, SpanIs
<1>3. Same(at) /\ (in.rest = <<>> => at.rest = <<>>)
  <2>1. CASE in.strict
    BY <2>1 DEF WordStart
  <2>2. CASE ~in.strict
    <3>1. at = Skip(in, k)
      BY <2>2 DEF WordStart, skipBlanks
    <3> HIDE DEF k, at
    <3>2. Same(at) /\ Len(at.rest) = Len(in.rest) - k
      BY <1>2, <3>1, SkipIs
    <3>3. ASSUME in.rest = <<>> PROVE at.rest = <<>>
      <4>1. Len(in.rest) = 0 /\ at.rest \in Seq(Int)
        BY <3>2, <3>3, EmptySeq DEF Streams
      <4>2. k = 0
        BY <1>2, <4>1
      <4>3. Len(at.rest) = 0
        BY <3>2, <4>1, <4>2
      <4> QED BY <4>1, <4>3, EmptySeq
    <3> QED BY <3>2, <3>3
  <2> QED BY <2>1, <2>2
<1> HIDE DEF at, k
<1>4. at.rest \in Seq(Int) /\ n \in 0..Len(at.rest) /\ Len(at.rest) \in Nat
  <2>1. at.rest \in Seq(Int)
    BY <1>3 DEF Streams
  <2> QED BY <2>1, SpanIs, LenProperties
<1> HIDE DEF n
<1>5. CASE at.rest = <<>>
  <2>0. n = 0
    <3>1. Len(at.rest) = 0
      BY <1>5, EmptySeq
    <3> QED BY <1>4, <3>1
  <2>1. r = Quits(at, _unexpected_eof)
    BY <1>5, <2>0, InStreamAssumption DEF readWordTo, at, n
  <2> QED BY <1>3, <2>1 DEF Quits, NoQuit, _unexpected_eof
<1>6. CASE at.rest # <<>>
  <2>1. CASE n = 0
    <3>1. r = Quits(at, _pe)
      BY <1>6, <2>1, InStreamAssumption DEF readWordTo, at, n
    <3> QED BY <1>3, <3>1 DEF Quits, NoQuit, _pe
  <2>2. CASE n > MaxTokenLength
    <3> DEFINE k2 == MaxTokenLength + 1
    <3>1. r = Quits(Skip(at, k2), _pe)
      BY <1>6, <2>2, <1>4, InStreamAssumption DEF readWordTo, at, n
    <3>2. k2 \in 0..Len(at.rest)
      BY <1>4, <2>2, InStreamAssumption
    <3>3. Same(Skip(at, k2))
      BY <1>3, <3>2, SkipIs
    <3> QED BY <1>3, <3>1, <3>3 DEF Quits, NoQuit, _pe
  <2>3. CASE n # 0 /\ ~(n > MaxTokenLength)
    <3>1. n \in 1..MaxTokenLength
      BY <1>4, <2>3, InStreamAssumption
    <3>2. r = Ret(Skip(at, n), SubSeq(at.rest, 1, n))
      BY <1>6, <3>1, InStreamAssumption DEF readWordTo, at, n
    <3>3. Same(Skip(at, n))
      BY <1>3, <1>4, SkipIs
    <3> QED BY <1>3, <1>6, <3>2, <3>3 DEF Ret
  <2> QED BY <2>1, <2>2, <2>3
<1> QED BY <1>5, <1>6

-----------------------------------------------------------------------------
\* What a quit leaves behind.

\* The result after quit's own checks.
LEMMA JudgedIs ==
  ASSUME NEW q, NEW mode, NEW r \in Results
  PROVE  LET j == Judged(q, mode, r) IN
         /\ j \in Results
         /\ j # _fail => mode = "_output" /\ q.testlibMode # "_scorer"
         /\ j = _ok => r = _ok /\ ~Dirty(q, _ok)
         /\ r = _fail => j = _fail
<1>1. r \in Nat /\ {_ok, _wa, _pe, _fail, _dirt, _points, _unexpected_eof} \subseteq Results
  BY ProgramAssumption
<1>2. CASE q.testlibMode = "_scorer" \/ mode # "_output"
  BY <1>1, <1>2 DEF Judged, _ok, _wa, _pe, _fail, _dirt, _points, _unexpected_eof, _partially
<1>3. CASE ~(q.testlibMode = "_scorer" \/ mode # "_output")
  BY <1>1, <1>3 DEF Judged, _ok, _wa, _pe, _fail, _dirt, _points, _unexpected_eof, _partially
<1> QED BY <1>2, <1>3

\* The exit codes are numbers, and that of a failure is not 0.
LEMMA ExitCodes ==
  /\ \A r \in Results : resultExitCode(r) \in Nat
  /\ _fail \in Results /\ resultExitCode(_fail) = FAIL_EXIT_CODE /\ FAIL_EXIT_CODE \in Nat
  /\ FAIL_EXIT_CODE # 0
BY ProgramAssumption
   DEF resultExitCode, _ok, _wa, _pe, _fail, _dirt, _points, _unexpected_eof, _partially,
       OK_EXIT_CODE, WA_EXIT_CODE, PE_EXIT_CODE, FAIL_EXIT_CODE, DIRT_EXIT_CODE,
       POINTS_EXIT_CODE, PC_BASE_EXIT_CODE

\* The fields a quit leaves alone, or only closes.
SameProgram(d, q) ==
  /\ d.testlibMode = q.testlibMode /\ d.alive = q.alive /\ d.registered = q.registered
  /\ d.readEofCount = q.readEofCount /\ d.logNames = q.logNames /\ d.logs = q.logs
  /\ d.disabled = q.disabled
  /\ d.inf.mode = q.inf.mode /\ d.ouf.mode = q.ouf.mode /\ d.ans.mode = q.ans.mode
  /\ d.inf.rest = q.inf.rest

HasQuit(d, q, mode, r) ==
  /\ d \in Globals /\ SameProgram(d, q) /\ d.pc = "atexit"
  /\ d.quitCount = IF q.alive THEN 1 ELSE q.quitCount
  /\ d.result \in Results /\ d.exitCode = resultExitCode(d.result) /\ d.blamed = mode
  /\ d.result # _fail => mode = "_output" /\ q.testlibMode # "_scorer"
  /\ d.result = _ok => r = _ok /\ ~Dirty(q, _ok)
  /\ r = _fail => d.result = _fail
  /\ d.report = IF q.resultName = "file" THEN {d.result} ELSE q.report
  /\ d.resultName = IF q.resultName = "bad" THEN "" ELSE q.resultName

LEMMA QuitIs ==
  ASSUME NEW q \in Globals, NEW mode \in Modes, NEW r \in Results
  PROVE  HasQuit(QuitOn(q, mode, r), q, mode, r)
<1> DEFINE j == Judged(q, mode, r)
           w == Reported(q, j)
           d == QuitOn(q, mode, r)
<1>1. /\ j \in Results
      /\ j # _fail => mode = "_output" /\ q.testlibMode # "_scorer"
      /\ j = _ok => r = _ok /\ ~Dirty(q, _ok)
      /\ r = _fail => j = _fail
  BY JudgedIs
<1> HIDE DEF j
<1>2. /\ w.result \in {j, _fail}
      /\ w.report = IF q.resultName = "file" THEN {w.result} ELSE {}
  BY DEF Reported
<1> HIDE DEF w
<1>3. quit(q, mode, r) = [result |-> w.result, report |-> w.report, exit |-> resultExitCode(w.result)]
  BY DEF quit, j, w
<1>4. w.result \in Results /\ w.result \in Int /\ resultExitCode(w.result) \in Nat
      /\ w.report \in SUBSET Results /\ _fail # _ok
  BY <1>1, <1>2, ExitCodes, ProgramAssumption DEF _fail, _ok
<1> DEFINE e == resultExitCode(w.result)
           i == close(q.inf)
           o == close(q.ouf)
           a == close(q.ans)
           n == IF q.alive THEN 1 ELSE q.quitCount
           f == IF q.resultName = "bad" THEN "" ELSE q.resultName
           t == IF q.resultName = "file" THEN w.report ELSE q.report
           u == w.result
<1>5. d = [q EXCEPT !.pc = "atexit", !.quitCount = n, !.inf = i, !.ouf = o, !.ans = a,
                    !.resultName = f, !.report = t, !.exitCode = e, !.blamed = mode, !.result = u]
  BY <1>3 DEF QuitOn
<1>6. /\ q.inf \in Streams /\ q.ouf \in Streams /\ q.ans \in Streams
      /\ q.quitCount \in 0..1 /\ q.report \in SUBSET Results
      /\ q.resultName \in {"", "file", "bad"}
  BY DEF Globals
<1>7. \A x \in Streams : close(x) \in Streams /\ close(x).mode = x.mode /\ close(x).rest = x.rest
  BY DEF Streams, close
<1>8. /\ i \in Streams /\ o \in Streams /\ a \in Streams
      /\ i.mode = q.inf.mode /\ o.mode = q.ouf.mode /\ a.mode = q.ans.mode /\ i.rest = q.inf.rest
  BY <1>6, <1>7
<1>9. /\ n \in 0..1 /\ f \in {"", "file", "bad"} /\ t \in SUBSET Results /\ e \in Nat /\ u \in Int
      /\ mode \in {"nobody"} \cup Modes
      /\ u \in Results /\ t = IF q.resultName = "file" THEN {u} ELSE q.report
      /\ u # _fail => u = j
  <2>1. n \in 0..1 /\ f \in {"", "file", "bad"}
    <3>1. 1 \in 0..1
      OBVIOUS
    <3> QED BY <1>6, <3>1, Zenon
  <2>2. t = IF q.resultName = "file" THEN {u} ELSE q.report
    BY <1>2
  <2>3. t \in SUBSET Results
    BY <1>4, <1>6
  <2> QED BY <1>2, <1>4, <2>1, <2>2, <2>3
<1> HIDE DEF i, o, a, n, f, t, e, u
<1>10. [q EXCEPT !.pc = "atexit", !.quitCount = n, !.inf = i, !.ouf = o, !.ans = a,
                 !.resultName = f, !.report = t, !.exitCode = e, !.blamed = mode, !.result = u]
       \in Globals
  <2> DEFINE h == [q EXCEPT !.pc = "atexit", !.quitCount = n]
             g == [h EXCEPT !.inf = i, !.ouf = o, !.ans = a]
  <2>a. n \in 0..1 /\ i \in Streams /\ o \in Streams /\ a \in Streams
    BY <1>8, <1>9
  <2>b. h \in Globals
    BY <2>a DEF Globals
  <2>1. g \in Globals
    <3> HIDE DEF h
    <3> QED BY <2>a, <2>b DEF Globals
  <2>2. [g EXCEPT !.resultName = f, !.report = t, !.exitCode = e, !.blamed = mode, !.result = u]
        \in Globals
    <3> DEFINE m == [g EXCEPT !.resultName = f]
               k == [m EXCEPT !.report = t]
    <3> HIDE DEF g
    <3>a. f \in {"", "file", "bad"} /\ t \in SUBSET Results
      BY <1>9
    <3>b. m \in Globals
      BY <2>1, <3>a, ZenonT(40) DEF Globals
    <3>1. k \in Globals
      <4> HIDE DEF m
      <4> QED BY <3>a, <3>b DEF Globals
    <3>2. [k EXCEPT !.exitCode = e, !.blamed = mode, !.result = u] \in Globals
      <4>1. e \in Nat /\ u \in Int /\ mode \in {"nobody"} \cup Modes
        BY <1>9
      <4> HIDE DEF k
      <4> QED BY <3>1, <4>1 DEF Globals
    <3> QED BY <3>2, Zenon
  <2> QED BY <2>2, Zenon
<1> HIDE DEF d
<1>11. /\ d.testlibMode = q.testlibMode /\ d.alive = q.alive /\ d.registered = q.registered
       /\ d.readEofCount = q.readEofCount /\ d.logNames = q.logNames /\ d.logs = q.logs
       /\ d.disabled = q.disabled /\ d.inf = i /\ d.ouf = o /\ d.ans = a /\ d.pc = "atexit"
       /\ d.quitCount = n /\ d.exitCode = e /\ d.blamed = mode /\ d.result = u
       /\ d.resultName = f /\ d.report = t
  BY <1>5 DEF Globals
<1>12. SameProgram(d, q)
  BY <1>8, <1>11 DEF SameProgram
<1>13. HasQuit(d, q, mode, r)
  <2>1. d \in Globals
    BY <1>5, <1>10
  <2>2. d.exitCode = resultExitCode(d.result)
    BY <1>11 DEF e, u
  <2>3. d.quitCount = IF q.alive THEN 1 ELSE q.quitCount
    BY <1>11 DEF n
  <2>4. d.resultName = IF q.resultName = "bad" THEN "" ELSE q.resultName
    BY <1>11 DEF f
  <2>5. d.result = _ok => r = _ok /\ ~Dirty(q, _ok)
    BY <1>1, <1>4, <1>9, <1>11, Zenon
  <2>6. /\ d.result # _fail => mode = "_output" /\ q.testlibMode # "_scorer"
        /\ r = _fail => d.result = _fail
    BY <1>1, <1>4, <1>9, <1>11, Zenon
  <2>7. d.result \in Results /\ d.report = IF q.resultName = "file" THEN {d.result} ELSE q.report
    BY <1>9, <1>11, Zenon
  <2> QED
    BY <1>11, <1>12, <2>1, <2>2, <2>3, <2>4, <2>5, <2>6, <2>7, Zenon DEF HasQuit
<1> QED
  BY <1>13 DEF d

\* The first quit of a program, with l left unread in the output.
LEMMA QuitKeeps ==
  ASSUME NEW q, CoreOK(q), q.pc \in {"start", "main"},
         NEW mode \in Modes, NEW r \in Results, NEW l,
         q.testlibMode \notin {"_checker", "_interactor"} => mode # "_output",
         r = _ok /\ q.testlibMode = "_checker" /\ mode = "_output" => l = q.ouf.rest /\ q.ouf.open
  PROVE  LET d == QuitOn(q, mode, r) IN
         LifeOK(d, l) /\ d.pc = "atexit" /\ d.testlibMode = q.testlibMode
<1> DEFINE d == QuitOn(q, mode, r)
<1>1. q \in Globals
  BY DEF LifeOK, CoreOK
<1>a. HasQuit(d, q, mode, r)
  BY <1>1, QuitIs, Zenon
<1> HIDE DEF d
<1>2. /\ d \in Globals /\ SameProgram(d, q) /\ d.pc = "atexit"
      /\ d.quitCount = IF q.alive THEN 1 ELSE q.quitCount
      /\ d.result \in Results /\ d.exitCode = resultExitCode(d.result) /\ d.blamed = mode
      /\ d.result # _fail => mode = "_output" /\ q.testlibMode # "_scorer"
      /\ d.result = _ok => r = _ok /\ ~Dirty(q, _ok)
      /\ d.report = IF q.resultName = "file" THEN {d.result} ELSE q.report
      /\ d.resultName = IF q.resultName = "bad" THEN "" ELSE q.resultName
  BY <1>a, Zenon DEF HasQuit
<1>3. d.result # NoQuit /\ _ok # _fail
  <2>1. d.result \in Nat
    BY <1>2, ProgramAssumption, Zenon
  <2> QED BY <2>1 DEF NoQuit, _ok, _fail
<1>4. q.result = NoQuit /\ q.report = {} /\ q.logs = {} /\ (q.alive <=> ~q.disabled)
  BY DEF LifeOK, CoreOK, PlaceOK, ResultOK
<1>5. PlaceOK(d)
  BY <1>2, <1>4 DEF PlaceOK, SameProgram
<1>6. ModesOK(d)
  BY <1>2 DEF LifeOK, CoreOK, ModesOK, SameProgram
<1>7. ResultOK(d)
  <2>1. d.report \subseteq {d.result} /\ (d.report # {} => d.resultName = "file")
    BY <1>2, <1>4
  <2> QED BY <1>2, <1>3, <2>1 DEF ResultOK, SameProgram
<1>8. EofOK(d)
  BY <1>3 DEF EofOK
<1>9. ReadOK(d, l)
  <2> SUFFICES ASSUME d.testlibMode = "_checker", d.result = _ok
               PROVE  \A i \in 1..Len(l) : isBlanks(l[i])
    BY DEF ReadOK
  <2>1. l = q.ouf.rest /\ q.ouf.open /\ ~Dirty(q, _ok) /\ q.testlibMode = "_checker"
    BY <1>2, <1>3 DEF SameProgram
  <2>2. eof(seekEof(q.ouf))
    BY <2>1 DEF Dirty, __testlib_shouldCheckDirt
  <2>3. q.ouf \in Streams
    BY <1>1 DEF Globals
  <2> QED BY <2>1, <2>2, <2>3, EofMeansBlanks
<1>10. LogsOK(d)
  BY <1>2, <1>4 DEF LifeOK, CoreOK, LogsOK, SameProgram
<1> QED
  BY <1>2, <1>5, <1>6, <1>7, <1>8, <1>9, <1>10 DEF LifeOK, CoreOK, SameProgram, d

\* quit(_fail, ...).
LEMMA FailKeeps ==
  ASSUME NEW q, CoreOK(q), q.pc \in {"start", "main"}, NEW l
  PROVE  LifeOK(Fail(q), l) /\ Fail(q).pc = "atexit" /\ Fail(q).testlibMode = q.testlibMode
<1>1. /\ q.ouf.mode \in Modes
      /\ q.testlibMode \notin {"_checker", "_interactor"} => q.ouf.mode # "_output"
  BY DEF LifeOK, CoreOK, ModesOK, Globals, Streams
<1>2. _fail \in Results /\ _fail # _ok
  BY ProgramAssumption DEF _fail, _ok
<1> QED
  BY <1>1, <1>2, QuitKeeps DEF Fail

-----------------------------------------------------------------------------
\* Opening a stream.

\* init and skipBom.
LEMMA InitIs ==
  ASSUME NEW f \in FileContents, NEW mode \in Modes
  PROVE  LET r == init(f, mode) IN
         /\ r.in \in Streams /\ r.in.mode = mode /\ r.quit \in {NoQuit, _pe, _fail}
         /\ mode # "_input" /\ r.quit = NoQuit => r.in.open
<1> DEFINE closed == [mode |-> mode, strict |-> FALSE, open |-> FALSE, rest |-> <<>>]
           opened == [closed EXCEPT !.open = TRUE, !.rest = f.bytes]
           r == init(f, mode)
<1>1. f.bytes \in Seq(Int) /\ Len(f.bytes) \in Nat /\ f.exists \in BOOLEAN /\ <<>> \in Seq(Int)
  BY LenProperties, EmptySeq DEF FileContents
<1>2. closed \in Streams /\ closed.mode = mode
  BY <1>1 DEF Streams
<1>3. opened \in Streams /\ opened.mode = mode /\ opened.open
  BY <1>1 DEF Streams
<1>4. \/ r = Quits(closed, _pe) \/ r = Ret(opened, <<>>)
      \/ r = Quits(closed, _fail) \/ (mode = "_input" /\ r = Ret(closed, <<>>))
  BY <1>1, InStreamAssumption DEF init, Modes
<1>5. NoQuit # _pe /\ NoQuit # _fail
  BY DEF NoQuit, _pe, _fail
<1> HIDE DEF closed, opened, r
<1> QED
  BY <1>2, <1>3, <1>4, <1>5 DEF Quits, Ret, r

LEMMA SkipBomIs ==
  ASSUME NEW in \in Streams
  PROVE  skipBom(in) \in Streams /\ skipBom(in).mode = in.mode /\ skipBom(in).open = in.open
<1>1. in.rest \in Seq(Int) /\ Len(in.rest) \in Nat
  BY LenProperties DEF Streams
<1>2. CASE skipBom(in) = in
  BY <1>2
<1>3. CASE skipBom(in) # in
  <2>1. skipBom(in) = Skip(in, 3) /\ SubSeq(in.rest, 1, Min({3, Len(in.rest)})) = utf8Bom
    BY <1>3 DEF skipBom
  <2>2. 3 \in 0..Len(in.rest)
    <3> DEFINE m == Min({3, Len(in.rest)})
    <3>1. m \in 0..Len(in.rest) /\ m <= 3
      <4>1. \E x \in {3, Len(in.rest)} : \A y \in {3, Len(in.rest)} : x <= y
        BY <1>1
      <4>2. m \in {3, Len(in.rest)} /\ \A y \in {3, Len(in.rest)} : m <= y
        BY <4>1, Zenon DEF Min
      <4> QED BY <1>1, <4>2
    <3>2. Len(SubSeq(in.rest, 1, m)) = m
      <4> HIDE DEF m
      <4>1. 1 \in 1..Len(in.rest) + 1 /\ m \in 1 - 1..Len(in.rest) /\ m - 1 + 1 = m
        BY <1>1, <3>1
      <4> QED BY <1>1, <4>1, SubSeqProperties
    <3>3. Len(utf8Bom) = 3
      BY DEF utf8Bom
    <3> HIDE DEF m
    <3>4. m = 3
      BY <2>1, <3>2, <3>3 DEF m
    <3> QED BY <1>1, <3>1, <3>4
  <2> QED BY <2>1, <2>2, SkipIs
<1> QED BY <1>2, <1>3

\* A stream of a program is replaced.
SameButStreams(d, q) ==
  /\ d.pc = q.pc /\ d.testlibMode = q.testlibMode /\ d.alive = q.alive
  /\ d.registered = q.registered
  /\ d.quitCount = q.quitCount /\ d.readEofCount = q.readEofCount
  /\ d.resultName = q.resultName /\ d.report = q.report /\ d.logNames = q.logNames
  /\ d.logs = q.logs /\ d.exitCode = q.exitCode /\ d.blamed = q.blamed
  /\ d.result = q.result /\ d.disabled = q.disabled

LEMMA SetStreamIs ==
  ASSUME NEW q \in Globals, NEW field \in {"inf", "ouf", "ans"}, NEW x \in Streams
  PROVE  LET d == [q EXCEPT ![field] = x] IN
         /\ d \in Globals /\ SameButStreams(d, q)
         /\ d.inf = IF field = "inf" THEN x ELSE q.inf
         /\ d.ouf = IF field = "ouf" THEN x ELSE q.ouf
         /\ d.ans = IF field = "ans" THEN x ELSE q.ans
<1>1. CASE field = "inf"
  <2> DEFINE d == [q EXCEPT !.inf = x]
  <2>1. d \in Globals
    BY DEF Globals
  <2>2. SameButStreams(d, q) /\ d.inf = x /\ d.ouf = q.ouf /\ d.ans = q.ans
    BY DEF Globals, SameButStreams
  <2> QED BY <1>1, <2>1, <2>2
<1>2. CASE field = "ouf"
  <2> DEFINE d == [q EXCEPT !.ouf = x]
  <2>1. d \in Globals
    BY DEF Globals
  <2>2. SameButStreams(d, q) /\ d.inf = q.inf /\ d.ouf = x /\ d.ans = q.ans
    BY DEF Globals, SameButStreams
  <2> QED BY <1>2, <2>1, <2>2
<1>3. CASE field = "ans"
  <2> DEFINE d == [q EXCEPT !.ans = x]
  <2>1. d \in Globals
    BY DEF Globals
  <2>2. SameButStreams(d, q) /\ d.inf = q.inf /\ d.ouf = q.ouf /\ d.ans = x
    BY DEF Globals, SameButStreams
  <2> QED BY <1>3, <2>1, <2>2
<1> QED BY <1>1, <1>2, <1>3

\* In main, before anything was read to its end.
LEMMA SetStreamKeeps ==
  ASSUME NEW q, NEW l, LifeOK(q, l), q.pc = "main", q.readEofCount = 0,
         q.testlibMode \in {"_checker", "_interactor"},
         NEW field \in {"inf", "ouf", "ans"}, NEW x \in Streams
  PROVE  LET d == [q EXCEPT ![field] = x] IN
         /\ LifeOK(d, l) /\ d.pc = "main" /\ d.readEofCount = 0
         /\ d.testlibMode = q.testlibMode
         /\ d.ouf = IF field = "ouf" THEN x ELSE q.ouf
<1> DEFINE d == [q EXCEPT ![field] = x]
<1>1. q \in Globals
  BY DEF LifeOK, CoreOK
<1>2. d \in Globals /\ SameButStreams(d, q) /\ d.ouf = IF field = "ouf" THEN x ELSE q.ouf
  BY <1>1, SetStreamIs
<1> HIDE DEF d
<1>3. q.logs = {}
  BY DEF LifeOK, CoreOK, PlaceOK
<1>4. PlaceOK(d) /\ ModesOK(d) /\ EofOK(d)
  BY <1>2 DEF LifeOK, CoreOK, PlaceOK, ModesOK, EofOK, SameButStreams
<1>5. ResultOK(d) /\ ReadOK(d, l)
  BY <1>2 DEF LifeOK, CoreOK, ResultOK, ReadOK, SameButStreams
<1>6. LogsOK(d)
  BY <1>2, <1>3 DEF LifeOK, CoreOK, LogsOK, SameButStreams
<1> QED
  BY <1>2, <1>4, <1>5, <1>6 DEF LifeOK, CoreOK, SameButStreams, d

\* What the register functions establish, stream by stream.
Opened(q, l, mode) ==
  /\ LifeOK(q, l) /\ q.pc \in {"main", "atexit"} /\ q.testlibMode = mode
  /\ q.pc = "main" => q.readEofCount = 0

LEMMA OpeningKeeps ==
  ASSUME NEW q, NEW l, NEW kind \in {"_checker", "_interactor"}, Opened(q, l, kind),
         NEW field \in {"inf", "ouf", "ans"}, NEW f \in FileContents, NEW mode \in Modes,
         field = "ouf" => mode = "_output"
  PROVE  LET d == Opening(q, field, f, mode) IN
         /\ Opened(d, l, kind)
         /\ d.pc = "main" => q.pc = "main" /\ IF field = "ouf" THEN d.ouf.open ELSE d.ouf = q.ouf
<1> DEFINE r == init(f, mode)
           x == IF field = "ouf" THEN skipBom(r.in) ELSE r.in
           o == [q EXCEPT ![field] = x]
           d == Opening(q, field, f, mode)
<1>1. CASE q.pc # "main"
  <2>1. d = q
    BY <1>1 DEF Opening
  <2> QED BY <1>1, <2>1
<1>2. CASE q.pc = "main"
  <2>1. /\ r.in \in Streams /\ r.in.mode = mode /\ r.quit \in {NoQuit, _pe, _fail}
        /\ mode # "_input" /\ r.quit = NoQuit => r.in.open
    BY InitIs
  <2>2. d = IF r.quit # NoQuit THEN QuitOn(o, mode, r.quit) ELSE o
    BY <1>2 DEF Opening
  <2> HIDE DEF r, d
  <2>3. x \in Streams /\ (field = "ouf" /\ r.quit = NoQuit => x.open)
    BY <2>1, SkipBomIs
  <2> HIDE DEF x
  <2>4. /\ LifeOK(o, l) /\ o.pc = "main" /\ o.readEofCount = 0 /\ o.testlibMode = kind
        /\ o.ouf = IF field = "ouf" THEN x ELSE q.ouf
    BY <1>2, <2>3, SetStreamKeeps DEF Opened
  <2> HIDE DEF o
  <2>5. CASE r.quit = NoQuit
    <3>1. d = o
      BY <2>2, <2>5
    <3> QED BY <1>2, <2>3, <2>4, <2>5, <3>1 DEF Opened, d
  <2>6. CASE r.quit # NoQuit
    <3>1. r.quit \in Results /\ r.quit # _ok
      BY <2>1, <2>6, ProgramAssumption DEF _pe, _fail, _ok
    <3>2. d = QuitOn(o, mode, r.quit)
      BY <2>2, <2>6
    <3>3. LifeOK(d, l) /\ d.pc = "atexit" /\ d.testlibMode = kind
      BY <2>4, <3>1, <3>2, QuitKeeps DEF LifeOK
    <3> QED BY <3>3 DEF Opened, d
  <2> QED BY <2>5, <2>6
<1> QED BY <1>1, <1>2

-----------------------------------------------------------------------------
\* The register functions.

\* Nothing has been read to its end, quit or written.
Fresh(q) ==
  /\ q \in Globals
  /\ q.result = NoQuit /\ q.exitCode = 0 /\ q.quitCount = 0 /\ q.readEofCount = 0
  /\ q.report = {} /\ q.logs = {} /\ (q.alive <=> ~q.disabled)

LEMMA FreshIsOK ==
  ASSUME NEW q, Fresh(q), NEW l, ModesOK(q), q.logNames # {} => q.testlibMode = "_validator"
  PROVE  CoreOK(q) /\ LifeOK(q, l)
<1>1. q \in Globals /\ PlaceOK(q) /\ NoQuit # _ok
  BY DEF Fresh, PlaceOK, NoQuit, _ok
<1>2. ResultOK(q)
  BY DEF Fresh, ResultOK
<1>3. LogsOK(q)
  BY DEF Fresh, LogsOK
<1>4. EofOK(q) /\ ReadOK(q, l)
  BY <1>1 DEF Fresh, EofOK, ReadOK
<1> QED BY <1>1, <1>2, <1>3, <1>4 DEF LifeOK, CoreOK

\* At the start all streams are closed and have the mode _input.
LEMMA StartIs ==
  ASSUME ProcessInv, p.pc = "start"
  PROVE  /\ Fresh(p) /\ CoreOK(p) /\ ModesOK(p) /\ p.logNames = {}
         /\ p.inf.mode = "_input" /\ p.ouf.mode = "_input" /\ p.ans.mode = "_input"
BY DEF ProcessInv, LifeOK, CoreOK, PlaceOK, ModesOK, ResultOK, StartOK, Fresh

\* The files and the command line of a program.
LEMMA Given ==
  ASSUME ProcessInv
  PROVE  /\ files.inf \in FileContents /\ files.ouf \in FileContents /\ files.ans \in FileContents
         /\ args \in Invocations
BY ProgramAssumption DEF ProcessInv

\* A program registers as a checker or an interactor.
LEMMA RegisteringIs ==
  ASSUME ProcessInv, p.pc = "start", NEW kind \in {"_checker", "_interactor"}
  PROVE  LET q == [p EXCEPT !.registered = TRUE, !.testlibMode = kind] IN
         /\ Fresh(q) /\ q.pc = "start" /\ q.testlibMode = kind /\ q.logNames = {}
         /\ CoreOK(q) /\ LifeOK(q, left)
<1> DEFINE q == [p EXCEPT !.registered = TRUE, !.testlibMode = kind]
<1>1. Fresh(p) /\ p.logNames = {}
  BY StartIs
<1>2. q \in Globals
  BY <1>1 DEF Fresh, Globals
<1>3. /\ q.pc = "start" /\ q.testlibMode = kind /\ q.logNames = {}
      /\ q.result = p.result /\ q.exitCode = p.exitCode /\ q.quitCount = p.quitCount
      /\ q.readEofCount = p.readEofCount /\ q.report = p.report /\ q.logs = p.logs
      /\ q.alive = p.alive /\ q.disabled = p.disabled
  BY <1>1 DEF Fresh, Globals
<1> HIDE DEF q
<1>4. Fresh(q) /\ ModesOK(q)
  BY <1>1, <1>2, <1>3 DEF Fresh, ModesOK
<1> QED
  BY <1>3, <1>4, FreshIsOK DEF q

\* __testlib_help.
LEMMA HelpKeeps ==
  ASSUME NEW q, NEW l, Fresh(q), q.logNames = {}, q.testlibMode \in {"_checker", "_interactor"}
  PROVE  LifeOK(__testlib_help(q), l) /\ __testlib_help(q).pc = "atexit"
<1> DEFINE d == __testlib_help(q)
<1>1. d = [q EXCEPT !.pc = "atexit", !.exitCode = FAIL_EXIT_CODE]
  BY DEF __testlib_help
<1>2. FAIL_EXIT_CODE \in Nat /\ NoQuit # _ok
  BY DEF FAIL_EXIT_CODE, NoQuit, _ok
<1> HIDE DEF d
<1>3. d \in Globals
  BY <1>1, <1>2 DEF Fresh, Globals
<1>4. /\ d.pc = "atexit" /\ d.testlibMode = q.testlibMode /\ d.logNames = {}
      /\ d.result = NoQuit /\ d.quitCount = 0 /\ d.readEofCount = 0
      /\ d.report = {} /\ d.logs = {} /\ (d.alive <=> ~d.disabled)
  BY <1>1 DEF Fresh, Globals
<1>5. PlaceOK(d) /\ ModesOK(d)
  BY <1>4 DEF PlaceOK, ModesOK
<1>6. ResultOK(d) /\ LogsOK(d)
  BY <1>4 DEF ResultOK, LogsOK
<1>7. EofOK(d) /\ ReadOK(d, l)
  BY <1>2, <1>4 DEF EofOK, ReadOK
<1> QED
  BY <1>3, <1>4, <1>5, <1>6, <1>7 DEF LifeOK, CoreOK, d

\* The choice of the report.
LEMMA ReportingKeeps ==
  ASSUME NEW q, NEW l, NEW kind \in {"_checker", "_interactor"}, NEW n \in Nat, args \in Invocations,
         Fresh(q), q.pc = "start", q.testlibMode = kind, q.logNames = {}
  PROVE  Opened(Reporting(q, n, 4), l, kind)
<1> DEFINE d == Reporting(q, n, 4)
<1>1. CoreOK(q)
  BY FreshIsOK DEF ModesOK
<1>2. CASE n = 5 /\ ~args.appes
  <2>1. d = Fail(q)
    BY <1>2 DEF Reporting
  <2>2. LifeOK(d, l) /\ d.pc = "atexit" /\ d.testlibMode = kind
    BY <1>1, <2>1, FailKeeps
  <2> QED BY <2>2 DEF Opened
<1>3. CASE ~(n = 5 /\ ~args.appes)
  <2> DEFINE name == IF n < 4 THEN "" ELSE args.report
             b == (n = 5)
  <2>1. d = [q EXCEPT !.pc = "main", !.resultName = name, !.appesMode = b]
    BY <1>3 DEF Reporting
  <2>2. name \in {"", "file", "bad"} /\ b \in BOOLEAN
    BY DEF Invocations
  <2> HIDE DEF d, name, b
  <2>a. q \in Globals
    BY DEF Fresh
  <2>3. d \in Globals
    BY <2>1, <2>2, <2>a DEF Globals
  <2>4. /\ d.pc = "main" /\ d.testlibMode = q.testlibMode /\ d.logNames = {}
        /\ d.result = q.result /\ d.exitCode = q.exitCode /\ d.quitCount = q.quitCount
        /\ d.readEofCount = q.readEofCount /\ d.report = q.report /\ d.logs = q.logs
        /\ d.alive = q.alive /\ d.disabled = q.disabled
    BY <2>1 DEF Fresh, Globals
  <2>5. Fresh(d) /\ ModesOK(d)
    BY <2>3, <2>4 DEF Fresh, ModesOK
  <2>6. LifeOK(d, l)
    BY <2>4, <2>5, FreshIsOK
  <2> QED BY <2>4, <2>5, <2>6 DEF Opened, Fresh, d
<1> QED BY <1>2, <1>3

\* A step that leaves files and args alone and ends at exit or in main.
LEMMA StepKeeps ==
  ASSUME ProcessInv, UNCHANGED <<files, args>>, left' \in Seq(Int), LifeOK(p', left'),
         p'.pc = "atexit" \/ (p'.pc = "main" /\ OpenOK(p'))
  PROVE  ProcessInv'
<1>1. StartOK(p') /\ OpenOK(p') /\ GuardOK(p')
  BY DEF StartOK, OpenOK, GuardOK
<1> QED BY <1>1 DEF ProcessInv

LEMMA RegisterCheckerKeeps ==
  ASSUME ProcessInv, registerTestlibCmd
  PROVE  ProcessInv'
<1> DEFINE q == [p EXCEPT !.registered = TRUE, !.testlibMode = "_checker"]
           r == Reporting(q, args.names, 4)
           i == Opening(r, "inf", files.inf, "_input")
           o == Opening(i, "ouf", files.ouf, "_output")
           a == Opening(o, "ans", files.ans, "_answer")
<1>1. p.pc = "start" /\ UNCHANGED <<files, args, left>>
  BY DEF registerTestlibCmd
<1>2. p' = IF ~args.optionsFine THEN Fail(p)
           ELSE IF args.help THEN __testlib_help(q)
           ELSE IF args.names \notin 3..5 THEN Fail(q)
           ELSE a
  BY DEF registerTestlibCmd
<1>3. /\ Fresh(q) /\ q.pc = "start" /\ q.testlibMode = "_checker" /\ q.logNames = {} /\ CoreOK(q)
  BY <1>1, RegisteringIs
<1>4. CoreOK(p) /\ left' \in Seq(Int)
  BY <1>1, StartIs DEF ProcessInv
<1>5. args \in Invocations /\ args.names \in Nat
  BY Given DEF Invocations
<1> HIDE DEF q
<1>6. Opened(r, left, "_checker")
  BY <1>3, <1>5, ReportingKeeps
<1> HIDE DEF r
<1>7. Opened(i, left, "_checker")
  BY <1>6, Given, OpeningKeeps DEF Modes
<1> HIDE DEF i
<1>8. Opened(o, left, "_checker") /\ (o.pc = "main" => o.ouf.open)
  BY <1>7, Given, OpeningKeeps DEF Modes
<1> HIDE DEF o
<1>9. Opened(a, left, "_checker") /\ (a.pc = "main" => a.ouf.open)
  <2>1. Opened(a, left, "_checker") /\ (a.pc = "main" => o.pc = "main" /\ a.ouf = o.ouf)
    BY <1>8, Given, OpeningKeeps, ZenonT(40) DEF Modes
  <2> QED BY <1>8, <2>1
<1> HIDE DEF a
<1>10. CASE p' = a
  BY <1>1, <1>4, <1>9, <1>10, StepKeeps DEF Opened, OpenOK
<1>11. CASE p' = Fail(p) \/ p' = Fail(q)
  BY <1>1, <1>3, <1>4, <1>11, FailKeeps, StepKeeps
<1>12. CASE p' = __testlib_help(q)
  BY <1>1, <1>3, <1>4, <1>12, HelpKeeps, StepKeeps
<1> QED BY <1>2, <1>10, <1>11, <1>12

LEMMA RegisterInteractorKeeps ==
  ASSUME ProcessInv, registerInteraction
  PROVE  ProcessInv'
<1> DEFINE q == [p EXCEPT !.registered = TRUE, !.testlibMode = "_interactor"]
           t == Reporting(q, args.names, 4)
           r == Opening(t, "inf", files.inf, "_input")
           x == [Closed("_output") EXCEPT !.open = TRUE, !.rest = files.ouf.bytes]
           s == [r EXCEPT !.ouf = x]
           a == Opening(s, "ans", files.ans, "_answer")
<1>1. p.pc = "start" /\ UNCHANGED <<files, args, left>>
  BY DEF registerInteraction
<1>2. p' = IF ~args.optionsFine THEN Fail(p)
           ELSE IF args.help THEN __testlib_help(q)
           ELSE IF args.names \notin 2..5 THEN Fail(q)
           ELSE IF r.pc = "main" /\ ~args.toutFine THEN Fail(r)
           ELSE IF r.pc = "main" /\ args.names >= 3 THEN a
           ELSE IF r.pc = "main" THEN s ELSE r
  BY DEF registerInteraction
<1>3. /\ Fresh(q) /\ q.pc = "start" /\ q.testlibMode = "_interactor" /\ q.logNames = {} /\ CoreOK(q)
  BY <1>1, RegisteringIs
<1>4. CoreOK(p) /\ left' \in Seq(Int)
  BY <1>1, StartIs DEF ProcessInv
<1>5. args \in Invocations /\ args.names \in Nat
  BY Given DEF Invocations
<1> HIDE DEF q
<1>6. Opened(t, left, "_interactor")
  BY <1>3, <1>5, ReportingKeeps
<1> HIDE DEF t
<1>7. Opened(r, left, "_interactor")
  BY <1>6, Given, OpeningKeeps DEF Modes
<1> HIDE DEF r
<1>8. x \in Streams
  BY Given DEF Closed, Streams, Modes, FileContents
<1> HIDE DEF x
<1>9. r.pc = "main" => Opened(s, left, "_interactor")
  BY <1>7, <1>8, SetStreamKeeps DEF Opened
<1> HIDE DEF s
<1>10. r.pc = "main" => Opened(a, left, "_interactor")
  BY <1>9, Given, OpeningKeeps DEF Modes
<1> HIDE DEF a
<1>11. CASE \/ p' = r
            \/ r.pc = "main" /\ (p' = a \/ p' = s)
  BY <1>1, <1>4, <1>7, <1>9, <1>10, <1>11, StepKeeps DEF Opened, OpenOK
<1>12. CASE p' = Fail(p) \/ p' = Fail(q) \/ (r.pc = "main" /\ p' = Fail(r))
  <2>1. r.pc = "main" => CoreOK(r)
    BY <1>7 DEF Opened, LifeOK
  <2> QED BY <1>1, <1>3, <1>4, <1>12, <2>1, FailKeeps, StepKeeps
<1>13. CASE p' = __testlib_help(q)
  BY <1>1, <1>3, <1>4, <1>13, HelpKeeps, StepKeeps
<1> QED BY <1>2, <1>11, <1>12, <1>13

\* A program that is neither registers and starts its main.
LEMMA MainIs ==
  ASSUME ProcessInv, p.pc = "start", NEW kind \in {"_validator", "_scorer", "_generator"},
         NEW b \in BOOLEAN, NEW x \in Streams, x.mode = "_input",
         NEW q, q = [p EXCEPT !.registered = b, !.testlibMode = kind, !.pc = "main", !.inf = x]
  PROVE  Fresh(q) /\ ModesOK(q) /\ q.pc = "main" /\ q.testlibMode = kind /\ q.logNames = {}
<1>1. Fresh(p) /\ p.logNames = {} /\ p.ouf.mode = "_input" /\ p.ans.mode = "_input"
  BY StartIs
<1>a. p \in Globals
  BY <1>1 DEF Fresh
<1> DEFINE z == [p EXCEPT !.registered = b, !.testlibMode = kind]
<1>b. z \in Globals
  BY <1>a DEF Globals
<1>c. [z EXCEPT !.pc = "main", !.inf = x] \in Globals
  <2> HIDE DEF z
  <2> QED BY <1>b DEF Globals
<1>2. q \in Globals
  BY <1>c, Zenon
<1> HIDE DEF z
<1>3. /\ q.pc = "main" /\ q.testlibMode = kind /\ q.logNames = p.logNames
      /\ q.inf = x /\ q.ouf = p.ouf /\ q.ans = p.ans
      /\ q.result = p.result /\ q.exitCode = p.exitCode /\ q.quitCount = p.quitCount
      /\ q.readEofCount = p.readEofCount /\ q.report = p.report /\ q.logs = p.logs
      /\ q.alive = p.alive /\ q.disabled = p.disabled
  BY <1>a DEF Globals
<1> QED BY <1>1, <1>2, <1>3 DEF Fresh, ModesOK

LEMMA RegisterValidatorKeeps ==
  ASSUME ProcessInv, registerValidation
  PROVE  ProcessInv'
<1> DEFINE x == [Closed("_input") EXCEPT !.open = TRUE, !.strict = TRUE, !.rest = files.inf.bytes]
           q == [p EXCEPT !.registered = TRUE, !.testlibMode = "_validator", !.pc = "main",
                          !.inf = x]
           d == [q EXCEPT !.logNames = args.logs]
<1>1. p.pc = "start" /\ UNCHANGED <<files, args, left>> /\ left' \in Seq(Int)
  BY DEF registerValidation, ProcessInv
<1>2. p' = IF ~args.optionsFine THEN Fail(q) ELSE d
  BY DEF registerValidation
<1>3. x \in Streams /\ x.mode = "_input"
  BY Given DEF Closed, Streams, Modes, FileContents
<1> HIDE DEF x
<1>4. Fresh(q) /\ ModesOK(q) /\ q.pc = "main" /\ q.testlibMode = "_validator" /\ q.logNames = {}
  BY <1>1, <1>3, MainIs
<1> HIDE DEF q
<1>5. CASE p' = Fail(q)
  <2>1. CoreOK(q)
    BY <1>4, FreshIsOK
  <2> QED BY <1>1, <1>4, <1>5, <2>1, FailKeeps, StepKeeps
<1>6. CASE p' = d
  <2>1. args.logs \in SUBSET LogNames
    BY Given DEF Invocations
  <2>2. d \in Globals
    BY <1>4, <2>1 DEF Fresh, Globals
  <2>3. /\ d.pc = q.pc /\ d.testlibMode = q.testlibMode
        /\ d.inf = q.inf /\ d.ouf = q.ouf /\ d.ans = q.ans
        /\ d.result = q.result /\ d.exitCode = q.exitCode /\ d.quitCount = q.quitCount
        /\ d.readEofCount = q.readEofCount /\ d.report = q.report /\ d.logs = q.logs
        /\ d.alive = q.alive /\ d.disabled = q.disabled
    BY <1>4 DEF Fresh, Globals
  <2> HIDE DEF d
  <2>4. Fresh(d) /\ ModesOK(d) /\ d.testlibMode = "_validator" /\ d.pc = "main"
    BY <1>4, <2>2, <2>3 DEF Fresh, ModesOK
  <2>5. LifeOK(d, left')
    BY <2>4, FreshIsOK
  <2> QED BY <1>1, <1>6, <2>4, <2>5, StepKeeps DEF OpenOK
<1> QED BY <1>2, <1>5, <1>6

LEMMA RegisterGenKeeps ==
  ASSUME ProcessInv, registerGen
  PROVE  ProcessInv'
<1> DEFINE q == [p EXCEPT !.registered = TRUE, !.testlibMode = "_generator", !.pc = "main",
                          !.inf = p.inf]
<1>1. p.pc = "start" /\ UNCHANGED <<files, args, left>> /\ left' \in Seq(Int)
  BY DEF registerGen, ProcessInv
<1>2. CoreOK(p) /\ p \in Globals /\ p.inf \in Streams /\ p.inf.mode = "_input"
  BY <1>1, StartIs DEF CoreOK, Globals
<1>3. p' = q \/ p' = Fail(p)
  BY <1>2 DEF registerGen, Globals
<1>4. Fresh(q) /\ ModesOK(q) /\ q.pc = "main" /\ q.testlibMode = "_generator" /\ q.logNames = {}
  BY <1>1, <1>2, MainIs
<1> HIDE DEF q
<1>5. LifeOK(q, left')
  BY <1>4, FreshIsOK
<1> QED
  BY <1>1, <1>2, <1>3, <1>4, <1>5, FailKeeps, StepKeeps DEF OpenOK

LEMMA RegisterScorerKeeps ==
  ASSUME ProcessInv, registerScorer
  PROVE  ProcessInv'
<1> DEFINE x == [Closed("_input") EXCEPT !.open = TRUE, !.rest = files.inf.bytes]
           b == p.registered
           q == [p EXCEPT !.registered = b, !.testlibMode = "_scorer", !.pc = "main",
                          !.inf = x]
<1>1. p.pc = "start" /\ UNCHANGED <<files, args, left>> /\ left' \in Seq(Int)
  BY DEF registerScorer, ProcessInv
<1>2. p \in Globals /\ b \in BOOLEAN
  BY DEF ProcessInv, LifeOK, CoreOK, Globals
<1>3. x \in Streams /\ x.mode = "_input"
  BY Given DEF Closed, Streams, Modes, FileContents
<1>4. p' = q
  BY <1>2 DEF registerScorer, Globals
<1> HIDE DEF x, b
<1>5. Fresh(q) /\ ModesOK(q) /\ q.pc = "main" /\ q.testlibMode = "_scorer" /\ q.logNames = {}
  BY <1>1, <1>2, <1>3, MainIs, ZenonT(40)
<1> HIDE DEF q
<1>6. LifeOK(q, left')
  BY <1>5, FreshIsOK
<1> QED
  BY <1>1, <1>4, <1>5, <1>6, StepKeeps DEF OpenOK

-----------------------------------------------------------------------------
\* What main may do.

\* The streams of a program, whichever is read.
LEMMA StreamOf ==
  ASSUME NEW q, CoreOK(q), NEW field \in {"inf", "ouf", "ans"}
  PROVE  /\ q[field] \in Streams /\ q[field].mode \in Modes
         /\ q.testlibMode \notin {"_checker", "_interactor"} => q[field].mode = "_input"
<1>1. q.inf \in Streams /\ q.ouf \in Streams /\ q.ans \in Streams
  BY DEF CoreOK, Globals
<1>2. \A x \in Streams : x.mode \in Modes
  BY DEF Streams
<1>3. q.testlibMode \notin {"_checker", "_interactor"} =>
        q.inf.mode = "_input" /\ q.ouf.mode = "_input" /\ q.ans.mode = "_input"
  BY DEF CoreOK, ModesOK
<1> QED BY <1>1, <1>2, <1>3

\* Main ends with a quit of q, which is p but for a stream or the points.
LEMMA EndKeeps ==
  ASSUME ProcessInv, NEW q, CoreOK(q), q.pc \in {"start", "main"}, NEW field \in {"inf", "ouf", "ans"},
         NEW r \in Results, Ends(QuitOn(q, q[field].mode, r)),
         r = _ok /\ q.testlibMode = "_checker" /\ q[field].mode = "_output"
           => q.ouf = p.ouf /\ q.ouf.open
  PROVE  ProcessInv'
<1> DEFINE mode == q[field].mode
           d == QuitOn(q, mode, r)
<1>1. p' = d /\ left' = p.ouf.rest /\ UNCHANGED <<files, args>>
  BY DEF Ends
<1>2. left' \in Seq(Int)
  BY <1>1 DEF ProcessInv, LifeOK, CoreOK, Globals, Streams
<1>3. mode \in Modes /\ (q.testlibMode \notin {"_checker", "_interactor"} => mode # "_output")
  BY StreamOf
<1>4. r = _ok /\ q.testlibMode = "_checker" /\ mode = "_output" => left' = q.ouf.rest /\ q.ouf.open
  BY <1>1
<1> HIDE DEF mode
<1>5. LifeOK(d, left') /\ d.pc = "atexit"
  BY <1>3, <1>4, QuitKeeps
<1> HIDE DEF d
<1> QED BY <1>1, <1>2, <1>5, StepKeeps

LEMMA ReadTokenKeeps ==
  ASSUME ProcessInv, NEW field \in {"inf", "ouf", "ans"}, ReadToken(field)
  PROVE  ProcessInv'
<1> DEFINE in == p[field]
           r == readWordTo(in)
           x == r.in
           q == [p EXCEPT ![field] = x]
<1>1. p.pc = "main" /\ in.open
  BY DEF ReadToken, Running
<1>2. \/ r.quit # NoQuit /\ Ends(QuitOn(q, in.mode, r.quit))
      \/ r.quit = NoQuit /\ p' = q /\ UNCHANGED <<files, args, left>>
  BY DEF ReadToken
<1>3. CoreOK(p) /\ p \in Globals /\ OpenOK(p) /\ EofOK(p) /\ ReadOK(p, left) /\ left \in Seq(Int)
  BY DEF ProcessInv, LifeOK, CoreOK
<1>4. in \in Streams
  BY <1>3, StreamOf
<1>5. /\ x \in Streams /\ x.mode = in.mode /\ x.open = in.open
      /\ r.quit \in {NoQuit, _unexpected_eof, _pe}
      /\ in.rest = <<>> => r.quit # NoQuit
  BY <1>4, ReadWordIs
<1> HIDE DEF r, x
<1>6. /\ q \in Globals /\ SameButStreams(q, p)
      /\ q.inf = IF field = "inf" THEN x ELSE p.inf
      /\ q.ouf = IF field = "ouf" THEN x ELSE p.ouf
      /\ q.ans = IF field = "ans" THEN x ELSE p.ans
  BY <1>3, <1>5, SetStreamIs
<1>7. q[field] = x
  BY <1>6
<1> HIDE DEF q
<1>8. CoreOK(q) /\ q.pc = "main"
  <2>1. PlaceOK(q) /\ ResultOK(q)
    BY <1>3, <1>6 DEF CoreOK, PlaceOK, ResultOK, SameButStreams
  <2>2. ModesOK(q)
    BY <1>3, <1>5, <1>6 DEF CoreOK, ModesOK, SameButStreams
  <2>3. LogsOK(q)
    BY <1>1, <1>3, <1>6 DEF CoreOK, PlaceOK, LogsOK, SameButStreams
  <2> QED BY <1>1, <1>6, <2>1, <2>2, <2>3 DEF CoreOK, SameButStreams
<1>9. CASE r.quit # NoQuit
  <2>1. r.quit \in Results /\ r.quit # _ok
    BY <1>5, <1>9, ProgramAssumption DEF _unexpected_eof, _pe, _ok
  <2>2. Ends(QuitOn(q, q[field].mode, r.quit))
    BY <1>2, <1>5, <1>7, <1>9
  <2> QED BY <1>8, <2>1, <2>2, EndKeeps
<1>10. CASE r.quit = NoQuit
  <2>1. EofOK(q) /\ ReadOK(q, left)
    BY <1>3, <1>5, <1>6, <1>10 DEF EofOK, ReadOK, SameButStreams
  <2>2. OpenOK(q)
    BY <1>1, <1>3, <1>5, <1>6 DEF OpenOK, SameButStreams
  <2> QED BY <1>2, <1>3, <1>8, <1>10, <2>1, <2>2, StepKeeps DEF LifeOK
<1> QED BY <1>9, <1>10

LEMMA ReadEofKeeps ==
  ASSUME ProcessInv, ReadEofOfInput
  PROVE  ProcessInv'
<1>1. p.pc = "main" /\ p.inf.open
  BY DEF ReadEofOfInput, Running
<1>2. CoreOK(p) /\ p \in Globals /\ OpenOK(p) /\ EofOK(p) /\ ReadOK(p, left) /\ left \in Seq(Int)
  BY DEF ProcessInv, LifeOK, CoreOK
<1>3. CASE eof(p.inf)
  <2> DEFINE n == IF p.alive THEN 1 ELSE p.readEofCount
  <2>1. p' = [p EXCEPT !.readEofCount = n] /\ UNCHANGED <<files, args, left>>
    BY <1>2, <1>3 DEF ReadEofOfInput, Globals
  <2>2. p.inf.rest = <<>>
    BY <1>1, <1>3 DEF eof
  <2>3. n \in 0..1
    <3>1. 1 \in 0..1
      OBVIOUS
    <3>2. p.readEofCount \in 0..1
      BY <1>2 DEF Globals
    <3> QED BY <3>1, <3>2, Zenon
  <2> HIDE DEF n
  <2>4. p' \in Globals
    BY <1>2, <2>1, <2>3 DEF Globals
  <2>5. /\ p'.pc = p.pc /\ p'.testlibMode = p.testlibMode /\ p'.alive = p.alive
        /\ p'.quitCount = p.quitCount /\ p'.inf = p.inf /\ p'.ouf = p.ouf /\ p'.ans = p.ans
        /\ p'.resultName = p.resultName /\ p'.report = p.report /\ p'.logNames = p.logNames
        /\ p'.logs = p.logs /\ p'.exitCode = p.exitCode /\ p'.blamed = p.blamed
        /\ p'.result = p.result /\ p'.disabled = p.disabled
    BY <1>2, <2>1 DEF Globals
  <2>6. PlaceOK(p') /\ ModesOK(p')
    BY <1>2, <2>5 DEF CoreOK, PlaceOK, ModesOK
  <2>7. ResultOK(p') /\ LogsOK(p')
    BY <1>2, <2>5 DEF CoreOK, ResultOK, LogsOK
  <2>8. EofOK(p') /\ ReadOK(p', left') /\ OpenOK(p')
    BY <1>2, <2>1, <2>2, <2>5 DEF EofOK, ReadOK, OpenOK
  <2> QED
    BY <1>1, <1>2, <2>1, <2>4, <2>5, <2>6, <2>7, <2>8, StepKeeps DEF LifeOK, CoreOK
<1>4. CASE ~eof(p.inf)
  <2>1. Ends(QuitOn(p, p["inf"].mode, _pe))
    BY <1>4 DEF ReadEofOfInput
  <2>2. _pe \in Results /\ _pe # _ok
    BY ProgramAssumption DEF _pe, _ok
  <2> QED BY <1>1, <1>2, <2>1, <2>2, EndKeeps
<1> QED BY <1>3, <1>4

LEMMA QuitfKeeps ==
  ASSUME ProcessInv, NEW field \in {"inf", "ouf", "ans"}, NEW r \in Results,
         p.pc \in {"start", "main"}, Ends(QuitOn(p, p[field].mode, r))
  PROVE  ProcessInv'
<1>1. CoreOK(p)
  BY DEF ProcessInv, LifeOK
<1>2. p.testlibMode = "_checker" => p.ouf.open
  BY DEF ProcessInv, StartOK, OpenOK
<1> QED BY <1>1, <1>2, EndKeeps

\* quitp and quitpi.
LEMMA QuitpKeeps ==
  ASSUME ProcessInv, NEW kind, Quitp(kind)
  PROVE  ProcessInv'
<1> DEFINE q == [p EXCEPT !.points = "set"]
<1>1. p.pc = "main" /\ {_points, _fail} \subseteq Results /\ _points # _ok
  BY ProgramAssumption DEF Quitp, Running, _points, _ok
<1>2. \/ Ends(QuitOn(q, p["ouf"].mode, _points)) \/ Ends(QuitOn(p, p["ouf"].mode, _fail))
  BY DEF Quitp, Fail
<1>3. CoreOK(p) /\ p \in Globals
  BY DEF ProcessInv, LifeOK, CoreOK
<1>4. CoreOK(q) /\ q.pc = "main" /\ q.ouf = p.ouf
  <2>1. q \in Globals
    BY <1>3 DEF Globals
  <2>2. /\ q.pc = p.pc /\ q.testlibMode = p.testlibMode /\ q.alive = p.alive
        /\ q.readEofCount = p.readEofCount
        /\ q.quitCount = p.quitCount /\ q.inf = p.inf /\ q.ouf = p.ouf /\ q.ans = p.ans
        /\ q.resultName = p.resultName /\ q.report = p.report /\ q.logNames = p.logNames
        /\ q.logs = p.logs /\ q.exitCode = p.exitCode /\ q.blamed = p.blamed
        /\ q.result = p.result /\ q.disabled = p.disabled
    BY <1>3 DEF Globals
  <2> HIDE DEF q
  <2>3. PlaceOK(q) /\ ModesOK(q)
    BY <1>3, <2>2 DEF CoreOK, PlaceOK, ModesOK
  <2>4. ResultOK(q) /\ LogsOK(q)
    BY <1>3, <2>2 DEF CoreOK, ResultOK, LogsOK
  <2> QED BY <1>1, <2>1, <2>2, <2>3, <2>4 DEF CoreOK
<1> HIDE DEF q
<1>5. CASE Ends(QuitOn(q, p["ouf"].mode, _points))
  <2>1. Ends(QuitOn(q, q["ouf"].mode, _points))
    BY <1>4, <1>5
  <2> QED BY <1>1, <1>4, <2>1, EndKeeps
<1>6. CASE Ends(QuitOn(p, p["ouf"].mode, _fail))
  BY <1>1, <1>6, QuitfKeeps
<1> QED BY <1>2, <1>5, <1>6

LEMMA QuitpiKeeps ==
  ASSUME ProcessInv, NEW hasSpace \in BOOLEAN, Quitpi(hasSpace)
  PROVE  ProcessInv'
<1> DEFINE r == IF hasSpace THEN _fail ELSE _points
<1>1. p.pc = "main" /\ r \in Results
  BY ProgramAssumption DEF Quitpi, Running
<1>2. Ends(QuitOn(p, p["ouf"].mode, r))
  BY DEF Quitpi
<1> HIDE DEF r
<1> QED BY <1>1, <1>2, QuitfKeeps

LEMMA ReturnKeeps ==
  ASSUME ProcessInv, ReturnFromMain
  PROVE  ProcessInv'
<1>1. p.pc \in {"start", "main"} /\ CoreOK(p) /\ p \in Globals /\ EofOK(p)
  BY DEF ReturnFromMain, ProcessInv, LifeOK, CoreOK
<1>2. p' = [p EXCEPT !.pc = "atexit"] /\ left' = p.ouf.rest /\ UNCHANGED <<files, args>>
  BY DEF ReturnFromMain, Ends
<1>3. left' \in Seq(Int) /\ NoQuit # _ok
  <2>1. left' \in Seq(Int)
    BY <1>1, <1>2 DEF Globals, Streams
  <2>2. NoQuit # _ok
    BY DEF NoQuit, _ok
  <2> QED BY <2>1, <2>2
<1>4. p' \in Globals
  BY <1>1, <1>2 DEF Globals
<1>5. /\ p'.pc = "atexit" /\ p'.testlibMode = p.testlibMode /\ p'.alive = p.alive
      /\ p'.readEofCount = p.readEofCount
      /\ p'.quitCount = p.quitCount /\ p'.inf = p.inf /\ p'.ouf = p.ouf /\ p'.ans = p.ans
      /\ p'.resultName = p.resultName /\ p'.report = p.report /\ p'.logNames = p.logNames
      /\ p'.logs = p.logs /\ p'.exitCode = p.exitCode /\ p'.blamed = p.blamed
      /\ p'.result = p.result /\ p'.disabled = p.disabled
  BY <1>1, <1>2 DEF Globals
<1>6. PlaceOK(p') /\ ModesOK(p') /\ p.result = NoQuit
  BY <1>1, <1>5 DEF CoreOK, PlaceOK, ModesOK
<1>7. ResultOK(p') /\ LogsOK(p')
  BY <1>1, <1>5 DEF CoreOK, ResultOK, LogsOK
<1>8. EofOK(p') /\ ReadOK(p', left')
  BY <1>1, <1>3, <1>5, <1>6 DEF EofOK, ReadOK
<1> QED
  BY <1>2, <1>3, <1>4, <1>5, <1>6, <1>7, <1>8, StepKeeps DEF LifeOK, CoreOK

LEMMA DisableKeeps ==
  ASSUME ProcessInv, disableFinalizeGuard
  PROVE  ProcessInv'
<1>1. p.pc = "main" /\ CoreOK(p) /\ p \in Globals /\ EofOK(p) /\ ReadOK(p, left) /\ OpenOK(p)
  BY DEF disableFinalizeGuard, Running, ProcessInv, LifeOK, CoreOK
<1>2. p' = [p EXCEPT !.alive = FALSE, !.disabled = TRUE] /\ UNCHANGED <<files, args, left>>
  BY DEF disableFinalizeGuard
<1>3. left' \in Seq(Int)
  BY <1>2 DEF ProcessInv
<1>4. p' \in Globals
  BY <1>1, <1>2 DEF Globals
<1>5. /\ p'.pc = p.pc /\ p'.testlibMode = p.testlibMode /\ p'.alive = FALSE
      /\ p'.readEofCount = p.readEofCount
      /\ p'.quitCount = p.quitCount /\ p'.inf = p.inf /\ p'.ouf = p.ouf /\ p'.ans = p.ans
      /\ p'.resultName = p.resultName /\ p'.report = p.report /\ p'.logNames = p.logNames
      /\ p'.logs = p.logs /\ p'.exitCode = p.exitCode /\ p'.blamed = p.blamed
      /\ p'.result = p.result /\ p'.disabled = TRUE
  BY <1>1, <1>2 DEF Globals
<1>6. PlaceOK(p') /\ ModesOK(p')
  BY <1>1, <1>5 DEF CoreOK, PlaceOK, ModesOK
<1>7. ResultOK(p') /\ LogsOK(p')
  BY <1>1, <1>5 DEF CoreOK, ResultOK, LogsOK
<1>8. EofOK(p') /\ ReadOK(p', left') /\ OpenOK(p')
  BY <1>1, <1>2, <1>5 DEF EofOK, ReadOK, OpenOK
<1> QED
  BY <1>1, <1>2, <1>3, <1>4, <1>5, <1>6, <1>7, <1>8, StepKeeps DEF LifeOK, CoreOK

-----------------------------------------------------------------------------
\* The destructors.

\* A validator's quits all fail; so does every exit with a result _fail.
LEMMA ValidatorsFail ==
  ASSUME NEW q, CoreOK(q), q.exitCode = 0
  PROVE  /\ q.result # _fail
         /\ q.testlibMode = "_validator" => q.result = NoQuit /\ q.quitCount = 0
<1>1. q.result # _fail
  BY ExitCodes DEF CoreOK, ResultOK, NoQuit, _fail
<1> QED BY <1>1 DEF CoreOK, ResultOK

\* The guard's failure, at exit with the guard switched off and w written.
LEMMA LateFail ==
  ASSUME NEW q, q \in Globals, q.alive = FALSE, ModesOK(q), LogsOK(q), q.report = {} \/ q.resultName = "file",
         NEW l, NEW d, d = [Fail(q) EXCEPT !.pc = "scorer"]
  PROVE  LifeOK(d, l) /\ d.pc = "scorer" /\ GuardOK(d)
<1> DEFINE f == Fail(q)
<1>1. q.ouf.mode \in Modes /\ _fail \in Results /\ _fail # NoQuit /\ _fail # _ok
  <2>1. q.ouf.mode \in Modes
    BY DEF Globals, Streams
  <2>2. _fail # NoQuit /\ _fail # _ok
    BY DEF _fail, NoQuit, _ok
  <2> QED BY <2>1, <2>2, ProgramAssumption
<1>2. HasQuit(f, q, q.ouf.mode, _fail)
  BY <1>1, QuitIs DEF Fail
<1> HIDE DEF f
<1>3. /\ f \in Globals /\ SameProgram(f, q) /\ f.quitCount = q.quitCount
      /\ f.result = _fail /\ f.exitCode = resultExitCode(_fail)
      /\ f.report = IF q.resultName = "file" THEN {_fail} ELSE q.report
      /\ f.resultName = IF q.resultName = "bad" THEN "" ELSE q.resultName
  BY <1>2 DEF HasQuit
<1>4. f.exitCode # 0
  BY <1>3, ExitCodes
<1>5. d = [f EXCEPT !.pc = "scorer"]
  BY DEF f
<1>a. f \in Globals
  BY <1>3
<1>6. d \in Globals
  BY <1>a, <1>5, ZenonT(40) DEF Globals
<1>7. /\ d.pc = "scorer" /\ d.testlibMode = f.testlibMode /\ d.alive = f.alive
      /\ d.registered = f.registered /\ d.readEofCount = f.readEofCount
      /\ d.quitCount = f.quitCount /\ d.inf = f.inf /\ d.ouf = f.ouf /\ d.ans = f.ans
      /\ d.resultName = f.resultName /\ d.report = f.report /\ d.logNames = f.logNames
      /\ d.logs = f.logs /\ d.exitCode = f.exitCode
      /\ d.result = f.result /\ d.disabled = f.disabled
  BY <1>a, <1>5 DEF Globals
<1>8. PlaceOK(d) /\ ModesOK(d)
  BY <1>3, <1>7 DEF PlaceOK, ModesOK, SameProgram
<1>9. ResultOK(d)
  <2>1. d.report \subseteq {_fail} /\ (d.report # {} => d.resultName = "file")
    BY <1>3, <1>7
  <2> QED BY <1>1, <1>3, <1>7, <2>1 DEF ResultOK
<1>10. LogsOK(d)
  BY <1>3, <1>7 DEF LogsOK, SameProgram
<1>11. EofOK(d) /\ ReadOK(d, l) /\ GuardOK(d)
  BY <1>1, <1>3, <1>4, <1>7 DEF EofOK, ReadOK, GuardOK
<1> QED BY <1>6, <1>7, <1>8, <1>9, <1>10, <1>11 DEF LifeOK, CoreOK

\* d is p with the guard switched off and the logs w written.
Guarded(d, w) ==
  /\ d \in Globals /\ d.alive = FALSE /\ d.logs = w
  /\ d.pc = p.pc /\ d.testlibMode = p.testlibMode /\ d.registered = p.registered
  /\ d.readEofCount = p.readEofCount
  /\ d.quitCount = p.quitCount /\ d.inf = p.inf /\ d.ouf = p.ouf /\ d.ans = p.ans
  /\ d.resultName = p.resultName /\ d.report = p.report /\ d.logNames = p.logNames
  /\ d.exitCode = p.exitCode /\ d.blamed = p.blamed
  /\ d.result = p.result /\ d.disabled = p.disabled
  /\ ModesOK(d) /\ ResultOK(d) /\ EofOK(d) /\ ReadOK(d, left)
  /\ d.report = {} \/ d.resultName = "file"

\* The guard is switched off before it says anything.
LEMMA GuardedIs ==
  ASSUME ProcessInv, NEW w \in SUBSET LogNames,
         NEW d, d = [p EXCEPT !.alive = FALSE, !.logs = w]
  PROVE  Guarded(d, w)
<1>1. p \in Globals /\ CoreOK(p) /\ EofOK(p) /\ ReadOK(p, left)
  BY DEF ProcessInv, LifeOK, CoreOK
<1>2. d \in Globals
  BY <1>1 DEF Globals
<1>3. /\ d.alive = FALSE /\ d.logs = w
      /\ d.pc = p.pc /\ d.testlibMode = p.testlibMode /\ d.registered = p.registered
      /\ d.readEofCount = p.readEofCount
      /\ d.quitCount = p.quitCount /\ d.inf = p.inf /\ d.ouf = p.ouf /\ d.ans = p.ans
      /\ d.resultName = p.resultName /\ d.report = p.report /\ d.logNames = p.logNames
      /\ d.exitCode = p.exitCode /\ d.blamed = p.blamed
      /\ d.result = p.result /\ d.disabled = p.disabled
  BY <1>1 DEF Globals
<1>4. ModesOK(d)
  BY <1>1, <1>3 DEF CoreOK, ModesOK
<1>5. ResultOK(d) /\ (d.report = {} \/ d.resultName = "file")
  BY <1>1, <1>3 DEF CoreOK, ResultOK
<1>6. EofOK(d) /\ ReadOK(d, left)
  BY <1>1, <1>3 DEF EofOK, ReadOK
<1> QED BY <1>2, <1>3, <1>4, <1>5, <1>6 DEF Guarded

\* The guard has nothing to object to.
LEMMA LateDone ==
  ASSUME NEW q, q \in Globals, ModesOK(q), ResultOK(q), EofOK(q), LogsOK(q), NEW l, ReadOK(q, l),
         NEW d, d = [q EXCEPT !.pc = "scorer"]
  PROVE  /\ LifeOK(d, l) /\ d.pc = "scorer" /\ d.disabled = q.disabled /\ d.exitCode = q.exitCode
         /\ d.registered = q.registered /\ d.testlibMode = q.testlibMode
         /\ d.quitCount = q.quitCount /\ d.readEofCount = q.readEofCount
<1>1. d \in Globals
  BY DEF Globals
<1>2. /\ d.pc = "scorer" /\ d.testlibMode = q.testlibMode /\ d.registered = q.registered
      /\ d.readEofCount = q.readEofCount /\ d.logs = q.logs
      /\ d.quitCount = q.quitCount /\ d.inf = q.inf /\ d.ouf = q.ouf /\ d.ans = q.ans
      /\ d.resultName = q.resultName /\ d.report = q.report /\ d.logNames = q.logNames
      /\ d.exitCode = q.exitCode /\ d.blamed = q.blamed
      /\ d.result = q.result /\ d.disabled = q.disabled
  BY DEF Globals
<1>3. PlaceOK(d) /\ ModesOK(d)
  BY <1>2 DEF PlaceOK, ModesOK
<1>4. ResultOK(d) /\ LogsOK(d)
  BY <1>2 DEF ResultOK, LogsOK
<1>5. EofOK(d) /\ ReadOK(d, l)
  BY <1>2 DEF EofOK, ReadOK
<1> QED BY <1>1, <1>2, <1>3, <1>4, <1>5 DEF LifeOK, CoreOK

\* What the guard has let pass.
LEMMA PassedIs ==
  ASSUME ProcessInv, p.pc = "atexit", p.exitCode = 0, ~(p.alive /\ Unfinished(p))
  PROVE  /\ ~p.disabled => /\ p.registered
                           /\ p.testlibMode = "_checker" => p.quitCount = 1
                           /\ p.testlibMode = "_validator" => p.readEofCount = 1
         /\ p.testlibMode = "_validator" =>
              p.quitCount = 0 /\ (p.inf.rest = <<>> \/ p.disabled)
<1>1. CoreOK(p) /\ EofOK(p) /\ p \in Globals
  BY DEF ProcessInv, LifeOK, CoreOK
<1>2. p.testlibMode = "_validator" => p.result = NoQuit /\ p.quitCount = 0
  BY <1>1, ValidatorsFail
<1>3. (p.quitCount = 0 \/ p.quitCount = 1) /\ (p.readEofCount = 0 \/ p.readEofCount = 1)
  <2>1. p.quitCount \in 0..1 /\ p.readEofCount \in 0..1
    BY <1>1 DEF Globals
  <2> QED BY <2>1
<1>4. ASSUME ~p.disabled
      PROVE  /\ p.registered
             /\ p.testlibMode = "_checker" => p.quitCount = 1
             /\ p.testlibMode = "_validator" => p.readEofCount = 1
  <2>1. ~Unfinished(p)
    BY <1>1, <1>4 DEF CoreOK, PlaceOK
  <2> QED BY <1>2, <1>3, <2>1 DEF Unfinished
<1>5. ASSUME p.testlibMode = "_validator" PROVE p.quitCount = 0 /\ (p.inf.rest = <<>> \/ p.disabled)
  BY <1>1, <1>2, <1>4, <1>5 DEF EofOK
<1> QED BY <1>4, <1>5

LEMMA FinalizeKeeps ==
  ASSUME ProcessInv, FinalizeGuard
  PROVE  ProcessInv'
<1> DEFINE q == [p EXCEPT !.alive = FALSE]
<1>1. PICK noted \in BOOLEAN :
        p' = [(IF p.alive /\ Unfinished(p) THEN Fail(q)
               ELSE IF q.exitCode = 0 THEN WritingLogs(q, noted) ELSE q) EXCEPT !.pc = "scorer"]
  BY DEF FinalizeGuard
<1>2. p.pc = "atexit" /\ UNCHANGED <<files, args, left>>
  BY DEF FinalizeGuard
<1>3. CoreOK(p) /\ p \in Globals /\ p.logs = {}
  BY <1>2 DEF ProcessInv, LifeOK, CoreOK, PlaceOK
<1>4. q = [p EXCEPT !.alive = FALSE, !.logs = {}]
  BY <1>3 DEF Globals
<1>5. {} \in SUBSET LogNames
  OBVIOUS
<1> HIDE DEF q
<1>a. Guarded(q, {})
  BY <1>4, <1>5, GuardedIs
<1>6. /\ q \in Globals /\ q.alive = FALSE /\ q.logs = {} /\ q.logNames = p.logNames
      /\ q.testlibMode = p.testlibMode /\ q.exitCode = p.exitCode /\ q.inf = p.inf
      /\ ModesOK(q) /\ ResultOK(q) /\ EofOK(q) /\ ReadOK(q, left)
      /\ q.report = {} \/ q.resultName = "file"
  BY <1>a DEF Guarded
<1>7. LogsOK(q)
  BY <1>3, <1>6 DEF CoreOK, LogsOK
<1> SUFFICES LifeOK(p', left) /\ p'.pc = "scorer" /\ GuardOK(p')
  BY <1>2 DEF ProcessInv, StartOK, OpenOK
<1>8. CASE p.alive /\ Unfinished(p)
  <2>1. p' = [Fail(q) EXCEPT !.pc = "scorer"]
    BY <1>1, <1>8
  <2> QED BY <1>6, <1>7, <2>1, LateFail
<1>9. CASE ~(p.alive /\ Unfinished(p)) /\ q.exitCode # 0
  <2>1. p' = [q EXCEPT !.pc = "scorer"]
    BY <1>1, <1>9
  <2>2. LifeOK(p', left) /\ p'.pc = "scorer" /\ p'.exitCode # 0
    BY <1>6, <1>7, <1>9, <2>1, LateDone
  <2> QED BY <2>2 DEF GuardOK
<1>10. CASE ~(p.alive /\ Unfinished(p)) /\ q.exitCode = 0
  <2>1. p' = [WritingLogs(q, noted) EXCEPT !.pc = "scorer"]
    BY <1>1, <1>10
  <2> DEFINE wanted == {x \in q.logNames : x = "overview" \/ (q.inf.open /\ noted)}
             bad == wanted \cap args.badLogs
             before == [overview |-> {}, markup |-> {"overview"}, testcase |-> {"overview", "markup"}]
             written == {x \in wanted : (before[x] \cup {x}) \cap bad = {}}
             d == [q EXCEPT !.logs = written]
  <2>2. WritingLogs(q, noted) = IF bad = {} THEN d ELSE Fail(d)
    BY DEF WritingLogs
  <2>3. written \subseteq p.logNames
    BY <1>6
  <2>4. written \in SUBSET LogNames
    BY <1>3, <2>3 DEF Globals
  <2> HIDE DEF bad, written
  <2>5. d = [p EXCEPT !.alive = FALSE, !.logs = written]
    BY <1>3 DEF q, Globals
  <2> HIDE DEF d
  <2>a. Guarded(d, written)
    BY <2>4, <2>5, GuardedIs
  <2>6. /\ d \in Globals /\ d.alive = FALSE /\ d.logs = written /\ d.logNames = p.logNames
        /\ d.testlibMode = p.testlibMode /\ d.exitCode = p.exitCode /\ d.inf = p.inf
        /\ d.registered = p.registered /\ d.readEofCount = p.readEofCount
        /\ d.quitCount = p.quitCount /\ d.disabled = p.disabled
        /\ ModesOK(d) /\ ResultOK(d) /\ EofOK(d) /\ ReadOK(d, left)
        /\ d.report = {} \/ d.resultName = "file"
    BY <2>a DEF Guarded
  <2>7. /\ ~p.disabled => /\ p.registered
                          /\ p.testlibMode = "_checker" => p.quitCount = 1
                          /\ p.testlibMode = "_validator" => p.readEofCount = 1
        /\ p.testlibMode = "_validator" => p.quitCount = 0 /\ (p.inf.rest = <<>> \/ p.disabled)
    BY <1>2, <1>6, <1>10, PassedIs
  <2>8. LogsOK(d)
    BY <1>3, <2>3, <2>6, <2>7 DEF CoreOK, LogsOK
  <2>9. CASE bad = {}
    <3>1. p' = [d EXCEPT !.pc = "scorer"]
      BY <2>1, <2>2, <2>9
    <3>2. /\ LifeOK(p', left) /\ p'.pc = "scorer" /\ p'.disabled = d.disabled
          /\ p'.registered = d.registered /\ p'.testlibMode = d.testlibMode
          /\ p'.quitCount = d.quitCount /\ p'.readEofCount = d.readEofCount
      BY <2>6, <2>8, <3>1, LateDone
    <3> QED BY <2>6, <2>7, <3>2 DEF GuardOK
  <2>10. CASE bad # {}
    <3>1. p' = [Fail(d) EXCEPT !.pc = "scorer"]
      BY <2>1, <2>2, <2>10
    <3> QED BY <2>6, <2>8, <3>1, LateFail
  <2> QED BY <2>9, <2>10
<1> QED BY <1>8, <1>9, <1>10

LEMMA ScorerKeeps ==
  ASSUME ProcessInv, ScorerGuard
  PROVE  ProcessInv'
<1> DEFINE s == IF p.testlibMode # "_scorer" THEN "none"
                ELSE IF p.inf.open THEN "printed" ELSE "crash"
<1>1. /\ p.pc = "scorer" /\ UNCHANGED <<files, args, left>>
      /\ p' = [p EXCEPT !.pc = "dead", !.score = s]
  BY DEF ScorerGuard
<1>2. CoreOK(p) /\ p \in Globals /\ EofOK(p) /\ ReadOK(p, left) /\ GuardOK(p)
  BY DEF ProcessInv, LifeOK, CoreOK
<1>3. s \in {"none", "printed", "crash"}
  OBVIOUS
<1> HIDE DEF s
<1>4. p' \in Globals
  BY <1>1, <1>2, <1>3 DEF Globals
<1>5. /\ p'.pc = "dead" /\ p'.testlibMode = p.testlibMode /\ p'.registered = p.registered
      /\ p'.readEofCount = p.readEofCount /\ p'.logs = p.logs
      /\ p'.quitCount = p.quitCount /\ p'.inf = p.inf /\ p'.ouf = p.ouf /\ p'.ans = p.ans
      /\ p'.resultName = p.resultName /\ p'.report = p.report /\ p'.logNames = p.logNames
      /\ p'.exitCode = p.exitCode /\ p'.blamed = p.blamed
      /\ p'.result = p.result /\ p'.disabled = p.disabled
  BY <1>1, <1>2 DEF Globals
<1>6. PlaceOK(p') /\ ModesOK(p')
  BY <1>2, <1>5 DEF CoreOK, PlaceOK, ModesOK
<1>7. ResultOK(p') /\ LogsOK(p')
  BY <1>2, <1>5 DEF CoreOK, ResultOK, LogsOK
<1>8. EofOK(p') /\ ReadOK(p', left')
  BY <1>1, <1>2, <1>5 DEF EofOK, ReadOK
<1>9. StartOK(p') /\ OpenOK(p') /\ GuardOK(p')
  BY <1>1, <1>2, <1>5 DEF StartOK, OpenOK, GuardOK
<1> QED
  BY <1>1, <1>4, <1>6, <1>7, <1>8, <1>9 DEF ProcessInv, LifeOK, CoreOK

-----------------------------------------------------------------------------
\* The theorems.

LEMMA InitOK ==
  ASSUME Init
  PROVE  ProcessInv
<1>1. /\ files \in [inf : Inputs, ouf : Outputs, ans : Answers] /\ args \in CommandLines
      /\ left = <<>>
  BY DEF Init
<1>2. Closed("_input") \in Streams /\ Closed("_input").mode = "_input" /\ <<>> \in Seq(Int)
  BY EmptySeq DEF Closed, Streams, Modes
<1> DEFINE c == Closed("_input")
<1>3. p = [pc |-> "start", testlibMode |-> "_unknown",
           alive |-> TRUE, registered |-> FALSE, quitCount |-> 0, readEofCount |-> 0,
           inf |-> c, ouf |-> c, ans |-> c,
           resultName |-> "", appesMode |-> FALSE, points |-> "inf", report |-> {},
           logNames |-> {}, logs |-> {}, exitCode |-> 0, score |-> "none",
           blamed |-> "nobody", result |-> NoQuit, disabled |-> FALSE]
  BY DEF Init
<1> HIDE DEF c
<1>4. c \in Streams /\ NoQuit \in Int /\ 0 \in 0..1
  BY <1>2 DEF c, NoQuit
<1>5. p \in Globals
  BY <1>3, <1>4 DEF Globals
<1>6. /\ p.pc = "start" /\ p.testlibMode = "_unknown" /\ p.alive = TRUE /\ p.disabled = FALSE
      /\ p.inf = c /\ p.ouf = c /\ p.ans = c /\ p.logNames = {} /\ p.logs = {} /\ p.report = {}
      /\ p.exitCode = 0 /\ p.quitCount = 0 /\ p.readEofCount = 0 /\ p.result = NoQuit
      /\ p.resultName = ""
  BY <1>3
<1>7. Fresh(p) /\ ModesOK(p)
  BY <1>2, <1>5, <1>6 DEF Fresh, ModesOK, c
<1>8. LifeOK(p, left)
  BY <1>6, <1>7, FreshIsOK
<1>9. StartOK(p) /\ OpenOK(p) /\ GuardOK(p)
  BY <1>6 DEF StartOK, OpenOK, GuardOK
<1> QED BY <1>1, <1>2, <1>8, <1>9 DEF ProcessInv

LEMMA NextKeeps ==
  ASSUME ProcessInv, [Next]_vars
  PROVE  ProcessInv'
<1>1. CASE registerTestlibCmd
  BY <1>1, RegisterCheckerKeeps
<1>2. CASE registerInteraction
  BY <1>2, RegisterInteractorKeeps
<1>3. CASE registerValidation
  BY <1>3, RegisterValidatorKeeps
<1>4. CASE registerScorer
  BY <1>4, RegisterScorerKeeps
<1>5. CASE registerGen
  BY <1>5, RegisterGenKeeps
<1>6. CASE \E field \in {"inf", "ouf", "ans"} : ReadToken(field)
  BY <1>6, ReadTokenKeeps
<1>7. CASE ReadEofOfInput
  BY <1>7, ReadEofKeeps
<1>8. CASE \E result \in Results : Quitf(result)
  <2>1. PICK result \in Results : Quitf(result)
    BY <1>8
  <2>2. p.pc \in {"start", "main"} /\ Ends(QuitOn(p, p["ouf"].mode, result))
    BY <2>1 DEF Quitf
  <2> QED BY <2>2, QuitfKeeps
<1>9. CASE \E field \in {"inf", "ans"}, result \in Results : StreamQuitf(field, result)
  <2>1. PICK field \in {"inf", "ans"}, result \in Results : StreamQuitf(field, result)
    BY <1>9
  <2>2. p.pc \in {"start", "main"} /\ Ends(QuitOn(p, p[field].mode, result))
    BY <2>1 DEF StreamQuitf, Running
  <2> QED BY <2>2, QuitfKeeps
<1>10. CASE \E kind \in {"fine", "nan"} : Quitp(kind)
  BY <1>10, QuitpKeeps
<1>11. CASE \E hasSpace \in BOOLEAN : Quitpi(hasSpace)
  BY <1>11, QuitpiKeeps
<1>12. CASE ReturnFromMain
  BY <1>12, ReturnKeeps
<1>13. CASE disableFinalizeGuard
  BY <1>13, DisableKeeps
<1>14. CASE FinalizeGuard
  BY <1>14, FinalizeKeeps
<1>15. CASE ScorerGuard
  BY <1>15, ScorerKeeps
<1>16. CASE Dead \/ UNCHANGED vars
  <2>1. p' = p /\ files' = files /\ args' = args /\ left' = left
    BY <1>16 DEF Dead, vars
  <2> QED BY <2>1 DEF ProcessInv
<1> QED
  BY <1>1, <1>2, <1>3, <1>4, <1>5, <1>6, <1>7, <1>8, <1>9, <1>10, <1>11, <1>12, <1>13, <1>14,
     <1>15, <1>16 DEF Next

\* The inductive invariant: quit, the guards and the reads of a program keep its
\* globals as ProcessInv says.
THEOREM ProcessInvariant == Spec => []ProcessInv
<1>1. Init => ProcessInv
  BY InitOK
<1>2. ProcessInv /\ [Next]_vars => ProcessInv'
  BY NextKeeps
<1> QED
  BY <1>1, <1>2, PTL DEF Spec

\* The exit of a program is earned: its verdict is about the participant's
\* stream, an accepting checker has read all, a program that forgets to register,
\* to quit or to read to the end fails, the report agrees with the exit code, and
\* logs are written only of a test that was read through and not rejected
\* (InStream::quit, ~TestlibFinalizeGuard).
THEOREM ExitsAreEarned == Spec => []ExitIsEarned
<1>1. ASSUME ProcessInv PROVE ExitIsEarned
  <2>1. CoreOK(p) /\ p \in Globals /\ ReadOK(p, left) /\ GuardOK(p)
    BY <1>1 DEF ProcessInv, LifeOK, CoreOK
  <2>2. TypeOK
    <3>1. p.logs \subseteq p.logNames
      BY <2>1 DEF CoreOK, LogsOK
    <3> QED BY <2>1, <3>1 DEF TypeOK, Globals
  <2>3. VerdictIsTheOutputs
    BY <2>1 DEF VerdictIsTheOutputs, CoreOK, ResultOK
  <2>4. AcceptedIsReadThrough
    BY <2>1 DEF AcceptedIsReadThrough, ReadOK
  <2>5. ForgetfulProgramsFail
    BY <2>1 DEF ForgetfulProgramsFail, GuardOK, Finished
  <2>6. ReportIsTheExit
    BY <2>1 DEF ReportIsTheExit, CoreOK, ResultOK
  <2>7. LogsNeedAValidTest
    BY <2>1 DEF LogsNeedAValidTest, CoreOK, LogsOK
  <2> QED BY <2>2, <2>3, <2>4, <2>5, <2>6, <2>7 DEF ExitIsEarned
<1> QED
  BY <1>1, ProcessInvariant, PTL

\* No step, and no destructor that runs after main, turns a failure into a
\* success.
THEOREM FailuresStay == Spec => [][FailureStays]_vars
<1>1. ASSUME ProcessInv, [Next]_vars PROVE [FailureStays]_vars
  <2> SUFFICES ASSUME p.exitCode # 0, Next PROVE p'.exitCode # 0
    BY <1>1 DEF FailureStays
  <2>1. CoreOK(p) /\ p \in Globals /\ p.pc \notin {"start", "main"}
    BY <1>1 DEF ProcessInv, LifeOK, CoreOK, PlaceOK
  <2>2. FinalizeGuard \/ ScorerGuard \/ Dead
    BY <2>1 DEF Next, registerTestlibCmd, registerInteraction, registerValidation, registerScorer,
                registerGen, ReadToken, ReadEofOfInput, Quitf, StreamQuitf, Quitp, Quitpi, Running,
                ReturnFromMain, disableFinalizeGuard
  <2>3. CASE FinalizeGuard
    <3> DEFINE q == [p EXCEPT !.alive = FALSE]
    <3>1. q \in Globals /\ q.exitCode = p.exitCode
      BY <2>1 DEF Globals
    <3>2. \/ p' = [Fail(q) EXCEPT !.pc = "scorer"] \/ p' = [q EXCEPT !.pc = "scorer"]
      BY <2>3, <3>1 DEF FinalizeGuard
    <3> HIDE DEF q
    <3>3. Fail(q) \in Globals /\ Fail(q).exitCode # 0
      <4>1. q.ouf.mode \in Modes
        BY <3>1 DEF Globals, Streams
      <4>2. HasQuit(Fail(q), q, q.ouf.mode, _fail)
        BY <3>1, <4>1, ExitCodes, QuitIs DEF Fail
      <4> QED BY <4>2, ExitCodes DEF HasQuit
    <3>4. \A d \in Globals : [d EXCEPT !.pc = "scorer"].exitCode = d.exitCode
      BY DEF Globals
    <3> QED BY <3>1, <3>2, <3>3, <3>4
  <2>4. CASE ScorerGuard
    BY <2>1, <2>4 DEF ScorerGuard, Globals
  <2>5. CASE Dead
    BY <2>5 DEF Dead, vars
  <2> QED BY <2>2, <2>3, <2>4, <2>5
<1> QED
  BY <1>1, ProcessInvariant, PTL DEF Spec

=============================================================================
