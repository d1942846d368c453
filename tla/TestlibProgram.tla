--------------------------- MODULE TestlibProgram ---------------------------
(***************************************************************************)
(* The life of a program written with testlib.h: a register function, the   *)
(* reads and quits of its main in any order, and the static destructors     *)
(* (TestlibFinalizeGuard, then TestlibScorerGuard) that may change the exit  *)
(* code after main has returned.  The program's globals are the fields of p. *)
(***************************************************************************)
EXTENDS TestlibQuit

CONSTANTS Inputs, Outputs, Answers,     \* the files a program may be given
          CommandLines,                 \* the command lines it may be started with
          Results                       \* the TResults it may quit with

FileContents == [exists : BOOLEAN, bytes : Seq(Int)]
LogNames == {"overview", "markup", "testcase"}
Invocations ==
  [kind : {"checker", "interactor", "validator", "scorer", "generator"}, names : Nat,
   optionsFine : BOOLEAN, help : BOOLEAN, report : {"file", "bad"}, appes : BOOLEAN,
   toutFine : BOOLEAN, logs : SUBSET LogNames, badLogs : SUBSET LogNames, unusedOpts : BOOLEAN]

(* The named members of TResult are among the results, and _pc(k) for some k.  *)
ASSUME ProgramAssumption ==
  /\ Inputs \cup Outputs \cup Answers \subseteq FileContents
  /\ CommandLines \subseteq Invocations
  /\ Results \subseteq Nat
  /\ {_ok, _wa, _pe, _fail, _dirt, _points, _unexpected_eof} \subseteq Results

VARIABLES
  p,            \* the globals of the process; for the properties also the mode
                \* and the final result of its last quit (blamed, result) and
                \* whether it called disableFinalizeGuard (disabled)
  files,        \* [inf, ouf, ans]
  args,         \* the command line
  left          \* what stood unread in the output when main quit
vars == <<p, files, args, left>>

Closed(mode) == [mode |-> mode, strict |-> FALSE, open |-> FALSE, rest |-> <<>>]

Init ==
  /\ files \in [inf : Inputs, ouf : Outputs, ans : Answers]
  /\ args \in CommandLines
  /\ left = <<>>
  /\ p = [pc |-> "start", testlibMode |-> "_unknown",
          alive |-> TRUE, registered |-> FALSE, quitCount |-> 0, readEofCount |-> 0,
          inf |-> Closed("_input"), ouf |-> Closed("_input"), ans |-> Closed("_input"),
          resultName |-> "", appesMode |-> FALSE, points |-> "inf", report |-> {},
          logNames |-> {}, logs |-> {}, exitCode |-> 0, score |-> "none",
          blamed |-> "nobody", result |-> NoQuit, disabled |-> FALSE]

-----------------------------------------------------------------------------
(* InStream::close(). *)
close(in) == [in EXCEPT !.open = FALSE]

(* halt: std::exit runs the destructors.  quitCount only matters as 0 or not. *)
QuitOn(q, mode, result) ==
  LET done == quit(q, mode, result)
  IN  [q EXCEPT !.pc = "atexit",
                !.quitCount = IF q.alive THEN 1 ELSE q.quitCount,
                !.inf = close(q.inf), !.ouf = close(q.ouf), !.ans = close(q.ans),
                !.resultName = IF q.resultName = "bad" THEN "" ELSE q.resultName,
                !.report = IF q.resultName = "file" THEN done.report ELSE q.report,
                !.exitCode = done.exit,
                !.blamed = mode, !.result = done.result]

(* Mutant: the exit of a failure is that of the program that returned. *)
MutantFail(q) == [QuitOn(q, q.ouf.mode, _fail) EXCEPT !.exitCode = 0]

(* quit(_fail, ...) and __testlib_fail. *)
Fail(q) == QuitOn(q, q.ouf.mode, _fail)

(* __testlib_help exits with FAIL_EXIT_CODE and without quit. *)
__testlib_help(q) == [q EXCEPT !.pc = "atexit", !.exitCode = FAIL_EXIT_CODE]

(* A stream opened on a file; how the init may quit is in r.quit. *)
Opening(q, field, f, mode) ==
  LET r == init(f, mode)
      opened == [q EXCEPT ![field] = IF field = "ouf" THEN skipBom(r.in) ELSE r.in]
  IN  IF q.pc # "main" THEN q
      ELSE IF r.quit # NoQuit THEN QuitOn(opened, mode, r.quit) ELSE opened

(* Where the report goes: n names on the command line, of which `first' is    *)
(* the number up to the report.                                                *)
Reporting(q, n, first) ==
  IF n = first + 1 /\ ~args.appes THEN Fail(q)
  ELSE [q EXCEPT !.pc = "main",
                 !.resultName = IF n < first THEN "" ELSE args.report,
                 !.appesMode = (n = first + 1)]

registerTestlibCmd ==
  LET q == [p EXCEPT !.registered = TRUE, !.testlibMode = "_checker"]
      r == Reporting(q, args.names, 4)
  IN  /\ p.pc = "start" /\ args.kind = "checker"
      /\ p' = IF ~args.optionsFine THEN Fail(p)
              ELSE IF args.help THEN __testlib_help(q)
              ELSE IF args.names \notin 3..5 THEN Fail(q)
              ELSE Opening(Opening(Opening(r, "inf", files.inf, "_input"),
                                   "ouf", files.ouf, "_output"),
                           "ans", files.ans, "_answer")
      /\ UNCHANGED <<files, args, left>>

(* The output of an interactor's partner comes from stdin, which is no file.  *)
registerInteraction ==
  LET q == [p EXCEPT !.registered = TRUE, !.testlibMode = "_interactor"]
      r == Opening(Reporting(q, args.names, 4), "inf", files.inf, "_input")
      s == [r EXCEPT !.ouf = [Closed("_output") EXCEPT !.open = TRUE, !.rest = files.ouf.bytes]]
  IN  /\ p.pc = "start" /\ args.kind = "interactor"
      /\ p' = IF ~args.optionsFine THEN Fail(p)
              ELSE IF args.help THEN __testlib_help(q)
              ELSE IF args.names \notin 2..5 THEN Fail(q)
              ELSE IF r.pc = "main" /\ ~args.toutFine THEN Fail(r)
              ELSE IF r.pc = "main" /\ args.names >= 3
                THEN Opening(s, "ans", files.ans, "_answer")
              ELSE IF r.pc = "main" THEN s ELSE r
      /\ UNCHANGED <<files, args, left>>

(* registerValidation(argc, argv): its options name the logs to write. *)
registerValidation ==
  LET q == [p EXCEPT !.registered = TRUE, !.testlibMode = "_validator", !.pc = "main",
                     !.inf = [Closed("_input") EXCEPT !.open = TRUE, !.strict = TRUE,
                                                      !.rest = files.inf.bytes]]
  IN  /\ p.pc = "start" /\ args.kind = "validator"
      /\ p' = IF ~args.optionsFine THEN Fail(q) ELSE [q EXCEPT !.logNames = args.logs]
      /\ UNCHANGED <<files, args, left>>

registerGen ==
  LET q == [p EXCEPT !.registered = TRUE, !.testlibMode = "_generator", !.pc = "main"]
  IN  /\ p.pc = "start" /\ args.kind = "generator"
      /\ p' = IF args.optionsFine THEN q ELSE Fail(p)
      /\ UNCHANGED <<files, args, left>>

(* registerScorer leaves TestlibFinalizeGuard::registered as it is. *)
registerScorer ==
  /\ p.pc = "start" /\ args.kind = "scorer"
  /\ p' = [p EXCEPT !.testlibMode = "_scorer", !.pc = "main",
                    !.inf = [Closed("_input") EXCEPT !.open = TRUE, !.rest = files.inf.bytes]]
  /\ UNCHANGED <<files, args, left>>

-----------------------------------------------------------------------------
(* What main may do. *)
Ends(q) == p' = q /\ left' = p.ouf.rest /\ UNCHANGED <<files, args>>

Running == p.pc = "main"

ReadToken(field) ==
  LET r == readWordTo(p[field])
  IN  /\ Running /\ p[field].open
      /\ IF r.quit # NoQuit THEN Ends(QuitOn([p EXCEPT ![field] = r.in], p[field].mode, r.quit))
         ELSE p' = [p EXCEPT ![field] = r.in] /\ UNCHANGED <<files, args, left>>

(* inf.readEof(), the only one that counts. *)
ReadEofOfInput ==
  /\ Running /\ p.inf.open
  /\ IF eof(p.inf) THEN /\ p' = [p EXCEPT !.readEofCount = IF p.alive THEN 1 ELSE @]
                        /\ UNCHANGED <<files, args, left>>
     ELSE Ends(QuitOn(p, p.inf.mode, _pe))

(* quitf is ouf.quit: before a checker or an interactor has registered, and    *)
(* in the other programs at any time, ouf still has its first mode, _input.    *)
Quitf(result) == p.pc \in {"start", "main"} /\ Ends(QuitOn(p, p.ouf.mode, result))

(* inf.quitf, ans.quitf, and what their ensuref calls. *)
StreamQuitf(field, result) == Running /\ Ends(QuitOn(p, p[field].mode, result))

Quitp(kind) ==
  Running /\ Ends(IF __testlib_preparePoints(kind)
                    THEN QuitOn([p EXCEPT !.points = "set"], p.ouf.mode, _points)
                    ELSE Fail(p))
Quitpi(hasSpace) == Running /\ Ends(QuitOn(p, p.ouf.mode, IF hasSpace THEN _fail ELSE _points))

ReturnFromMain == p.pc \in {"start", "main"} /\ Ends([p EXCEPT !.pc = "atexit"])

disableFinalizeGuard ==
  /\ Running /\ p.alive
  /\ p' = [p EXCEPT !.alive = FALSE, !.disabled = TRUE] /\ UNCHANGED <<files, args, left>>

-----------------------------------------------------------------------------
(* Mutant: the guard does not look at the quits of a checker. *)
MutantUnfinished(q) == q.testlibMode = "_validator" /\ q.readEofCount = 0 /\ q.quitCount = 0

(* What ~TestlibFinalizeGuard fails for; unusedOpts: the check of the opts is   *)
(* on and one was never asked for.                                              *)
Unfinished(q) ==
  \/ q.testlibMode = "_checker" /\ q.quitCount = 0
  \/ q.testlibMode = "_validator" /\ q.readEofCount = 0 /\ q.quitCount = 0
  \/ q.testlibMode = "_generator" /\ args.unusedOpts
  \/ ~q.registered

(* The logs are written one after the other; the first that cannot be written *)
(* fails the program.  Those of the input's text need inf still open, which   *)
(* quit closes, and that the reader has noted characters.                      *)
WritingLogs(q, noted) ==
  LET wanted == {l \in q.logNames : l = "overview" \/ (q.inf.open /\ noted)}
      bad == wanted \cap args.badLogs
      before == [overview |-> {}, markup |-> {"overview"}, testcase |-> {"overview", "markup"}]
      written == {l \in wanted : (before[l] \cup {l}) \cap bad = {}}
      done == [q EXCEPT !.logs = written]
  IN  IF bad = {} THEN done ELSE Fail(done)

(* ~TestlibFinalizeGuard, which runs first.  __testlib_fail in it calls        *)
(* std::exit again, and the remaining destructors follow.                       *)
FinalizeGuard ==
  /\ p.pc = "atexit"
  /\ \E noted \in BOOLEAN :
       LET q == [p EXCEPT !.alive = FALSE]
           done == IF p.alive /\ Unfinished(p) THEN Fail(q)
                   ELSE IF q.exitCode = 0 THEN WritingLogs(q, noted) ELSE q
       IN  p' = [done EXCEPT !.pc = "scorer"]
  /\ UNCHANGED <<files, args, left>>

(* ~TestlibScorerGuard: the results come from inf; with inf closed eof() says  *)
(* yes and readEof() dereferences the null reader.                              *)
ScorerGuard ==
  /\ p.pc = "scorer"
  /\ p' = [p EXCEPT !.pc = "dead",
                    !.score = IF p.testlibMode # "_scorer" THEN "none"
                              ELSE IF p.inf.open THEN "printed" ELSE "crash"]
  /\ UNCHANGED <<files, args, left>>

Dead == p.pc = "dead" /\ UNCHANGED vars

Next ==
  \/ registerTestlibCmd \/ registerInteraction \/ registerValidation \/ registerScorer
  \/ registerGen
  \/ \E field \in {"inf", "ouf", "ans"} : ReadToken(field)
  \/ ReadEofOfInput
  \/ \E result \in Results : Quitf(result)
  \/ \E field \in {"inf", "ans"}, result \in Results : StreamQuitf(field, result)
  \/ \E kind \in {"fine", "nan"} : Quitp(kind)
  \/ \E hasSpace \in BOOLEAN : Quitpi(hasSpace)
  \/ ReturnFromMain \/ disableFinalizeGuard
  \/ FinalizeGuard \/ ScorerGuard \/ Dead

Spec == Init /\ [][Next]_vars

-----------------------------------------------------------------------------
(* What stands for p where no process runs. *)
NoProcess == [pc |-> "none"]

Finished == p.pc = "dead"

TypeOK ==
  p.pc # "none" =>
  /\ p.pc \in {"start", "main", "atexit", "scorer", "dead"}
  /\ p.testlibMode \in {"_unknown", "_checker", "_validator", "_interactor", "_scorer",
                       "_generator"}
  /\ p.quitCount \in 0..1 /\ p.readEofCount \in 0..1
  /\ p.exitCode \in Nat /\ p.report \subseteq Results /\ p.logs \subseteq p.logNames

(* "input/answer streams replace any result to FAIL": a verdict of a checker    *)
(* or an interactor, good or bad, comes from a quit on the participant's        *)
(* stream; trouble with the other files always fails.                            *)
VerdictIsTheOutputs ==
  Finished /\ p.testlibMode \in {"_checker", "_interactor"} /\ p.result \notin {NoQuit, _fail}
    => p.blamed = "_output"

(* A checker that ends with a quit for success has seen the whole output:       *)
(* nothing but blanks stood unread when it quit.                                 *)
AcceptedIsReadThrough ==
  Finished /\ p.testlibMode = "_checker" /\ p.result = _ok
    => \A i \in 1..Len(left) : isBlanks(left[i])

(* "Checker must end with quit or quitf call", "Validator must end with         *)
(* readEof call": a program that forgets it, or to register, does not exit       *)
(* with 0, unless it has disabled the guard.  A validator has no other way to    *)
(* succeed than readEof: its quits all fail.                                     *)
ForgetfulProgramsFail ==
  Finished /\ ~p.disabled /\ p.exitCode = 0
    => /\ p.registered
       /\ p.testlibMode = "_checker" => p.quitCount = 1
       /\ p.testlibMode = "_validator" => p.readEofCount = 1

(* The report says what the exit code says, also when the guard has the last    *)
(* word.                                                                         *)
ReportIsTheExit == Finished => \A r \in p.report : resultExitCode(r) = p.exitCode

(* The logs of a validator are written only for a test it has not rejected and, *)
(* with the guard on, has read to its end.                                       *)
LogsNeedAValidTest ==
  Finished /\ p.logs # {} => /\ p.testlibMode = "_validator" /\ p.quitCount = 0
                             /\ p.inf.rest = <<>> \/ p.disabled

(* The exit of a program is earned: a verdict is about the participant's        *)
(* stream, a checker that accepts has left nothing but blanks unread, a program  *)
(* that forgets to register, to quit or to read to the end fails, the report     *)
(* agrees with the exit code, and only a test that was read to its end and not   *)
(* rejected has a validator's logs.                                              *)
ExitIsEarned ==
  /\ TypeOK /\ VerdictIsTheOutputs /\ AcceptedIsReadThrough
  /\ ForgetfulProgramsFail /\ ReportIsTheExit /\ LogsNeedAValidTest

(* No destructor turns a failure into a success. *)
FailureStays == p.exitCode # 0 => p'.exitCode # 0
=============================================================================
