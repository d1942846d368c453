---------------------------- MODULE TestlibQuit ----------------------------
(***************************************************************************)
(* How a testlib program ends: InStream::quit, which turns a TResult into   *)
(* the one that is reported, and resultExitCode.  A program is a record p   *)
(* with at least                                                            *)
(*   testlibMode, ouf,                                                      *)
(*   resultName  "" , "file", or "bad" for a report that cannot be written, *)
(*   appesMode,  points ("inf" until quitp sets __testlib_points).           *)
(* The macros that rename the exit codes are those of the build: EJUDGE,    *)
(* CONTESTER, TESTSYS and ENABLE_UNEXPECTED_EOF are not defined.            *)
(***************************************************************************)
EXTENDS InStream

OK_EXIT_CODE == 0
WA_EXIT_CODE == 1
PE_EXIT_CODE == 2
FAIL_EXIT_CODE == 3
DIRT_EXIT_CODE == 4
POINTS_EXIT_CODE == 7
PC_BASE_EXIT_CODE == 0

resultExitCode(r) ==
  CASE r = _ok -> OK_EXIT_CODE
    [] r = _wa -> WA_EXIT_CODE
    [] r = _pe -> PE_EXIT_CODE
    [] r = _fail -> FAIL_EXIT_CODE
    [] r = _dirt -> DIRT_EXIT_CODE
    [] r = _points -> POINTS_EXIT_CODE
    [] r = _unexpected_eof -> PE_EXIT_CODE
    [] r >= _partially -> PC_BASE_EXIT_CODE + (r - _partially)
    [] OTHER -> FAIL_EXIT_CODE

__testlib_shouldCheckDirt(r) == r \in {_ok, _points} \/ r >= _partially

-----------------------------------------------------------------------------

(* Text is left in the output of a run that quits with a result for reading it. *)
Dirty(p, r) ==
  /\ __testlib_shouldCheckDirt(r)
  /\ p.testlibMode # "_interactor"
  /\ ~eof(seekEof(p.ouf))

(* The result after quit's own checks, called on a stream of this mode:      *)
(* "input/answer streams replace any result to FAIL".  Every check that      *)
(* fails calls quit again, with _fail or _dirt, which ends at once.           *)
Judged(p, mode, result) ==
  LET r == IF result = _unexpected_eof THEN _pe ELSE result IN
  CASE r # _fail /\ (p.testlibMode = "_scorer" \/ mode # "_output") -> _fail
    [] r = _fail -> _fail
    [] OTHER -> IF Dirty(p, r) \/ r = _dirt THEN _pe
                ELSE IF r \in {_ok, _wa, _pe, _points} \/ r >= _partially THEN r
                ELSE _fail

(* Writing the report: one that cannot be opened or closed is dropped and    *)
(* makes the result _fail; so do points that quitp never set, in the appes   *)
(* mode, whose report is then written again.                                  *)
Reported(p, r) ==
  LET noPoints == p.appesMode /\ r = _points /\ p.points = "inf"
      final == IF p.resultName = "bad" \/ (p.resultName = "file" /\ noPoints) THEN _fail ELSE r
  IN  [result |-> final, report |-> IF p.resultName = "file" THEN {final} ELSE {}]

(* InStream::quit: [result, report, exit]. *)
quit(p, mode, result) ==
  LET done == Reported(p, Judged(p, mode, result))
  IN  [result |-> done.result, report |-> done.report, exit |-> resultExitCode(done.result)]

(* quitp: points that are no number, infinite, negative or above 1E6 fail    *)
(* before __testlib_points is set.                                            *)
__testlib_preparePoints(kind) == kind = "fine"
quitp(p, kind) ==
  IF __testlib_preparePoints(kind) THEN quit([p EXCEPT !.points = "set"], p.ouf.mode, _points)
                                   ELSE quit(p, p.ouf.mode, _fail)

(* quitpi: the same without setting __testlib_points. *)
quitpi(p, hasSpace) == quit(p, p.ouf.mode, IF hasSpace THEN _fail ELSE _points)
=============================================================================
