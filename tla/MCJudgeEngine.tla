--------------------------- MODULE MCJudgeEngine ---------------------------
(* JudgeEngine for TLC: requests that share a checker source compete for    *)
(* judge slots and container slots.                                         *)
EXTENDS JudgeEngine

CONSTANTS r1, r2, r3, r4, s1

\* r2 has two test cases and brings its checker inline, the others name a bundled
\* one with the same bytes; r4 is not valid.
MCRequests == {r1, r2, r3, r4}
MCCasesOf == [r \in MCRequests |-> IF r = r2 THEN {1, 2} ELSE {1}]
MCCheckerOf == [r \in MCRequests |-> s1]
=============================================================================
