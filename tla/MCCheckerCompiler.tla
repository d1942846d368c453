------------------------- MODULE MCCheckerCompiler -------------------------
(* CheckerCompiler for TLC.                                                 *)
EXTENDS CheckerCompiler

CONSTANTS a, b, c, s1, s2

MCCallers == {a, b, c}
TwoCallers == {a, b}
MCSources == {s1, s2}
\* c asks once, the others twice.
MCMaxCalls == [x \in MCCallers |-> IF x = c THEN 1 ELSE 2]
TwoMaxCalls == [x \in TwoCallers |-> 1]
=============================================================================
