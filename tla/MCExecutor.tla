----------------------------- MODULE MCExecutor -----------------------------
(* Executor for TLC: a compile and two runs compete for two slots and one   *)
(* or two CPUs.                                                              *)
EXTENDS Executor

CONSTANTS e1, e2, e3, c1, c2

MCExecs == {e1, e2, e3}
MCCompiles == {e1}
MCExpiring == {e1}
OneCPU == {c1}
TwoCPUs == {c1, c2}
AllFaults == FaultKinds
RunSymmetry == Permutations({e2, e3})
=============================================================================
