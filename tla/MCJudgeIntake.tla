--------------------------- MODULE MCJudgeIntake ---------------------------
EXTENDS JudgeIntake, TLC
CONSTANTS r1, r2

P(elems) == [elems |-> elems, rooted |-> FALSE]
Case(it, ot, i, o) == [inputText |-> it, expectedOutput |-> ot, inputFile |-> i, expectedOutputFile |-> o]
TextCase == Case("t", "t", NoPath, NoPath)
NoChecker == [kind |-> "none", path |-> NoPath]
Good == [sourceBlank |-> FALSE, language |-> "C", timeLimit |-> 1, memoryLimit |-> 1,
         testCases |-> <<TextCase>>, checker |-> NoChecker, inline |-> ""]

(* Paths of up to four elements. *)
Elems == {"..", ".", "d", "c.cpp"}
WalkedPaths == {[elems |-> e, rooted |-> b] : e \in UNION {[1..n -> Elems] : n \in 0..4}, b \in BOOLEAN}
FormPaths == {NoPath, P(<<"c.cpp">>), P(<<"out">>), P(<<"d", "..", "out">>), [elems |-> <<"out">>, rooted |-> TRUE]}
SomeCases == {Case(it, ot, i, o) : it \in {"", "t"}, ot \in {"", "t"}, i \in FormPaths, o \in FormPaths}
NamedCheckers == {NoChecker} \cup {[kind |-> k, path |-> P(<<n>>)] : k \in {"name", "badName"}, n \in {"wcmp", "new"}}

MCForms ==
  {[Good EXCEPT !.checker = [kind |-> "external", path |-> p]] : p \in WalkedPaths}
    \cup {[Good EXCEPT !.testCases = <<c>>] : c \in SomeCases}
    \cup {[Good EXCEPT !.testCases = [k \in 1..n |-> TextCase]] : n \in 0..3}
    \cup {[Good EXCEPT !.sourceBlank = b, !.language = l, !.timeLimit = t, !.memoryLimit = m] :
            b \in BOOLEAN, l \in {"", "C", "Ada"}, t \in 0..1, m \in 0..1}
    \cup {[Good EXCEPT !.checker = c, !.inline = i] :
            c \in NamedCheckers \cup {[kind |-> "external", path |-> P(<<"c.cpp">>)]},
            i \in {"", "blank", "source"}}

(* The checker is one of the files. *)
MCFileForms ==
  {[Good EXCEPT !.testCases = <<Case("", "", P(<<"c.cpp">>), P(<<"out">>))>>,
                !.checker = [kind |-> "external", path |-> P(<<".", "c.cpp">>)]]}

Rejected == [Good EXCEPT !.sourceBlank = TRUE]
AllForms == MCForms \cup MCFileForms
MCFiles == {<<"c.cpp">>, <<"out">>}
MCBuiltins == {"default", "wcmp"}

(* Two requests that use the same files; one that finds the files in any state; *)
(* any request, of files that are there at first.                               *)
With(f) == [r \in Requests |-> IF r = r1 THEN f ELSE Rejected]
AllThere == [p \in Files |-> 1]
MCForm ==
  \/ form \in [Requests -> MCFileForms] /\ external = TRUE /\ file = AllThere
  \/ form \in {With(f) : f \in MCFileForms}
  \/ form \in {With(f) : f \in MCForms} /\ file = AllThere
MCInit == MCForm /\ Init
MCSpec == MCInit /\ [][Next]_vars
=============================================================================
