---------------------------- MODULE JudgeIntake ----------------------------
(***************************************************************************)
(* What Judge does with a request before anything is compiled, and what it  *)
(* later hands to the program and to the checker: validateJudgeRequest,     *)
(* Resolve, resolveChecker, the judge slot, materialize with its separate   *)
(* reads (judge_service.go, checker.go, language.go), and the external      *)
(* resources (resource/external.go), whose files somebody replaces and      *)
(* removes in the meantime.                                                 *)
(*                                                                         *)
(* A path is the sequence of its elements; the contents of a file are a     *)
(* version number.  Compilation and its failures are JudgeEngine's.          *)
(***************************************************************************)
EXTENDS Integers, Sequences, FiniteSets

CONSTANTS Requests,      \* concurrent requests
          Forms,         \* what a request may ask for
          Files,         \* the paths of the external directory
          Builtins,      \* the names of the bundled checkers
          CppNames,      \* file names that end in .cpp
          Languages,     \* the languages with a profile
          MaxCases,      \* maxTestCases
          MaxJudges,     \* MAX_CONCURRENT_JUDGES
          MaxVersion     \* bound: versions of a file

(* JudgeRequest and TestCase as they are decoded, a path by its elements. *)
Paths == [elems : Seq(STRING), rooted : BOOLEAN]
TestCases == [inputText : STRING, expectedOutput : STRING,
              inputFile : Paths, expectedOutputFile : Paths]
CheckerRefs == [kind : {"none", "name", "badName", "external"}, path : Paths]
JudgeRequests ==
  [sourceBlank : BOOLEAN, language : STRING, timeLimit : Nat, memoryLimit : Nat,
   testCases : Seq(TestCases), checker : CheckerRefs, inline : {"", "blank", "source"}]

ASSUME IntakeAssumption ==
  /\ Forms \subseteq JudgeRequests /\ "" \notin Languages
  /\ MaxCases \in Nat /\ MaxJudges \in Nat \ {0} /\ MaxVersion \in Nat

ABSENT == 0              \* no such file
DIRECTORY == -1          \* there, and not a regular file

VARIABLES
  form,         \* the request
  external,     \* EXTERNAL_DATA_DIR is set
  file,         \* the contents of each external path
  phase,        \* where Judge is
  source,       \* the checker's source, once read
  data,         \* the cases read so far
  stdin,        \* what each case's program was given
  files,        \* what each case's checker was given: input and answer
  current       \* history: <<path, contents>> that were current while the slot was held

vars == <<form, external, file, phase, source, data, stdin, files, current>>

Holding == {"source", "input", "answer", "judging"}

-----------------------------------------------------------------------------
(* fs.ValidPath: no rooted path, no empty, "." or ".." element. *)
ValidPath(p) == p.elems # <<>> /\ ~p.rooted /\ \A k \in DOMAIN p.elems : p.elems[k] \notin {"", ".", ".."}

(* Mutant: ".." cancels whatever stands before it. *)
MutantCleaned(p) ==
  LET f[k \in 0..Len(p.elems)] ==
        IF k = 0 THEN <<>>
        ELSE LET before == f[k - 1]
                 e == p.elems[k] IN
             CASE e \in {"", "."} -> before
               [] e = ".." /\ before # <<>> -> SubSeq(before, 1, Len(before) - 1)
               [] e = ".." /\ before = <<>> -> IF k > 1 THEN <<>> ELSE <<"..">>
               [] OTHER -> Append(before, e)
  IN  [p EXCEPT !.elems = f[Len(p.elems)]]
(* filepath.Clean *)
Cleaned(p) ==
  LET f[k \in 0..Len(p.elems)] ==
        IF k = 0 THEN <<>>
        ELSE LET before == f[k - 1]
                 e == p.elems[k]
                 cancels == before # <<>> /\ before[Len(before)] # ".." IN
             CASE e \in {"", "."} -> before
               [] e = ".." /\ cancels -> SubSeq(before, 1, Len(before) - 1)
               [] e = ".." /\ ~cancels /\ p.rooted -> before
               [] OTHER -> Append(before, e)
  IN  [p EXCEPT !.elems = f[Len(p.elems)]]

(* filepath.IsLocal, of a cleaned path *)
IsLocal(p) == ~p.rooted /\ p.elems # <<>> /\ p.elems[1] # ".."

EndsInCpp(p) == p.elems[Len(p.elems)] \in CppNames

validateExternalCheckerPath(p) ==
  LET clean == Cleaned(p) IN
  clean.elems # <<>> /\ IsLocal(clean) /\ EndsInCpp(clean)

(* checkerChoice; "error" stands for an error. *)
Choice(kind, path) == [kind |-> kind, path |-> path]
resolveChecker(f) ==
  LET raw == f.checker IN
  CASE f.inline = "blank" -> Choice("error", <<>>)
    [] f.inline = "source" /\ raw.kind # "none" -> Choice("error", <<>>)
    [] f.inline = "source" /\ raw.kind = "none" -> Choice("inline", <<>>)
    [] f.inline = "" /\ raw.kind = "none" -> Choice("builtin", <<"default">>)
    [] f.inline = "" /\ raw.kind = "external" ->
         IF validateExternalCheckerPath(raw.path)
           THEN Choice("external", Cleaned(raw.path).elems) ELSE Choice("error", <<>>)
    [] f.inline = "" /\ raw.kind = "name" -> Choice("builtin", raw.path.elems)
    [] f.inline = "" /\ raw.kind = "badName" -> Choice("error", <<>>)

HasText(tc) == tc.inputText # "" \/ tc.expectedOutput # ""
HasInputFile(tc) == tc.inputFile.elems # <<>> \/ tc.inputFile.rooted
HasOutputFile(tc) == tc.expectedOutputFile.elems # <<>> \/ tc.expectedOutputFile.rooted

validateJudgeTestCase(tc) ==
  /\ ~(HasText(tc) /\ (HasInputFile(tc) \/ HasOutputFile(tc)))
  /\ HasInputFile(tc) <=> HasOutputFile(tc)
  /\ HasInputFile(tc) => ValidPath(tc.inputFile)
  /\ HasOutputFile(tc) => ValidPath(tc.expectedOutputFile)

validateJudgeRequest(f) ==
  /\ ~f.sourceBlank /\ f.language # "" /\ f.timeLimit # 0 /\ f.memoryLimit # 0
  /\ Len(f.testCases) \in 1..MaxCases
  /\ \A i \in DOMAIN f.testCases : validateJudgeTestCase(f.testCases[i])

-----------------------------------------------------------------------------
NoPath == [elems |-> <<>>, rooted |-> FALSE]
NoData == [input |-> 0, expectedOutput |-> 0]
Cases(r) == DOMAIN form[r].testCases

Init ==
  /\ form \in [Requests -> Forms] /\ external \in BOOLEAN
  /\ file \in [Files -> {DIRECTORY, ABSENT, 1}]
  /\ phase = [r \in Requests |-> "new"] /\ source = [r \in Requests |-> 0]
  /\ data = [r \in Requests |-> <<>>]
  /\ stdin = [r \in Requests |-> <<>>] /\ files = [r \in Requests |-> <<>>]
  /\ current = [r \in Requests |-> {}]

Goto(r, there) == phase' = [phase EXCEPT ![r] = there]
Unread == UNCHANGED <<form, external, file, stdin, files, current>>

(* The part of Judge before the slot. *)
Validate(r) ==
  /\ phase[r] = "new"
  /\ IF /\ validateJudgeRequest(form[r]) /\ form[r].language \in Languages
        /\ resolveChecker(form[r]).kind # "error"
       THEN Goto(r, "waiting") ELSE Goto(r, "rejected")
  /\ Unread /\ UNCHANGED <<source, data>>

(* concurrencySem *)
Acquire(r) ==
  /\ phase[r] = "waiting"
  /\ Cardinality({q \in Requests : phase[q] \in Holding}) < MaxJudges
  /\ Goto(r, "source")
  /\ current' = [current EXCEPT ![r] = {<<p, file[p]>> : p \in Files}]
  /\ UNCHANGED <<form, external, file, source, data, stdin, files>>

Regular(v) == v > 0

(* External.Open and the read: the contents of a regular file, or an error. *)
Opened(p) == IF p \in Files /\ Regular(file[p]) THEN file[p] ELSE ABSENT

(* Source: readSource *)
ReadSource(r) ==
  LET choice == resolveChecker(form[r])
      found == CASE choice.kind = "inline" -> 1
                 [] choice.kind = "external" -> IF external THEN Opened(choice.path) ELSE ABSENT
                 [] choice.kind = "builtin" -> IF choice.path[1] \in Builtins THEN 1 ELSE ABSENT
  IN  /\ phase[r] = "source"
      /\ IF found = ABSENT THEN Goto(r, "rejected") ELSE Goto(r, "input")
      /\ source' = [source EXCEPT ![r] = found]
      /\ Unread /\ UNCHANGED data

(* materializeCase of the next case, up to the first read; after the last case *)
(* the plan is complete.                                                       *)
ReadInput(r) ==
  LET i == Len(data[r]) + 1
      tc == form[r].testCases[i]
      Added(v) == data' = [data EXCEPT ![r] = Append(@, [NoData EXCEPT !.input = v])]
      found == Opened(tc.inputFile.elems)
  IN  /\ phase[r] = "input"
      /\ CASE i \notin Cases(r) -> Goto(r, "judging") /\ UNCHANGED data
           [] i \in Cases(r) /\ ~HasInputFile(tc) -> Added(0) /\ UNCHANGED phase
           [] i \in Cases(r) /\ HasInputFile(tc) ->
                IF external /\ found # ABSENT
                  THEN Added(found) /\ Goto(r, "answer")
                  ELSE Goto(r, "rejected") /\ UNCHANGED data
      /\ Unread /\ UNCHANGED source

(* materializeCase, the second read *)
ReadAnswer(r) ==
  LET i == Len(data[r])
      found == Opened(form[r].testCases[i].expectedOutputFile.elems)
  IN  /\ phase[r] = "answer"
      /\ IF found # ABSENT
           THEN Goto(r, "input") /\ data' = [data EXCEPT ![r][i].expectedOutput = found]
           ELSE Goto(r, "rejected") /\ UNCHANGED data
      /\ Unread /\ UNCHANGED source

(* runCase, in the goroutine of each case: Run is given tc.input, *)
Run(r, i) ==
  /\ phase[r] = "judging" /\ i \notin DOMAIN stdin[r]
  /\ stdin' = [stdin EXCEPT ![r] = [k \in DOMAIN @ \cup {i} |-> IF k = i THEN data[r][i].input ELSE @[k]]]
  /\ UNCHANGED <<form, external, file, phase, source, data, files, current>>

(* Mutant: the checker's files are read when the checker runs. *)
MutantCheckerFiles(r, i) ==
  LET tc == form[r].testCases[i] IN
  IF HasInputFile(tc)
    THEN [input |-> Opened(tc.inputFile.elems), expectedOutput |-> Opened(tc.expectedOutputFile.elems)]
    ELSE NoData
CheckerFiles(r, i) == data[r][i]

(* and Check is given tc.input and tc.expectedOutput. *)
Check(r, i) ==
  /\ phase[r] = "judging" /\ i \in DOMAIN stdin[r] /\ i \notin DOMAIN files[r]
  /\ files' = [files EXCEPT ![r] = [k \in DOMAIN @ \cup {i} |-> IF k = i THEN CheckerFiles(r, i) ELSE @[k]]]
  /\ UNCHANGED <<form, external, file, phase, source, data, stdin, current>>

(* runAllCases has waited for every case, and the slot is released. *)
Finish(r) ==
  /\ phase[r] = "judging" /\ DOMAIN files[r] = Cases(r)
  /\ Goto(r, "done")
  /\ Unread /\ UNCHANGED <<source, data>>

(* Somebody replaces, removes or creates an external file, while a request may  *)
(* still look at it.                                                            *)
Change(p, v) ==
  /\ \E r \in Requests : phase[r] \notin {"rejected", "done"}
  /\ v # file[p] /\ (Regular(v) => v = 1 + (IF Regular(file[p]) THEN file[p] ELSE 0))
  /\ file' = [file EXCEPT ![p] = v]
  /\ current' = [r \in Requests |->
                   IF phase[r] \in Holding THEN current[r] \cup {<<p, v>>} ELSE current[r]]
  /\ UNCHANGED <<form, external, phase, source, data, stdin, files>>

Terminated == (\A r \in Requests : phase[r] \in {"rejected", "done"}) /\ UNCHANGED vars

Next ==
  \/ \E r \in Requests :
       \/ Validate(r) \/ Acquire(r) \/ ReadSource(r) \/ ReadInput(r) \/ ReadAnswer(r) \/ Finish(r)
       \/ \E i \in Cases(r) : Run(r, i) \/ Check(r, i)
  \/ \E p \in Files, v \in 0..MaxVersion : Change(p, v)
  \/ Terminated

Spec == Init /\ [][Next]_vars

-----------------------------------------------------------------------------
(* Where a walk along p leads: the depth below the root after each element.   *)
Depth(p) ==
  LET d[k \in 0..Len(p.elems)] ==
        IF k = 0 THEN 0
        ELSE LET before == d[k - 1] IN
             before + (CASE p.elems[k] \in {"", "."} -> 0 [] p.elems[k] = ".." -> -1 [] OTHER -> 1)
  IN  d

(* resolveChecker hands on an external checker exactly if walking the path as   *)
(* it was written never leaves the root, ends at a .cpp name below it, and the   *)
(* path it hands on is one External.Open takes.                                  *)
ExternalStaysInside ==
  \A r \in Requests :
    LET f == form[r]
        p == f.checker.path
        choice == resolveChecker(f)
        last == {k \in DOMAIN p.elems : p.elems[k] \notin {"", "."}} IN
    f.checker.kind = "external" /\ f.inline = "" =>
      /\ choice.kind = "external" <=>
           /\ ~p.rooted /\ last # {}
           /\ \A k \in 0..Len(p.elems) : Depth(p)[k] >= 0
           /\ Depth(p)[Len(p.elems)] > 0 /\ EndsInCpp(Cleaned(p))
      /\ choice.kind = "external" => ValidPath([elems |-> choice.path, rooted |-> FALSE])

(* A request is rejected for a reason: it breaks a rule of the interface, or a   *)
(* file it names was not to be had at some moment while it held its slot.  A     *)
(* request that names no file and breaks no rule is judged.                      *)
KeepsTheRules(f) ==
  /\ ~f.sourceBlank /\ f.language \in Languages /\ f.timeLimit > 0 /\ f.memoryLimit > 0
  /\ f.testCases # <<>> /\ Len(f.testCases) <= MaxCases
  /\ \A i \in DOMAIN f.testCases :
       LET tc == f.testCases[i]
           both == {tc.inputFile, tc.expectedOutputFile} IN
       \/ both = {NoPath}
       \/ ~HasText(tc) /\ \A p \in both : ValidPath(p)
  /\ f.inline # "blank" /\ ~(f.inline = "source" /\ f.checker.kind # "none")
Named(f) ==
  {p \in UNION {{tc.inputFile.elems, tc.expectedOutputFile.elems} :
                  tc \in {f.testCases[i] : i \in DOMAIN f.testCases}} : p # <<>>}
    \cup (IF resolveChecker(f).kind = "external" THEN {resolveChecker(f).path} ELSE {})
RejectionIsDeserved ==
  \A r \in Requests :
    LET f == form[r] IN
    /\ phase[r] \in {"judging", "done"} => KeepsTheRules(f)
    /\ phase[r] = "rejected" /\ KeepsTheRules(f) =>
         \/ resolveChecker(f).kind = "error"
         \/ resolveChecker(f).kind = "builtin" /\ resolveChecker(f).path[1] \notin Builtins
         \/ Named(f) # {} /\ ~external
         \/ \E p \in Named(f) : p \notin Files \/ \E v \in {DIRECTORY, ABSENT} : <<p, v>> \in current[r]

(* A request that queued is judged on the files as they were while it held its   *)
(* slot, never on older ones; and an input and an answer of different versions   *)
(* meet only if somebody replaced a file during the reads or left the pair so.   *)
DataIsCurrent ==
  \A r \in Requests :
    LET f == form[r] IN
    phase[r] \in {"judging", "done"} =>
      /\ resolveChecker(f).kind = "external" => <<resolveChecker(f).path, source[r]>> \in current[r]
      /\ \A i \in Cases(r) :
           HasInputFile(f.testCases[i]) =>
             /\ <<f.testCases[i].inputFile.elems, data[r][i].input>> \in current[r]
             /\ <<f.testCases[i].expectedOutputFile.elems, data[r][i].expectedOutput>> \in current[r]

(* The checker sees the input the program was given, and the answer that was     *)
(* read with it, although the files may be replaced between the two executions.  *)
CheckerSeesTheRun ==
  \A r \in Requests : \A i \in DOMAIN files[r] :
    files[r][i].input = stdin[r][i] /\ files[r][i] = data[r][i]

(* A request is taken exactly if the interface allows it, and no path of it leads  *)
(* out of the root of the external resources.                                    *)
RequestIsTakenByTheRules == ExternalStaysInside /\ RejectionIsDeserved

(* Program and checker get the same files, which were current while the request   *)
(* held its slot, although others replace and remove them meanwhile.             *)
FilesAreCoherent == DataIsCurrent /\ CheckerSeesTheRun
=============================================================================
