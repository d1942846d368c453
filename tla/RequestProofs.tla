--------------------------- MODULE RequestProofs ---------------------------
(***************************************************************************)
(* The way of a request into the service: proofs about JudgeIntake and     *)
(* about HttpServer, which hands it the requests.                          *)
(*                                                                         *)
(* JudgeIntake, for any requests, files and rates of change: a request is  *)
(* judged on files that were current while it held its slot, program and   *)
(* checker get the same ones, a rejection has a reason, and an external    *)
(* checker is named by a path that stays in its directory.                 *)
(*                                                                         *)
(* HttpServer, for any number of connections and requests: TypeOK,         *)
(* RunEndsCleanly and RequestsAreServed.                                   *)
(***************************************************************************)
EXTENDS HttpServer, JudgeIntake, SharedLemmas, TLAPS

Phases == {"new", "waiting", "source", "input", "answer", "judging", "rejected", "done"}
CaseData == [input : Int, expectedOutput : Int]

IntakeTypes ==
  /\ form \in [Requests -> Forms] /\ external \in BOOLEAN
  /\ file \in [Files -> {DIRECTORY} \cup Nat]
  /\ phase \in [Requests -> Phases]
  /\ source \in [Requests -> Int]
  /\ data \in [Requests -> Seq(CaseData)]
  /\ stdin = [q \in Requests |-> stdin[q]]
  /\ files = [q \in Requests |-> files[q]]
  /\ current = [q \in Requests |-> current[q]]

-----------------------------------------------------------------------------
\* The inductive invariant, of one request r.

Accepted(f) ==
  validateJudgeRequest(f) /\ f.language \in Languages /\ resolveChecker(f).kind # "error"

\* Past Validate, the request keeps the rules.
EntryOK(r) == phase[r] \notin {"new", "rejected"} => Accepted(form[r])

\* While it holds its slot, the history knows what every file contains.
NowOK(r) == phase[r] \in Holding => \A p \in Files : <<p, file[p]>> \in current[r]

\* The checker's source is one the history knows.
SourceOK(r) ==
  phase[r] \in {"input", "answer", "judging", "done"} /\ resolveChecker(form[r]).kind = "external"
    => <<resolveChecker(form[r]).path, source[r]>> \in current[r]

\* So is what has been read of the cases, one after the other.
ReadOK(r, i) ==
  LET tc == form[r].testCases[i] IN
  HasInputFile(tc) =>
    /\ <<tc.inputFile.elems, data[r][i].input>> \in current[r]
    /\ <<tc.expectedOutputFile.elems, data[r][i].expectedOutput>> \in current[r]
DataOK(r) ==
  LET n == Len(data[r])
      tc == form[r].testCases[n] IN
  /\ n <= Len(form[r].testCases)
  /\ phase[r] \in {"new", "waiting", "source"} => n = 0
  /\ phase[r] \in {"input", "judging", "done"} => \A i \in 1..n : ReadOK(r, i)
  /\ phase[r] = "answer" =>
       /\ n > 0 /\ HasInputFile(tc) /\ <<tc.inputFile.elems, data[r][n].input>> \in current[r]
       /\ \A i \in 1..n - 1 : ReadOK(r, i)
  /\ phase[r] \in {"judging", "done"} => n = Len(form[r].testCases)

\* Program and checker are given what was read.
RunsOK(r) ==
  /\ phase[r] \notin {"judging", "done"} => DOMAIN stdin[r] = {}
  /\ DOMAIN files[r] \subseteq DOMAIN stdin[r]
  /\ \A i \in DOMAIN stdin[r] : stdin[r][i] = data[r][i].input
  /\ \A i \in DOMAIN files[r] : files[r][i] = data[r][i]

\* What a rejection may say.
Reason(r) ==
  \/ resolveChecker(form[r]).kind = "error"
  \/ resolveChecker(form[r]).kind = "builtin" /\ resolveChecker(form[r]).path[1] \notin Builtins
  \/ Named(form[r]) # {} /\ ~external
  \/ \E p \in Named(form[r]) :
       p \notin Files \/ \E v \in {DIRECTORY, ABSENT} : <<p, v>> \in current[r]
RejectOK(r) == phase[r] = "rejected" /\ KeepsTheRules(form[r]) => Reason(r)

RequestOK(r) ==
  EntryOK(r) /\ NowOK(r) /\ SourceOK(r) /\ DataOK(r) /\ RunsOK(r) /\ RejectOK(r)

IntakeInv == IntakeTypes /\ \A r \in Requests : RequestOK(r)

-----------------------------------------------------------------------------
\* Facts about requests and files.

\* The cases of a request.
LEMMA FormFacts ==
  ASSUME NEW f \in Forms
  PROVE  /\ f \in JudgeRequests
         /\ Len(f.testCases) \in Nat /\ DOMAIN f.testCases = 1..Len(f.testCases)
         /\ \A i \in 1..Len(f.testCases) : f.testCases[i] \in TestCases
<1>1. f \in JudgeRequests
  BY IntakeAssumption
<1>2. f.testCases \in Seq(TestCases)
  BY <1>1 DEF JudgeRequests
<1> QED
  BY <1>1, <1>2, LenProperties, ElementOfSeq

\* A test case is well formed in the sense of the interface exactly if
\* validateJudgeTestCase takes it.
LEMMA CaseRules ==
  ASSUME NEW tc \in TestCases
  PROVE  validateJudgeTestCase(tc) <=>
           \/ {tc.inputFile, tc.expectedOutputFile} = {NoPath}
           \/ ~HasText(tc) /\ \A p \in {tc.inputFile, tc.expectedOutputFile} : ValidPath(p)
<1>1. \A p \in Paths : p = NoPath <=> p.elems = <<>> /\ ~p.rooted
  BY DEF Paths, NoPath
<1>2. tc.inputFile \in Paths /\ tc.expectedOutputFile \in Paths
  BY DEF TestCases
<1>3. /\ HasInputFile(tc) <=> tc.inputFile # NoPath
      /\ HasOutputFile(tc) <=> tc.expectedOutputFile # NoPath
  BY <1>1, <1>2 DEF HasInputFile, HasOutputFile
<1>4. ~ValidPath(NoPath)
  BY DEF ValidPath, NoPath
<1> QED
  BY <1>3, <1>4 DEF validateJudgeTestCase

\* resolveChecker takes one checker at most.
LEMMA CheckerRules ==
  ASSUME NEW f \in Forms, resolveChecker(f).kind # "error"
  PROVE  f.inline # "blank" /\ ~(f.inline = "source" /\ f.checker.kind # "none")
<1>1. Choice("error", <<>>).kind = "error"
  BY DEF Choice
<1>2. CASE f.inline = "blank"
  <2>1. resolveChecker(f) = Choice("error", <<>>)
    BY <1>2 DEF resolveChecker
  <2> QED
    BY <1>1, <2>1
<1>3. CASE f.inline = "source" /\ f.checker.kind # "none"
  <2>1. resolveChecker(f) = Choice("error", <<>>)
    BY <1>3 DEF resolveChecker
  <2> QED
    BY <1>1, <2>1
<1> QED
  BY <1>2, <1>3

\* Judge takes requests that keep the rules, and no others.
LEMMA RulesAreChecked ==
  ASSUME NEW f \in Forms
  PROVE  /\ Accepted(f) => KeepsTheRules(f)
         /\ KeepsTheRules(f) /\ resolveChecker(f).kind # "error" => Accepted(f)
<1>1. /\ f.timeLimit \in Nat /\ f.memoryLimit \in Nat /\ "" \notin Languages /\ MaxCases \in Nat
      /\ f.testCases \in Seq(TestCases)
  BY FormFacts, IntakeAssumption DEF JudgeRequests
<1>2. /\ Len(f.testCases) \in Nat /\ DOMAIN f.testCases = 1..Len(f.testCases)
      /\ \A i \in DOMAIN f.testCases : f.testCases[i] \in TestCases
  BY FormFacts
<1>3. \A i \in DOMAIN f.testCases : validateJudgeTestCase(f.testCases[i]) <=>
        LET tc == f.testCases[i]
            both == {tc.inputFile, tc.expectedOutputFile} IN
        both = {NoPath} \/ (~HasText(tc) /\ \A p \in both : ValidPath(p))
  BY <1>2, CaseRules
<1>4. f.testCases # <<>> <=> Len(f.testCases) # 0
  BY <1>1, EmptySeq
<1>5. Len(f.testCases) \in 1..MaxCases <=> f.testCases # <<>> /\ Len(f.testCases) <= MaxCases
  <2> DEFINE n == Len(f.testCases)
  <2>1. n \in Nat /\ MaxCases \in Nat
    BY <1>1, <1>2
  <2> HIDE DEF n
  <2>2. n \in 1..MaxCases <=> n # 0 /\ n <= MaxCases
    BY <2>1
  <2> QED
    BY <1>4, <2>2 DEF n
<1>6. /\ f.timeLimit # 0 <=> f.timeLimit > 0
      /\ f.memoryLimit # 0 <=> f.memoryLimit > 0
      /\ f.language \in Languages => f.language # ""
  <2>1. \A n \in Nat : n # 0 <=> n > 0
    OBVIOUS
  <2> QED
    BY <1>1, <2>1
<1>7. Accepted(f) => KeepsTheRules(f)
  BY <1>3, <1>5, <1>6, CheckerRules DEF Accepted, KeepsTheRules, validateJudgeRequest
<1>8. KeepsTheRules(f) /\ resolveChecker(f).kind # "error" => Accepted(f)
  BY <1>3, <1>5, <1>6 DEF Accepted, KeepsTheRules, validateJudgeRequest
<1> QED
  BY <1>7, <1>8

\* The files a request names.
LEMMA NamedFacts ==
  ASSUME NEW f \in Forms
  PROVE  /\ resolveChecker(f).kind = "external" => resolveChecker(f).path \in Named(f)
         /\ \A i \in 1..Len(f.testCases) :
              LET tc == f.testCases[i] IN
              Accepted(f) /\ HasInputFile(tc) =>
                tc.inputFile.elems \in Named(f) /\ tc.expectedOutputFile.elems \in Named(f)
<1>1. resolveChecker(f).kind = "external" => resolveChecker(f).path \in Named(f)
  BY DEF Named
<1>2. ASSUME NEW i \in 1..Len(f.testCases), Accepted(f), HasInputFile(f.testCases[i])
      PROVE  /\ f.testCases[i].inputFile.elems \in Named(f)
             /\ f.testCases[i].expectedOutputFile.elems \in Named(f)
  <2>1. i \in DOMAIN f.testCases
    BY FormFacts
  <2>2. /\ f.testCases[i].inputFile.elems # <<>>
        /\ f.testCases[i].expectedOutputFile.elems # <<>>
    BY <1>2, <2>1 DEF Accepted, validateJudgeRequest, validateJudgeTestCase, ValidPath
  <2> QED
    BY <2>1, <2>2 DEF Named
<1> QED
  BY <1>1, <1>2

\* A read gives what the file contains, or finds no regular file.
LEMMA OpenedFacts ==
  ASSUME IntakeTypes, NEW p
  PROVE  /\ Opened(p) \in Int
         /\ Opened(p) # ABSENT => p \in Files /\ Opened(p) = file[p]
         /\ Opened(p) = ABSENT => p \notin Files \/ file[p] \in {DIRECTORY, ABSENT}
<1>1. p \in Files => file[p] \in {DIRECTORY} \cup Nat
  BY DEF IntakeTypes
<1> QED
  BY <1>1 DEF Opened, Regular, ABSENT, DIRECTORY

-----------------------------------------------------------------------------

\* A request that nothing happens to.
LEMMA OthersStayOK ==
  ASSUME NEW q \in Requests, RequestOK(q),
         form'[q] = form[q], external' = external, file' = file, phase'[q] = phase[q],
         source'[q] = source[q], data'[q] = data[q], stdin'[q] = stdin[q],
         files'[q] = files[q], current'[q] = current[q]
  PROVE  RequestOK(q)'
<1>1. EntryOK(q)' /\ NowOK(q)' /\ SourceOK(q)'
  BY DEF RequestOK, EntryOK, NowOK, SourceOK
<1>2. DataOK(q)'
  BY DEF RequestOK, DataOK, ReadOK
<1>3. RunsOK(q)'
  BY DEF RequestOK, RunsOK
<1>4. RejectOK(q)'
  BY DEF RequestOK, RejectOK, Reason
<1> QED
  BY <1>1, <1>2, <1>3, <1>4 DEF RequestOK

\* The steps of request r.
StepOf(r) ==
  \/ Validate(r) \/ Acquire(r) \/ ReadSource(r) \/ ReadInput(r) \/ ReadAnswer(r) \/ Finish(r)
  \/ \E i \in Cases(r) : Run(r, i) \/ Check(r, i)

\* They change nothing of other requests.
LEMMA StepsAreLocal ==
  ASSUME IntakeTypes, NEW r \in Requests, StepOf(r)
  PROVE  /\ form' = form /\ external' = external /\ file' = file
         /\ \A q \in Requests : q # r =>
              /\ phase'[q] = phase[q] /\ source'[q] = source[q] /\ data'[q] = data[q]
              /\ stdin'[q] = stdin[q] /\ files'[q] = files[q] /\ current'[q] = current[q]
<1>1. CASE Validate(r) \/ Acquire(r) \/ Finish(r)
  BY <1>1 DEF IntakeTypes, Validate, Acquire, Finish, Goto, Unread
<1>2. CASE ReadSource(r)
  BY <1>2 DEF IntakeTypes, ReadSource, Goto, Unread
<1>3. CASE ReadInput(r)
  BY <1>3 DEF IntakeTypes, ReadInput, Goto, Unread
<1>4. CASE ReadAnswer(r)
  BY <1>4 DEF IntakeTypes, ReadAnswer, Goto, Unread
<1>5. CASE \E i \in Cases(r) : Run(r, i) \/ Check(r, i)
  BY <1>5 DEF IntakeTypes, Run, Check
<1> QED
  BY <1>1, <1>2, <1>3, <1>4, <1>5 DEF StepOf

\* Before the slot.
LEMMA ValidateOK ==
  ASSUME IntakeTypes, NEW r \in Requests, RequestOK(r), Validate(r)
  PROVE  IntakeTypes' /\ RequestOK(r)'
<1> DEFINE there == IF Accepted(form[r]) THEN "waiting" ELSE "rejected"
<1>1. /\ phase[r] = "new" /\ phase' = [phase EXCEPT ![r] = there]
      /\ UNCHANGED <<form, external, file, source, data, stdin, files, current>>
  BY DEF Validate, Goto, Unread, Accepted
<1>2. phase'[r] = there /\ there \in Phases /\ form[r] \in Forms
  BY <1>1 DEF IntakeTypes, Phases
<1>3. IntakeTypes'
  BY <1>1, <1>2 DEF IntakeTypes
<1>4. EntryOK(r)' /\ NowOK(r)' /\ SourceOK(r)'
  BY <1>1, <1>2 DEF EntryOK, NowOK, SourceOK, Holding
<1>5. DataOK(r)'
  BY <1>1, <1>2 DEF RequestOK, DataOK
<1>6. RunsOK(r)'
  BY <1>1, <1>2 DEF RequestOK, RunsOK
<1>7. RejectOK(r)'
  BY <1>1, <1>2, RulesAreChecked DEF RejectOK, Reason
<1> QED
  BY <1>3, <1>4, <1>5, <1>6, <1>7 DEF RequestOK

\* The slot, from which on the history watches the files.
LEMMA AcquireOK ==
  ASSUME IntakeTypes, NEW r \in Requests, RequestOK(r), Acquire(r)
  PROVE  IntakeTypes' /\ RequestOK(r)'
<1>1. /\ phase[r] = "waiting" /\ phase' = [phase EXCEPT ![r] = "source"]
      /\ current' = [current EXCEPT ![r] = {<<p, file[p]>> : p \in Files}]
      /\ UNCHANGED <<form, external, file, source, data, stdin, files>>
  BY DEF Acquire, Goto
<1>2. phase'[r] = "source" /\ current'[r] = {<<p, file[p]>> : p \in Files}
  BY <1>1 DEF IntakeTypes
<1>3. IntakeTypes'
  BY <1>1 DEF IntakeTypes, Phases
<1>4. EntryOK(r)' /\ NowOK(r)' /\ SourceOK(r)' /\ RejectOK(r)'
  BY <1>1, <1>2 DEF RequestOK, EntryOK, NowOK, SourceOK, RejectOK
<1>5. DataOK(r)'
  BY <1>1, <1>2 DEF RequestOK, DataOK
<1>6. RunsOK(r)'
  BY <1>1, <1>2 DEF RequestOK, RunsOK
<1> QED
  BY <1>3, <1>4, <1>5, <1>6 DEF RequestOK

\* A file that a read did not find is a reason to reject.
LEMMA NotFoundIsReason ==
  ASSUME IntakeTypes, NEW r \in Requests, RequestOK(r), phase[r] \in Holding,
         NEW p \in Named(form[r]), ~external \/ Opened(p) = ABSENT
  PROVE  Reason(r)
<1>1. CASE ~external
  BY <1>1 DEF Reason
<1>2. CASE Opened(p) = ABSENT /\ p \notin Files
  BY <1>2 DEF Reason
<1>3. CASE Opened(p) = ABSENT /\ p \in Files
  <2>1. file[p] \in {DIRECTORY, ABSENT} /\ <<p, file[p]>> \in current[r]
    BY <1>3, OpenedFacts DEF RequestOK, NowOK
  <2> QED
    BY <2>1 DEF Reason
<1> QED
  BY <1>1, <1>2, <1>3

\* A rejection keeps the rest of the invariant.
LEMMA RejectingOK ==
  ASSUME IntakeTypes, NEW r \in Requests, RequestOK(r), phase[r] \in Holding,
         phase' = [phase EXCEPT ![r] = "rejected"], phase[r] # "judging", Reason(r),
         source' \in [Requests -> Int],
         UNCHANGED <<form, external, file, data, stdin, files, current>>
  PROVE  IntakeTypes' /\ RequestOK(r)'
<1>1. phase'[r] = "rejected"
  BY DEF IntakeTypes
<1>2. IntakeTypes'
  BY DEF IntakeTypes, Phases
<1>3. EntryOK(r)' /\ NowOK(r)' /\ SourceOK(r)'
  BY <1>1 DEF EntryOK, NowOK, SourceOK, Holding
<1>4. DataOK(r)'
  BY <1>1 DEF RequestOK, DataOK
<1>5. RunsOK(r)'
  BY <1>1 DEF RequestOK, RunsOK, Holding
<1>6. RejectOK(r)'
  BY DEF RejectOK, Reason
<1> QED
  BY <1>2, <1>3, <1>4, <1>5, <1>6 DEF RequestOK

\* The checker's source is read.
LEMMA ReadSourceOK ==
  ASSUME IntakeTypes, NEW r \in Requests, RequestOK(r), ReadSource(r)
  PROVE  IntakeTypes' /\ RequestOK(r)'
<1> DEFINE choice == resolveChecker(form[r])
           found == CASE choice.kind = "inline" -> 1
                      [] choice.kind = "external" -> IF external THEN Opened(choice.path) ELSE ABSENT
                      [] choice.kind = "builtin" -> IF choice.path[1] \in Builtins THEN 1 ELSE ABSENT
<1>1. /\ phase[r] = "source"
      /\ phase' = [phase EXCEPT ![r] = IF found = ABSENT THEN "rejected" ELSE "input"]
      /\ source' = [source EXCEPT ![r] = found]
      /\ UNCHANGED <<form, external, file, data, stdin, files, current>>
  BY DEF ReadSource, Goto, Unread
<1>2. /\ form[r] \in Forms /\ Accepted(form[r])
      /\ choice.kind \in {"inline", "external", "builtin"}
  <2>1. form[r] \in Forms /\ Accepted(form[r])
    BY <1>1 DEF IntakeTypes, RequestOK, EntryOK
  <2>2. \A f \in Forms : resolveChecker(f).kind \in {"error", "inline", "external", "builtin"}
    <3> SUFFICES ASSUME NEW f \in Forms
                 PROVE  resolveChecker(f).kind \in {"error", "inline", "external", "builtin"}
      OBVIOUS
    <3>1. /\ f.inline \in {"", "blank", "source"}
          /\ f.checker.kind \in {"none", "name", "badName", "external"}
      BY IntakeAssumption DEF JudgeRequests, CheckerRefs
    <3>2. \A k, p : Choice(k, p).kind = k
      BY DEF Choice
    <3> QED
      BY <3>1, <3>2 DEF resolveChecker
  <2> QED
    BY <2>1, <2>2 DEF Accepted
<1>3. /\ found \in Int
      /\ choice.kind = "external" /\ found # ABSENT => choice.path \in Files /\ found = file[choice.path]
      /\ choice.kind = "external" /\ found = ABSENT => ~external \/ Opened(choice.path) = ABSENT
      /\ choice.kind = "builtin" /\ found = ABSENT => choice.path[1] \notin Builtins
      /\ choice.kind = "inline" => found # ABSENT
  BY <1>2, OpenedFacts DEF ABSENT
<1> HIDE DEF found
<1>4. source' \in [Requests -> Int]
  BY <1>1, <1>3 DEF IntakeTypes
<1>5. CASE found = ABSENT
  <2>1. Reason(r)
    <3>1. CASE choice.kind = "builtin"
      BY <1>3, <1>5, <3>1 DEF Reason
    <3>2. CASE choice.kind = "external"
      <4>1. choice.path \in Named(form[r])
        BY <1>2, <3>2, NamedFacts
      <4> QED
        BY <1>1, <1>3, <1>5, <3>2, <4>1, NotFoundIsReason DEF Holding
    <3> QED
      BY <1>2, <1>3, <1>5, <3>1, <3>2
  <2> QED
    BY <1>1, <1>4, <1>5, <2>1, RejectingOK DEF Holding
<1>6. CASE found # ABSENT
  <2>1. /\ phase' = [phase EXCEPT ![r] = "input"] /\ phase'[r] = "input"
        /\ source'[r] = found
    BY <1>1, <1>6 DEF IntakeTypes
  <2>2. IntakeTypes'
    BY <1>1, <1>4, <2>1 DEF IntakeTypes, Phases
  <2>3. NowOK(r)' /\ EntryOK(r)' /\ RejectOK(r)'
    BY <1>1, <2>1 DEF RequestOK, NowOK, EntryOK, RejectOK, Holding
  <2>4. SourceOK(r)'
    BY <1>1, <1>3, <1>6, <2>1 DEF RequestOK, NowOK, SourceOK, Holding
  <2>5. DataOK(r)'
    BY <1>1, <2>1 DEF RequestOK, DataOK
  <2>6. RunsOK(r)'
    BY <1>1, <2>1 DEF RequestOK, RunsOK
  <2> QED
    BY <2>2, <2>3, <2>4, <2>5, <2>6 DEF RequestOK
<1> QED
  BY <1>5, <1>6

\* What has been read stays as it was read, when more is read.
LEMMA ReadsStay ==
  ASSUME NEW r \in Requests, NEW i, ReadOK(r, i), form' = form, current' = current,
         data'[r][i] = data[r][i]
  PROVE  ReadOK(r, i)'
BY DEF ReadOK

\* The first read of the next case, if there is one.
LEMMA ReadInputOK ==
  ASSUME IntakeTypes, NEW r \in Requests, RequestOK(r), ReadInput(r)
  PROVE  IntakeTypes' /\ RequestOK(r)'
<1> DEFINE n == Len(data[r])
           tc == form[r].testCases[n + 1]
           found == Opened(tc.inputFile.elems)
           Read(v) == [NoData EXCEPT !.input = v]
           Added(v) == data' = [data EXCEPT ![r] = Append(data[r], Read(v))]
<1>1. /\ phase[r] = "input"
      /\ UNCHANGED <<form, external, file, source, stdin, files, current>>
  BY DEF ReadInput, Unread
<1>2. /\ form[r] \in Forms /\ Accepted(form[r])
      /\ n \in Nat /\ n <= Len(form[r].testCases)
      /\ \A i \in 1..n : ReadOK(r, i)
      /\ data[r] \in Seq(CaseData)
      /\ DOMAIN stdin[r] = {} /\ DOMAIN files[r] = {}
  BY <1>1, LenProperties DEF IntakeTypes, RequestOK, EntryOK, DataOK, RunsOK
<1>3. Len(form[r].testCases) \in Nat /\ Cases(r) = 1..Len(form[r].testCases)
  BY <1>2, FormFacts DEF Cases
<1>4. \/ n + 1 \notin Cases(r) /\ Goto(r, "judging") /\ data' = data
      \/ n + 1 \in Cases(r) /\ ~HasInputFile(tc) /\ Added(0) /\ phase' = phase
      \/ n + 1 \in Cases(r) /\ HasInputFile(tc) /\ external /\ found # ABSENT
           /\ Added(found) /\ Goto(r, "answer")
      \/ n + 1 \in Cases(r) /\ HasInputFile(tc) /\ (~external \/ found = ABSENT)
           /\ Goto(r, "rejected") /\ data' = data
  BY DEF ReadInput
<1>5. ASSUME NEW v \in Int, Added(v)
      PROVE  /\ data' \in [Requests -> Seq(CaseData)]
             /\ Len(data'[r]) = n + 1 /\ data'[r][n + 1].input = v
             /\ \A i \in 1..n : data'[r][i] = data[r][i]
  <2>1. Read(v) \in CaseData /\ Read(v).input = v
    BY DEF NoData, CaseData
  <2> HIDE DEF Read
  <2>2. data'[r] = Append(data[r], Read(v))
    BY <1>5 DEF IntakeTypes
  <2>3. /\ Append(data[r], Read(v)) \in Seq(CaseData)
        /\ Len(Append(data[r], Read(v))) = n + 1
        /\ \A i \in 1..n : Append(data[r], Read(v))[i] = data[r][i]
        /\ Append(data[r], Read(v))[n + 1] = Read(v)
    BY <1>2, <2>1, AppendProperties
  <2>4. data' \in [Requests -> Seq(CaseData)]
    BY <1>5, <2>3 DEF IntakeTypes
  <2> QED
    BY <2>1, <2>2, <2>3, <2>4
<1> HIDE DEF n, tc, found, Read, Added
<1>6. CASE n + 1 \notin Cases(r) /\ Goto(r, "judging") /\ data' = data
  <2>1. phase'[r] = "judging" /\ n = Len(form[r].testCases)
    BY <1>2, <1>3, <1>6 DEF IntakeTypes, Goto
  <2>2. IntakeTypes'
    BY <1>1, <1>6 DEF IntakeTypes, Goto, Phases
  <2>3. EntryOK(r)' /\ NowOK(r)' /\ SourceOK(r)' /\ RejectOK(r)'
    BY <1>1, <2>1 DEF RequestOK, EntryOK, NowOK, SourceOK, RejectOK, Holding
  <2>4. \A i \in 1..n : ReadOK(r, i)'
    BY <1>1, <1>2, <1>6, ReadsStay
  <2>5. DataOK(r)'
    BY <1>1, <1>2, <1>6, <2>1, <2>4 DEF DataOK, n
  <2>6. RunsOK(r)'
    BY <1>1, <1>2, <2>1 DEF RunsOK
  <2> QED
    BY <2>2, <2>3, <2>5, <2>6 DEF RequestOK
<1>7. CASE n + 1 \in Cases(r) /\ ~HasInputFile(tc) /\ Added(0) /\ phase' = phase
  <2>1. /\ data' \in [Requests -> Seq(CaseData)]
        /\ Len(data'[r]) = n + 1 /\ \A i \in 1..n : data'[r][i] = data[r][i]
    BY <1>5, <1>7
  <2>2. IntakeTypes'
    BY <1>1, <1>7, <2>1 DEF IntakeTypes
  <2>3. EntryOK(r)' /\ NowOK(r)' /\ SourceOK(r)' /\ RejectOK(r)'
    BY <1>1, <1>7 DEF RequestOK, EntryOK, NowOK, SourceOK, RejectOK
  <2>4. \A i \in 1..n : ReadOK(r, i)'
    BY <1>1, <1>2, <2>1, ReadsStay
  <2>5. \A i \in Nat : i = n + 1 => ReadOK(r, i)'
    BY <1>1, <1>7 DEF ReadOK, tc
  <2>6. DataOK(r)'
    <3>1. \A i \in 1..n + 1 : ReadOK(r, i)'
      BY <1>2, <2>4, <2>5
    <3>2. n + 1 <= Len(form'[r].testCases)
      BY <1>1, <1>2, <1>3, <1>7
    <3>3. phase'[r] = "input"
      BY <1>1, <1>7
    <3> QED
      BY <2>1, <3>1, <3>2, <3>3 DEF DataOK
  <2>7. RunsOK(r)'
    BY <1>1, <1>2, <1>7 DEF RunsOK
  <2> QED
    BY <2>2, <2>3, <2>6, <2>7 DEF RequestOK
<1>8. CASE n + 1 \in Cases(r) /\ HasInputFile(tc) /\ external /\ found # ABSENT
             /\ Added(found) /\ Goto(r, "answer")
  <2>1. found \in Int /\ tc.inputFile.elems \in Files /\ found = file[tc.inputFile.elems]
    BY <1>8, OpenedFacts DEF found
  <2>2. /\ data' \in [Requests -> Seq(CaseData)]
        /\ Len(data'[r]) = n + 1 /\ data'[r][n + 1].input = found
        /\ \A i \in 1..n : data'[r][i] = data[r][i]
    BY <1>5, <1>8, <2>1
  <2>3. phase'[r] = "answer"
    BY <1>8 DEF IntakeTypes, Goto
  <2>4. IntakeTypes'
    BY <1>1, <1>8, <2>2 DEF IntakeTypes, Goto, Phases
  <2>5. EntryOK(r)' /\ NowOK(r)' /\ SourceOK(r)' /\ RejectOK(r)'
    BY <1>1, <2>3 DEF RequestOK, EntryOK, NowOK, SourceOK, RejectOK, Holding
  <2>6. \A i \in 1..n : ReadOK(r, i)'
    BY <1>1, <1>2, <2>2, ReadsStay
  <2>7. <<tc.inputFile.elems, found>> \in current[r]
    BY <1>1, <2>1 DEF RequestOK, NowOK, Holding
  <2>8. DataOK(r)'
    <3>1. n + 1 <= Len(form'[r].testCases) /\ form'[r].testCases[n + 1] = tc
      BY <1>1, <1>2, <1>3, <1>8 DEF tc
    <3>2. \A i \in 1..(n + 1) - 1 : ReadOK(r, i)'
      BY <1>2, <2>6
    <3>3. n + 1 > 0
      BY <1>2
    <3> QED
      BY <1>1, <1>8, <2>2, <2>3, <2>7, <3>1, <3>2, <3>3 DEF DataOK
  <2>9. RunsOK(r)'
    BY <1>1, <1>2, <2>3 DEF RunsOK
  <2> QED
    BY <2>4, <2>5, <2>8, <2>9 DEF RequestOK
<1>9. CASE n + 1 \in Cases(r) /\ HasInputFile(tc) /\ (~external \/ found = ABSENT)
             /\ Goto(r, "rejected") /\ data' = data
  <2>1. tc.inputFile.elems \in Named(form[r])
    BY <1>2, <1>3, <1>9, NamedFacts DEF tc
  <2>2. Reason(r)
    BY <1>1, <1>9, <2>1, NotFoundIsReason DEF Holding, found
  <2>3. source' \in [Requests -> Int]
    BY <1>1 DEF IntakeTypes
  <2> QED
    BY <1>1, <1>9, <2>2, <2>3, RejectingOK DEF Holding, Goto
<1> QED
  BY <1>4, <1>6, <1>7, <1>8, <1>9

\* The second read of the case.
LEMMA ReadAnswerOK ==
  ASSUME IntakeTypes, NEW r \in Requests, RequestOK(r), ReadAnswer(r)
  PROVE  IntakeTypes' /\ RequestOK(r)'
<1> DEFINE n == Len(data[r])
           tc == form[r].testCases[n]
           found == Opened(tc.expectedOutputFile.elems)
<1>1. /\ phase[r] = "answer"
      /\ UNCHANGED <<form, external, file, source, stdin, files, current>>
  BY DEF ReadAnswer, Unread
<1>2. /\ form[r] \in Forms /\ Accepted(form[r])
      /\ n \in Nat /\ n > 0 /\ n <= Len(form[r].testCases)
      /\ HasInputFile(tc) /\ <<tc.inputFile.elems, data[r][n].input>> \in current[r]
      /\ \A i \in 1..n - 1 : ReadOK(r, i)
      /\ data[r] \in Seq(CaseData)
      /\ DOMAIN stdin[r] = {} /\ DOMAIN files[r] = {}
  BY <1>1, LenProperties DEF IntakeTypes, RequestOK, EntryOK, DataOK, RunsOK
<1>3. \/ found # ABSENT /\ Goto(r, "input") /\ data' = [data EXCEPT ![r][n].expectedOutput = found]
      \/ found = ABSENT /\ Goto(r, "rejected") /\ data' = data
  BY DEF ReadAnswer
<1> HIDE DEF n, tc, found
<1>4. CASE found # ABSENT /\ Goto(r, "input") /\ data' = [data EXCEPT ![r][n].expectedOutput = found]
  <2>1. /\ found \in Int /\ tc.expectedOutputFile.elems \in Files
        /\ found = file[tc.expectedOutputFile.elems]
    BY <1>4, OpenedFacts DEF found
  <2> DEFINE e == [data[r][n] EXCEPT !.expectedOutput = found]
  <2>2. data[r][n] \in CaseData
    BY <1>2, ElementOfSeq DEF n
  <2>3. e \in CaseData /\ e.input = data[r][n].input /\ e.expectedOutput = found
    BY <2>1, <2>2 DEF CaseData
  <2>4. data' = [data EXCEPT ![r] = [data[r] EXCEPT ![n] = e]]
    BY <1>4
  <2> HIDE DEF e
  <2>5. data'[r] = [data[r] EXCEPT ![n] = e]
    BY <2>4 DEF IntakeTypes
  <2>6. /\ data'[r] \in Seq(CaseData) /\ Len(data'[r]) = n
        /\ data'[r][n] = e
        /\ \A i \in 1..n - 1 : data'[r][i] = data[r][i]
    <3>1. [data[r] EXCEPT ![n] = e] \in Seq(CaseData) /\ Len([data[r] EXCEPT ![n] = e]) = n
      BY <1>2, <2>3, ExceptSeq DEF n
    <3>2. DOMAIN data[r] = 1..n
      BY <1>2, LenProperties DEF n
    <3> QED
      BY <1>2, <2>5, <3>1, <3>2
  <2>7. phase'[r] = "input"
    BY <1>4 DEF IntakeTypes, Goto
  <2>8. IntakeTypes'
    <3>1. data' \in [Requests -> Seq(CaseData)]
      BY <2>4, <2>5, <2>6 DEF IntakeTypes
    <3> QED
      BY <1>1, <1>4, <3>1 DEF IntakeTypes, Goto, Phases
  <2>9. EntryOK(r)' /\ NowOK(r)' /\ SourceOK(r)' /\ RejectOK(r)'
    BY <1>1, <2>7 DEF RequestOK, EntryOK, NowOK, SourceOK, RejectOK, Holding
  <2>10. \A i \in 1..n - 1 : ReadOK(r, i)'
    BY <1>1, <1>2, <2>6, ReadsStay
  <2>11. \A i \in Nat : i = n => ReadOK(r, i)'
    <3>1. <<tc.expectedOutputFile.elems, found>> \in current[r]
      BY <1>1, <2>1 DEF RequestOK, NowOK, Holding
    <3> QED
      BY <1>1, <1>2, <2>3, <2>6, <3>1 DEF ReadOK, tc
  <2>12. DataOK(r)'
    <3>1. \A i \in 1..n : ReadOK(r, i)'
      BY <1>2, <2>10, <2>11
    <3> QED
      BY <1>1, <1>2, <2>6, <2>7, <3>1 DEF DataOK
  <2>13. RunsOK(r)'
    BY <1>1, <1>2, <2>7 DEF RunsOK
  <2> QED
    BY <2>8, <2>9, <2>12, <2>13 DEF RequestOK
<1>5. CASE found = ABSENT /\ Goto(r, "rejected") /\ data' = data
  <2>1. tc.expectedOutputFile.elems \in Named(form[r])
    <3>1. n \in 1..Len(form[r].testCases)
      BY <1>2, FormFacts
    <3> QED
      BY <1>2, <3>1, NamedFacts DEF tc
  <2>2. Reason(r)
    BY <1>1, <1>5, <2>1, NotFoundIsReason DEF Holding, found
  <2>3. source' \in [Requests -> Int]
    BY <1>1 DEF IntakeTypes
  <2> QED
    BY <1>1, <1>5, <2>2, <2>3, RejectingOK DEF Holding, Goto
<1> QED
  BY <1>3, <1>4, <1>5

\* A case's program is started on what was read.
LEMMA RunOK ==
  ASSUME IntakeTypes, NEW r \in Requests, RequestOK(r), NEW i \in Cases(r), Run(r, i)
  PROVE  IntakeTypes' /\ RequestOK(r)'
<1>1. /\ phase[r] = "judging"
      /\ stdin' = [stdin EXCEPT ![r] =
           [k \in DOMAIN stdin[r] \cup {i} |-> IF k = i THEN data[r][i].input ELSE stdin[r][k]]]
      /\ UNCHANGED <<form, external, file, phase, source, data, files, current>>
  BY DEF Run
<1>2. /\ stdin' = [q \in Requests |-> stdin'[q]]
      /\ DOMAIN stdin'[r] = DOMAIN stdin[r] \cup {i}
      /\ \A k \in DOMAIN stdin'[r] : stdin'[r][k] = IF k = i THEN data[r][i].input ELSE stdin[r][k]
  BY <1>1 DEF IntakeTypes
<1>3. IntakeTypes'
  BY <1>1, <1>2 DEF IntakeTypes
<1>4. EntryOK(r)' /\ NowOK(r)' /\ SourceOK(r)' /\ RejectOK(r)'
  BY <1>1 DEF RequestOK, EntryOK, NowOK, SourceOK, RejectOK, Reason
<1>5. DataOK(r)'
  BY <1>1 DEF RequestOK, DataOK, ReadOK
<1>6. RunsOK(r)'
  BY <1>1, <1>2 DEF RequestOK, RunsOK
<1> QED
  BY <1>3, <1>4, <1>5, <1>6 DEF RequestOK

\* A case's checker is started on what its program was started on.
LEMMA CheckOK ==
  ASSUME IntakeTypes, NEW r \in Requests, RequestOK(r), NEW i \in Cases(r), Check(r, i)
  PROVE  IntakeTypes' /\ RequestOK(r)'
<1>1. /\ phase[r] = "judging" /\ i \in DOMAIN stdin[r]
      /\ files' = [files EXCEPT ![r] =
           [k \in DOMAIN files[r] \cup {i} |-> IF k = i THEN data[r][i] ELSE files[r][k]]]
      /\ UNCHANGED <<form, external, file, phase, source, data, stdin, current>>
  BY DEF Check, CheckerFiles
<1>2. /\ files' = [q \in Requests |-> files'[q]]
      /\ DOMAIN files'[r] = DOMAIN files[r] \cup {i}
      /\ \A k \in DOMAIN files'[r] : files'[r][k] = IF k = i THEN data[r][i] ELSE files[r][k]
  BY <1>1 DEF IntakeTypes
<1>3. IntakeTypes'
  BY <1>1, <1>2 DEF IntakeTypes
<1>4. EntryOK(r)' /\ NowOK(r)' /\ SourceOK(r)' /\ RejectOK(r)'
  BY <1>1 DEF RequestOK, EntryOK, NowOK, SourceOK, RejectOK, Reason
<1>5. DataOK(r)'
  BY <1>1 DEF RequestOK, DataOK, ReadOK
<1>6. RunsOK(r)'
  BY <1>1, <1>2 DEF RequestOK, RunsOK
<1> QED
  BY <1>3, <1>4, <1>5, <1>6 DEF RequestOK

\* The answer; the slot is free again, and the history stops.
LEMMA FinishOK ==
  ASSUME IntakeTypes, NEW r \in Requests, RequestOK(r), Finish(r)
  PROVE  IntakeTypes' /\ RequestOK(r)'
<1>1. /\ phase[r] = "judging" /\ phase' = [phase EXCEPT ![r] = "done"]
      /\ UNCHANGED <<form, external, file, source, data, stdin, files, current>>
  BY DEF Finish, Goto, Unread
<1>2. phase'[r] = "done"
  BY <1>1 DEF IntakeTypes
<1>3. IntakeTypes'
  BY <1>1 DEF IntakeTypes, Phases
<1>4. EntryOK(r)' /\ NowOK(r)' /\ SourceOK(r)' /\ RejectOK(r)'
  BY <1>1, <1>2 DEF RequestOK, EntryOK, NowOK, SourceOK, RejectOK, Holding
<1>5. DataOK(r)'
  BY <1>1, <1>2 DEF RequestOK, DataOK, ReadOK
<1>6. RunsOK(r)'
  BY <1>1, <1>2 DEF RequestOK, RunsOK
<1> QED
  BY <1>3, <1>4, <1>5, <1>6 DEF RequestOK

\* Somebody changes a file: the history of a request that holds its slot learns of
\* it and forgets nothing, and what was read before stays what it was.
LEMMA ChangeOK ==
  ASSUME IntakeTypes, NEW r \in Requests, RequestOK(r),
         NEW p \in Files, NEW v \in 0..MaxVersion, Change(p, v)
  PROVE  IntakeTypes' /\ RequestOK(r)'
<1>1. /\ file' = [file EXCEPT ![p] = v]
      /\ current' = [q \in Requests |->
           IF phase[q] \in Holding THEN current[q] \cup {<<p, v>>} ELSE current[q]]
      /\ UNCHANGED <<form, external, phase, source, data, stdin, files>>
  BY DEF Change
<1>2. v \in Nat
  <2>1. MaxVersion \in Nat
    BY IntakeAssumption
  <2> QED
    BY <2>1
<1>3. /\ \A x : x \in current[r] => x \in current'[r]
      /\ phase[r] \in Holding => <<p, v>> \in current'[r]
  BY <1>1
<1>4. IntakeTypes'
  <2>1. file' \in [Files -> {DIRECTORY} \cup Nat]
    BY <1>1, <1>2 DEF IntakeTypes
  <2>2. current' = [q \in Requests |-> current'[q]]
    BY <1>1
  <2> QED
    BY <1>1, <2>1, <2>2 DEF IntakeTypes
<1>5. NowOK(r)'
  <2> SUFFICES ASSUME phase[r] \in Holding, NEW q \in Files
               PROVE  <<q, file'[q]>> \in current'[r]
    BY <1>1 DEF NowOK
  <2>1. CASE q = p
    BY <1>1, <1>3, <2>1 DEF IntakeTypes
  <2>2. CASE q # p
    BY <1>1, <1>3, <2>2 DEF IntakeTypes, RequestOK, NowOK
  <2> QED
    BY <2>1, <2>2
<1>6. EntryOK(r)' /\ SourceOK(r)'
  BY <1>1, <1>3 DEF RequestOK, EntryOK, SourceOK
<1>7. DataOK(r)'
  BY <1>1, <1>3 DEF RequestOK, DataOK, ReadOK
<1>8. RunsOK(r)'
  BY <1>1 DEF RequestOK, RunsOK
<1>9. RejectOK(r)'
  BY <1>1, <1>3 DEF RequestOK, RejectOK, Reason
<1> QED
  BY <1>4, <1>5, <1>6, <1>7, <1>8, <1>9 DEF RequestOK

-----------------------------------------------------------------------------

\* The invariant holds at the start.
LEMMA IntakeInitOK == Init => IntakeInv
<1> SUFFICES ASSUME Init
             PROVE  IntakeInv
  OBVIOUS
<1>1. IntakeTypes
  <2>1. <<>> \in Seq(CaseData)
    BY EmptySeq
  <2> QED
    BY <2>1 DEF Init, IntakeTypes, Phases, ABSENT, DIRECTORY
<1>2. ASSUME NEW r \in Requests
      PROVE  RequestOK(r)
  <2>1. /\ phase[r] = "new" /\ data[r] = <<>> /\ stdin[r] = <<>> /\ files[r] = <<>>
        /\ form[r] \in Forms
    BY DEF Init
  <2>2. EntryOK(r) /\ NowOK(r) /\ SourceOK(r) /\ RejectOK(r)
    BY <2>1 DEF EntryOK, NowOK, SourceOK, RejectOK, Holding
  <2>3. DataOK(r)
    <3>1. Len(data[r]) = 0 /\ Len(form[r].testCases) \in Nat
      BY <2>1, FormFacts
    <3> QED
      BY <2>1, <3>1 DEF DataOK
  <2>4. RunsOK(r)
    BY <2>1 DEF RunsOK
  <2> QED
    BY <2>2, <2>3, <2>4 DEF RequestOK
<1> QED
  BY <1>1, <1>2 DEF IntakeInv

\* Every step keeps it.
LEMMA IntakeStepOK == IntakeInv /\ [Next]_vars => IntakeInv'
<1> SUFFICES ASSUME IntakeTypes, \A r \in Requests : RequestOK(r), [Next]_vars
             PROVE  IntakeTypes' /\ \A r \in Requests : RequestOK(r)'
  BY DEF IntakeInv
<1>1. ASSUME NEW r \in Requests, StepOf(r)
      PROVE  IntakeTypes' /\ \A q \in Requests : RequestOK(q)'
  <2>1. IntakeTypes' /\ RequestOK(r)'
    BY <1>1, ValidateOK, AcquireOK, ReadSourceOK, ReadInputOK, ReadAnswerOK, FinishOK,
       RunOK, CheckOK DEF StepOf
  <2>2. \A q \in Requests : q # r => RequestOK(q)'
    <3>1. /\ form' = form /\ external' = external /\ file' = file
          /\ \A q \in Requests : q # r =>
               /\ phase'[q] = phase[q] /\ source'[q] = source[q] /\ data'[q] = data[q]
               /\ stdin'[q] = stdin[q] /\ files'[q] = files[q] /\ current'[q] = current[q]
      BY <1>1, StepsAreLocal
    <3> QED
      BY <3>1, OthersStayOK
  <2> QED
    BY <2>1, <2>2
<1>2. ASSUME NEW p \in Files, NEW v \in 0..MaxVersion, Change(p, v)
      PROVE  IntakeTypes' /\ \A q \in Requests : RequestOK(q)'
  <2>1. PICK r \in Requests : phase[r] \notin {"rejected", "done"}
    BY <1>2 DEF Change
  <2>2. IntakeTypes'
    BY <1>2, <2>1, ChangeOK
  <2>3. \A q \in Requests : RequestOK(q)'
    BY <1>2, ChangeOK
  <2> QED
    BY <2>2, <2>3
<1>3. CASE UNCHANGED vars
  <2>1. IntakeTypes'
    BY <1>3 DEF vars, IntakeTypes
  <2>2. \A q \in Requests : RequestOK(q)'
    BY <1>3, OthersStayOK DEF vars
  <2> QED
    BY <2>1, <2>2
<1>4. CASE Terminated
  BY <1>3, <1>4 DEF Terminated
<1> QED
  BY <1>1, <1>2, <1>3, <1>4 DEF Next, StepOf

\* The invariant of the intake.
LEMMA IntakeInvariance == Spec => []IntakeInv
BY IntakeInitOK, IntakeStepOK, PTL DEF Spec

\* Program and checker of every case get the same files, which were current while
\* the request held its slot, whoever replaces and removes them in the meantime.
THEOREM FilesStayCoherent == Spec => []FilesAreCoherent
<1>1. IntakeInv => DataIsCurrent
  <2> SUFFICES ASSUME IntakeInv, NEW r \in Requests, phase[r] \in {"judging", "done"}
               PROVE  /\ resolveChecker(form[r]).kind = "external"
                           => <<resolveChecker(form[r]).path, source[r]>> \in current[r]
                      /\ \A i \in Cases(r) : ReadOK(r, i)
    BY DEF DataIsCurrent, ReadOK
  <2>1. RequestOK(r) /\ form[r] \in Forms
    BY DEF IntakeInv, IntakeTypes
  <2>2. Cases(r) = 1..Len(form[r].testCases)
    BY <2>1, FormFacts DEF Cases
  <2> QED
    BY <2>1, <2>2 DEF RequestOK, SourceOK, DataOK
<1>2. IntakeInv => CheckerSeesTheRun
  BY DEF IntakeInv, RequestOK, RunsOK, CheckerSeesTheRun
<1>3. IntakeInv => FilesAreCoherent
  BY <1>1, <1>2 DEF FilesAreCoherent
<1> QED
  BY <1>3, IntakeInvariance, PTL

\* A request that is judged keeps the rules of the interface; one that keeps them
\* and is rejected names a checker or a file that was not to be had while it held
\* its slot.
THEOREM RejectionsAreDeserved == Spec => []RejectionIsDeserved
<1>1. IntakeInv => RejectionIsDeserved
  <2> SUFFICES ASSUME IntakeInv, NEW r \in Requests
               PROVE  /\ phase[r] \in {"judging", "done"} => KeepsTheRules(form[r])
                      /\ phase[r] = "rejected" /\ KeepsTheRules(form[r]) => Reason(r)
    BY DEF RejectionIsDeserved, Reason
  <2>1. EntryOK(r) /\ RejectOK(r) /\ form[r] \in Forms
    BY DEF IntakeInv, IntakeTypes, RequestOK
  <2> QED
    BY <2>1, RulesAreChecked DEF EntryOK, RejectOK
<1> QED
  BY <1>1, IntakeInvariance, PTL

-----------------------------------------------------------------------------
\* Paths: what Cleaned keeps, against the walk along the path as it was written.

\* One element of a path, as Cleaned and as Depth take it.
CleanStep(p, before, e) ==
  LET cancels == before # <<>> /\ before[Len(before)] # ".." IN
  CASE e \in {"", "."} -> before
    [] e = ".." /\ cancels -> SubSeq(before, 1, Len(before) - 1)
    [] e = ".." /\ ~cancels /\ p.rooted -> before
    [] OTHER -> Append(before, e)
DepthStep(e) == CASE e \in {"", "."} -> 0 [] e = ".." -> -1 [] OTHER -> 1

IsClean(f, p) ==
  f = [k \in 0..Len(p.elems) |-> IF k = 0 THEN <<>> ELSE CleanStep(p, f[k - 1], p.elems[k])]
IsDepth(d, p) ==
  d = [k \in 0..Len(p.elems) |-> IF k = 0 THEN 0 ELSE d[k - 1] + DepthStep(p.elems[k])]

\* Cleaned and Depth, with their recursion named.
LEMMA CleanedIs ==
  ASSUME NEW p \in Paths
  PROVE  Cleaned(p) = [p EXCEPT !.elems = (CHOOSE f : IsClean(f, p))[Len(p.elems)]]
BY DEF Cleaned, IsClean, CleanStep

\* The same of Depth.
LEMMA DepthIs ==
  ASSUME NEW p \in Paths
  PROVE  Depth(p) = CHOOSE d : IsDepth(d, p)
BY DEF Depth, IsDepth, DepthStep

\* Cleaning one element of a path leaves a path.
LEMMA CleanStepType ==
  ASSUME NEW p, NEW S, NEW before \in Seq(S), NEW e \in S
  PROVE  CleanStep(p, before, e) \in Seq(S)
<1>1. before # <<>> => SubSeq(before, 1, Len(before) - 1) \in Seq(S)
  OBVIOUS
<1>2. Append(before, e) \in Seq(S)
  OBVIOUS
<1> QED
  BY <1>1, <1>2 DEF CleanStep

\* Cleaned is what its equation says, for every path.
LEMMA CleanedDef ==
  ASSUME NEW p \in Paths
  PROVE  \E f : /\ IsClean(f, p) /\ f \in [0..Len(p.elems) -> Seq(STRING)]
                /\ Cleaned(p) = [p EXCEPT !.elems = f[Len(p.elems)]]
<1> DEFINE n == Len(p.elems)
           S == Seq(STRING)
           st == [k \in 1..n |-> [before \in S |-> CleanStep(p, before, p.elems[k])]]
           F == CHOOSE f : IsClean(f, p)
<1>1. n \in Nat /\ \A k \in 1..n : p.elems[k] \in STRING
  BY DEF Paths
<1>2. <<>> \in S
  OBVIOUS
<1>3. st \in [1..n -> [S -> S]]
  BY <1>1, CleanStepType
<1>4. PICK g : IsRun(g, <<>>, st, n, S)
  <2> HIDE DEF n, S, st
  <2> QED BY <1>1, <1>2, <1>3, RunExists
<1>5. IsClean(g, p)
  <2>1. \A k \in 1..n : g[k] = CleanStep(p, g[k - 1], p.elems[k])
    <3> SUFFICES ASSUME NEW k \in 1..n PROVE g[k] = CleanStep(p, g[k - 1], p.elems[k])
      OBVIOUS
    <3>0. k - 1 \in 0..n
      BY <1>1
    <3>1. g[k] = st[k][g[k - 1]] /\ g[k - 1] \in S
      <4> HIDE DEF st, n
      <4> QED BY <3>0, <1>4 DEF IsRun
    <3> QED BY <3>1
  <2>2. g \in [0..n -> S] /\ g[0] = <<>>
    BY <1>4 DEF IsRun
  <2> QED BY <2>1, <2>2, <1>1 DEF IsClean
<1>6. IsClean(F, p)
  BY <1>5, Zenon
<1> HIDE DEF F
<1>7. F = [k \in 0..n |-> IF k = 0 THEN <<>> ELSE CleanStep(p, F[k - 1], p.elems[k])]
  BY <1>6 DEF IsClean
<1>8. ASSUME NEW k \in 1..n, F[k - 1] \in S PROVE F[k] = st[k][F[k - 1]]
  <2>1. k \in 0..n /\ k # 0
    BY <1>1
  <2>2. F[k] = CleanStep(p, F[k - 1], p.elems[k])
    BY <1>7, <2>1
  <2> QED BY <1>8, <2>2
<1>9. F = [k \in 0..n |-> F[k]] /\ F[0] = <<>>
  BY <1>1, <1>7
<1>10. IsRun(F, <<>>, st, n, S)
  <2> HIDE DEF n, S, st
  <2> QED BY <1>1, <1>2, <1>3, <1>8, <1>9, RunIsTyped
<1>11. F \in [0..n -> S]
  BY <1>10 DEF IsRun
<1> QED
  BY <1>6, <1>11, CleanedIs DEF F

\* So is Depth.
LEMMA DepthDef ==
  ASSUME NEW p \in Paths
  PROVE  IsDepth(Depth(p), p) /\ Depth(p) \in [0..Len(p.elems) -> Int]
<1> DEFINE n == Len(p.elems)
           st == [k \in 1..n |-> [d \in Int |-> d + DepthStep(p.elems[k])]]
           F == CHOOSE d : IsDepth(d, p)
<1>1. n \in Nat /\ \A k \in 1..n : DepthStep(p.elems[k]) \in Int
  BY DEF Paths, DepthStep
<1>3. st \in [1..n -> [Int -> Int]]
  BY <1>1
<1>4. PICK g : IsRun(g, 0, st, n, Int)
  <2>1. 0 \in Int OBVIOUS
  <2> HIDE DEF n, st
  <2> QED BY <1>1, <1>3, <2>1, RunExists
<1>5. IsDepth(g, p)
  <2>1. \A k \in 1..n : g[k] = g[k - 1] + DepthStep(p.elems[k])
    <3> SUFFICES ASSUME NEW k \in 1..n PROVE g[k] = g[k - 1] + DepthStep(p.elems[k])
      OBVIOUS
    <3>0. k - 1 \in 0..n
      BY <1>1
    <3>1. g[k] = st[k][g[k - 1]] /\ g[k - 1] \in Int
      <4> HIDE DEF st, n
      <4> QED BY <3>0, <1>4 DEF IsRun
    <3> QED BY <3>1
  <2>2. g \in [0..n -> Int] /\ g[0] = 0
    BY <1>4 DEF IsRun
  <2> QED BY <2>1, <2>2, <1>1 DEF IsDepth
<1>6. IsDepth(F, p)
  BY <1>5, Zenon
<1> HIDE DEF F
<1>7. F = [k \in 0..n |-> IF k = 0 THEN 0 ELSE F[k - 1] + DepthStep(p.elems[k])]
  BY <1>6 DEF IsDepth
<1>8. ASSUME NEW k \in 1..n, F[k - 1] \in Int PROVE F[k] = st[k][F[k - 1]]
  <2>1. k \in 0..n /\ k # 0
    BY <1>1
  <2>2. F[k] = F[k - 1] + DepthStep(p.elems[k])
    BY <1>7, <2>1
  <2> QED BY <1>8, <2>2
<1>9. F = [k \in 0..n |-> F[k]] /\ F[0] = 0
  BY <1>1, <1>7
<1>10. IsRun(F, 0, st, n, Int)
  <2> DEFINE I == Int
  <2> HIDE DEF n, st
  <2>1. 0 \in I
    OBVIOUS
  <2>2. st \in [1..n -> [I -> I]] /\ \A k \in 1..n : F[k - 1] \in I => F[k] = st[k][F[k - 1]]
    BY <1>3, <1>8
  <2> HIDE DEF I
  <2>3. IsRun(F, 0, st, n, I)
    BY <1>1, <1>9, <2>1, <2>2, RunIsTyped
  <2> QED BY <2>3 DEF I
<1>11. F \in [0..n -> Int]
  BY <1>10 DEF IsRun
<1> QED
  BY <1>6, <1>11, DepthIs DEF F

Plain(e) == e \notin {"", ".", ".."}
Below(q) == \A i \in 1..Len(q) : Plain(q[i])
Outside(q) == q # <<>> /\ q[1] = ".."

\* Below the root an element moves one down, one up or not at all; ".." at the
\* root leads outside.
LEMMA StepBelow ==
  ASSUME NEW p, ~p.rooted, NEW S, NEW before \in Seq(S), NEW e \in S, Below(before)
  PROVE  LET after == CleanStep(p, before, e) IN
         IF Len(before) + DepthStep(e) >= 0
           THEN Below(after) /\ Len(after) = Len(before) + DepthStep(e)
           ELSE Outside(after)
<1>0. Len(before) \in Nat /\ (before = <<>> <=> Len(before) = 0)
  OBVIOUS
<1>1. CASE e \in {"", "."}
  <2>1. CleanStep(p, before, e) = before /\ DepthStep(e) = 0
    BY <1>1 DEF CleanStep, DepthStep
  <2> QED
    BY <1>0, <2>1
<1>2. CASE Plain(e)
  <2>1. CleanStep(p, before, e) = Append(before, e) /\ DepthStep(e) = 1
    BY <1>2 DEF CleanStep, DepthStep, Plain
  <2>2. /\ Len(Append(before, e)) = Len(before) + 1
        /\ \A i \in 1..Len(before) + 1 : Append(before, e)[i] = IF i = Len(before) + 1 THEN e ELSE before[i]
    BY AppendProperties
  <2>3. Below(Append(before, e))
    BY <1>0, <1>2, <2>2 DEF Below
  <2> QED
    BY <1>0, <2>1, <2>2, <2>3
<1>3. CASE e = ".." /\ before # <<>>
  <2> DEFINE m == Len(before)
  <2>1. m \in Nat /\ m > 0
    BY <1>0, <1>3
  <2>2. Plain(before[m])
    BY <2>1 DEF Below
  <2>3. CleanStep(p, before, e) = SubSeq(before, 1, m - 1) /\ DepthStep(e) = -1
    BY <1>3, <2>2 DEF CleanStep, DepthStep, Plain
  <2>4. /\ Len(SubSeq(before, 1, m - 1)) = m - 1
        /\ \A i \in 1..m - 1 : SubSeq(before, 1, m - 1)[i] = before[i]
    BY <1>3, WithoutLast
  <2>5. Below(SubSeq(before, 1, m - 1))
    BY <2>1, <2>4 DEF Below
  <2> QED
    BY <2>1, <2>3, <2>4, <2>5
<1>4. CASE e = ".." /\ before = <<>>
  <2>1. CleanStep(p, before, e) = Append(before, e) /\ DepthStep(e) = -1
    BY <1>4 DEF CleanStep, DepthStep
  <2>2. Append(before, e) # <<>> /\ Append(before, e)[1] = e
    BY <1>4
  <2> QED
    BY <1>0, <1>4, <2>1, <2>2 DEF Outside
<1> QED
  BY <1>1, <1>2, <1>3, <1>4 DEF Plain

\* What has led outside stays outside: no later element takes the first ".." away.
LEMMA StepOutside ==
  ASSUME NEW p, ~p.rooted, NEW S, NEW before \in Seq(S), NEW e \in S, Outside(before)
  PROVE  Outside(CleanStep(p, before, e))
<1> DEFINE m == Len(before)
<1>1. m \in Nat /\ m > 0
  BY DEF Outside
<1>2. CASE e = ".." /\ before[m] # ".."
  <2>1. m > 1
    BY <1>1, <1>2 DEF Outside
  <2> DEFINE t == SubSeq(before, 1, m - 1)
  <2>2. CleanStep(p, before, e) = t
    BY <1>1, <1>2 DEF CleanStep, Outside
  <2>3. t \in Seq(S) /\ Len(t) = m - 1 /\ \A i \in 1..m - 1 : t[i] = before[i]
    BY WithoutLast DEF Outside
  <2> HIDE DEF t
  <2>4. t # <<>> /\ t[1] = before[1]
    BY <1>1, <2>1, <2>3
  <2> QED
    BY <2>2, <2>4 DEF Outside
<1>3. CASE e \in {"", "."}
  <2>1. CleanStep(p, before, e) = before
    BY <1>3 DEF CleanStep
  <2> QED
    BY <2>1
<1>4. CASE e \notin {"", "."} /\ ~(e = ".." /\ before[m] # "..")
  <2>1. CleanStep(p, before, e) = Append(before, e)
    BY <1>4 DEF CleanStep
  <2>2. Append(before, e) # <<>> /\ Append(before, e)[1] = before[1]
    BY <1>1
  <2> QED
    BY <2>1, <2>2 DEF Outside
<1> QED
  BY <1>2, <1>3, <1>4

\* The cleaned path says where the walk along the path as it was written leads.
LEMMA CleanedIsTheWalk ==
  ASSUME NEW p \in Paths, ~p.rooted
  PROVE  /\ Cleaned(p) \in Paths /\ ~Cleaned(p).rooted
         /\ IF \A k \in 0..Len(p.elems) : Depth(p)[k] >= 0
              THEN /\ Below(Cleaned(p).elems)
                   /\ Len(Cleaned(p).elems) = Depth(p)[Len(p.elems)]
              ELSE Outside(Cleaned(p).elems)
<1> DEFINE n == Len(p.elems)
           d == Depth(p)
<1>1. PICK f : /\ IsClean(f, p) /\ f \in [0..n -> Seq(STRING)]
               /\ Cleaned(p) = [p EXCEPT !.elems = f[n]]
  BY CleanedDef
<1>2. IsDepth(d, p) /\ d \in [0..n -> Int]
  BY DepthDef
<1>3. n \in Nat /\ \A k \in 1..n : p.elems[k] \in STRING
  BY DEF Paths
<1>4. f[0] = <<>> /\ d[0] = 0
  BY <1>1, <1>2, <1>3 DEF IsClean, IsDepth
<1>5. ASSUME NEW k \in Nat, k + 1 <= n
      PROVE  /\ f[k + 1] = CleanStep(p, f[k], p.elems[k + 1])
             /\ d[k + 1] = d[k] + DepthStep(p.elems[k + 1])
             /\ p.elems[k + 1] \in STRING /\ f[k] \in Seq(STRING)
  <2> DEFINE j == k + 1
  <2>1. j \in 0..n /\ j # 0 /\ j - 1 = k /\ j \in 1..n /\ k \in 0..n
    BY <1>3, <1>5
  <2> HIDE DEF j, n, d
  <2>2. f[j] = CleanStep(p, f[j - 1], p.elems[j]) /\ d[j] = d[j - 1] + DepthStep(p.elems[j])
    BY <1>1, <1>2, <2>1 DEF IsClean, IsDepth, n
  <2> QED
    BY <1>1, <1>3, <2>1, <2>2 DEF j
<1> HIDE DEF n, d
<1> DEFINE Walk(k) == IF \A j \in 0..k : d[j] >= 0
                        THEN Below(f[k]) /\ Len(f[k]) = d[k]
                        ELSE Outside(f[k])
           T == {k \in Nat : k <= n => Walk(k)}
<1>6. 0 \in T
  BY <1>4 DEF Below
<1>7. ASSUME NEW k \in Nat, k \in T PROVE k + 1 \in T
  <2> SUFFICES ASSUME k + 1 <= n PROVE Walk(k + 1)
    OBVIOUS
  <2> DEFINE e == p.elems[k + 1]
  <2>1. Walk(k) /\ k <= n
    BY <1>3, <1>7
  <2>2. /\ f[k + 1] = CleanStep(p, f[k], e) /\ d[k + 1] = d[k] + DepthStep(e)
        /\ e \in STRING /\ f[k] \in Seq(STRING)
    BY <1>5
  <2>3. \A j \in 0..(k + 1) : j \in 0..k \/ j = k + 1
    OBVIOUS
  <2> HIDE DEF e
  <2>4. CASE \A j \in 0..k : d[j] >= 0
    <3>1. Below(f[k]) /\ Len(f[k]) = d[k]
      BY <2>1, <2>4
    <3>2. IF d[k + 1] >= 0 THEN Below(f[k + 1]) /\ Len(f[k + 1]) = d[k + 1]
                           ELSE Outside(f[k + 1])
      BY <2>2, <3>1, StepBelow
    <3>3. (\A j \in 0..(k + 1) : d[j] >= 0) <=> d[k + 1] >= 0
      BY <2>3, <2>4
    <3> QED
      BY <3>2, <3>3
  <2>5. CASE ~\A j \in 0..k : d[j] >= 0
    <3>1. Outside(f[k])
      BY <2>1, <2>5
    <3>2. Outside(f[k + 1])
      BY <2>2, <3>1, StepOutside
    <3>3. ~\A j \in 0..(k + 1) : d[j] >= 0
      BY <2>5
    <3> QED
      BY <3>2, <3>3
  <2> QED
    BY <2>4, <2>5
<1> HIDE DEF T
<1>8. n \in T
  BY <1>3, <1>6, <1>7, SetInduction
<1>9. Walk(n)
  BY <1>3, <1>8 DEF T
<1>10. Cleaned(p) \in Paths /\ ~Cleaned(p).rooted /\ Cleaned(p).elems = f[n]
  BY <1>1, <1>3 DEF Paths
<1> QED
  BY <1>9, <1>10 DEF n, d

\* What a path is made of.
LEMMA PathFacts ==
  ASSUME NEW p \in Paths
  PROVE  /\ p.elems \in Seq(STRING) /\ p.rooted \in BOOLEAN
         /\ Len(p.elems) \in Nat /\ DOMAIN p.elems = 1..Len(p.elems)
         /\ p.elems = <<>> <=> Len(p.elems) = 0
         /\ \A k \in 1..Len(p.elems) : p.elems[k] \in STRING
<1>1. p.elems \in Seq(STRING) /\ p.rooted \in BOOLEAN
  BY DEF Paths
<1> DEFINE q == p.elems
<1> HIDE DEF q
<1>2. q \in Seq(STRING)
  BY <1>1 DEF q
<1>3. Len(q) \in Nat /\ DOMAIN q = 1..Len(q) /\ \A k \in 1..Len(q) : q[k] \in STRING
  BY <1>2, LenProperties, ElementOfSeq
<1>4. q = <<>> <=> Len(q) = 0
  BY <1>2, EmptySeq, LenProperties
<1> QED
  BY <1>1, <1>3, <1>4 DEF q

AllBlank(p) == \A k \in 1..Len(p.elems) : p.elems[k] \in {"", "."}
\* A walk along elements that are all blank stays at the root.
LEMMA BlankWalk ==
  ASSUME NEW p \in Paths, AllBlank(p)
  PROVE  Depth(p)[Len(p.elems)] = 0
<1> DEFINE n == Len(p.elems)
           d == Depth(p)
           T == {k \in Nat : k <= n => d[k] = 0}
<1>1. IsDepth(d, p) /\ d \in [0..n -> Int]
  BY DepthDef
<1>2. n \in Nat
  BY PathFacts
<1>3. 0 \in T
  BY <1>1, <1>2 DEF IsDepth
<1>4. ASSUME NEW k \in Nat, k \in T PROVE k + 1 \in T
  <2> SUFFICES ASSUME k + 1 <= n PROVE d[k + 1] = 0
    OBVIOUS
  <2> DEFINE j == k + 1
  <2>1. j \in 0..n /\ j # 0 /\ j - 1 = k /\ j \in 1..n /\ d[k] = 0
    BY <1>2, <1>4
  <2> HIDE DEF j, d, n
  <2>2. d[j] = d[j - 1] + DepthStep(p.elems[j])
    BY <1>1, <2>1 DEF IsDepth, n
  <2>3. DepthStep(p.elems[j]) = 0
    BY <2>1 DEF DepthStep, AllBlank, n
  <2> QED
    BY <2>1, <2>2, <2>3 DEF j
<1> HIDE DEF T
<1>5. n \in T
  BY <1>2, <1>3, <1>4, SetInduction
<1> QED
  BY <1>2, <1>5 DEF T

\* A path below the root is empty or local.
LEMMA BelowIsLocal ==
  ASSUME NEW S, NEW q \in Seq(S), NEW depth, Below(q), Len(q) = depth
  PROVE  (q # <<>> <=> depth > 0) /\ (q # <<>> => q[1] # "..") /\ ~(depth > 0 /\ depth = 0)
<1>1. Len(q) \in Nat /\ (q = <<>> <=> Len(q) = 0)
  BY EmptySeq, LenProperties
<1>2. q # <<>> => 1 \in 1..Len(q)
  BY <1>1
<1>3. (q # <<>> <=> Len(q) > 0) /\ ~(Len(q) > 0 /\ Len(q) = 0)
  BY <1>1
<1>4. q # <<>> => q[1] # ".."
  BY <1>2, Zenon DEF Below, Plain
<1> QED
  BY <1>3, <1>4, Zenon

\* What resolveChecker makes of an external checker's path.
LEMMA ExternalPathIsWalked ==
  ASSUME NEW f \in JudgeRequests, f.checker.kind = "external", f.inline = ""
  PROVE  LET p == f.checker.path
             choice == resolveChecker(f)
             last == {k \in DOMAIN p.elems : p.elems[k] \notin {"", "."}} IN
         /\ choice.kind = "external" <=>
              /\ ~p.rooted /\ last # {}
              /\ \A k \in 0..Len(p.elems) : Depth(p)[k] >= 0
              /\ Depth(p)[Len(p.elems)] > 0 /\ EndsInCpp(Cleaned(p))
         /\ choice.kind = "external" => ValidPath([elems |-> choice.path, rooted |-> FALSE])
<1> DEFINE p == f.checker.path
           n == Len(p.elems)
           c == Cleaned(p)
           choice == resolveChecker(f)
           last == {k \in DOMAIN p.elems : p.elems[k] \notin {"", "."}}
           inside == \A k \in 0..n : Depth(p)[k] >= 0
<1>0. p \in Paths
  <2>1. f.checker \in CheckerRefs
    BY DEF JudgeRequests
  <2> QED
    BY <2>1 DEF CheckerRefs
<1>1. p \in Paths /\ DOMAIN p.elems = 1..n /\ n \in Nat
  BY <1>0, PathFacts
<1>2. choice = IF validateExternalCheckerPath(p) THEN Choice("external", c.elems)
               ELSE Choice("error", <<>>)
  BY DEF resolveChecker
<1>3. /\ choice.kind = "external" <=> validateExternalCheckerPath(p)
      /\ validateExternalCheckerPath(p) => choice.path = c.elems
  <2> HIDE DEF choice, c, p
  <2>1. /\ Choice("external", c.elems).kind = "external" /\ Choice("external", c.elems).path = c.elems
        /\ Choice("error", <<>>).kind = "error"
    BY DEF Choice
  <2> QED
    BY <1>2, <2>1
<1>4. CASE p.rooted
  <2>1. c.rooted
    <3>1. PICK g : c = [p EXCEPT !.elems = g[n]]
      BY <1>1, CleanedDef
    <3> QED
      BY <1>1, <1>4, <3>1 DEF Paths
  <2>2. ~validateExternalCheckerPath(p)
    BY <2>1 DEF validateExternalCheckerPath, IsLocal
  <2> QED
    BY <1>3, <1>4, <2>2
<1>5. CASE ~p.rooted
  <2> HIDE DEF choice, c, p, n
  <2>1. /\ c \in Paths /\ ~c.rooted
        /\ IF inside THEN Below(c.elems) /\ Len(c.elems) = Depth(p)[n] ELSE Outside(c.elems)
    BY <1>1, <1>5, CleanedIsTheWalk DEF c, n
  <2>2. c.elems \in Seq(STRING) /\ Len(c.elems) \in Nat /\ DOMAIN c.elems = 1..Len(c.elems)
        /\ (c.elems = <<>> <=> Len(c.elems) = 0)
    BY <2>1, PathFacts
  <2>3. validateExternalCheckerPath(p) <=> c.elems # <<>> /\ c.elems[1] # ".." /\ EndsInCpp(c)
    BY <2>1 DEF validateExternalCheckerPath, IsLocal, c
  <2>4. CASE inside
    <3>1. Below(c.elems) /\ Len(c.elems) = Depth(p)[n]
      BY <2>1, <2>4
    <3> DEFINE depth == Depth(p)[n]
               q == c.elems
    <3>2. (q # <<>> <=> depth > 0) /\ (q # <<>> => q[1] # "..") /\ ~(depth > 0 /\ depth = 0)
      <4>1. q \in Seq(STRING) /\ Below(q) /\ Len(q) = depth
        BY <2>2, <3>1
      <4> HIDE DEF depth, q
      <4> QED
        BY <4>1, BelowIsLocal
    <3>4. Depth(p)[n] > 0 => last # {}
      <4>1. last = {} => AllBlank(p)
        BY <1>1 DEF AllBlank, n
      <4>2. AllBlank(p) => depth = 0
        BY <1>1, BlankWalk DEF n
      <4> QED
        BY <3>2, <4>1, <4>2, Zenon
    <3>5. c.elems # <<>> => ValidPath([elems |-> c.elems, rooted |-> FALSE])
      BY <2>2, <3>1 DEF ValidPath, Below, Plain
    <3> QED
      BY <1>3, <1>5, <2>3, <2>4, <3>2, <3>4, <3>5 DEF c, n, p, choice
  <2>5. CASE ~inside
    <3>1. ~validateExternalCheckerPath(p)
      BY <2>1, <2>3, <2>5 DEF Outside
    <3> QED
      BY <1>3, <2>5, <3>1 DEF c, n, p, choice
  <2> QED
    BY <2>4, <2>5
<1> QED
  BY <1>4, <1>5

\* A request is taken exactly if the interface allows it, and an external
\* checker's path exactly if walking it as it was written stays below the root and
\* ends at a .cpp name (validateJudgeRequest, resolveChecker, filepath.Clean).
THEOREM RequestsAreTakenByTheRules == Spec => []RequestIsTakenByTheRules
<1>1. IntakeInv => ExternalStaysInside
  <2> SUFFICES ASSUME IntakeInv, NEW r \in Requests,
                      form[r].checker.kind = "external" /\ form[r].inline = ""
               PROVE  LET p == form[r].checker.path
                          choice == resolveChecker(form[r])
                          last == {k \in DOMAIN p.elems : p.elems[k] \notin {"", "."}} IN
                      /\ choice.kind = "external" <=>
                           /\ ~p.rooted /\ last # {}
                           /\ \A k \in 0..Len(p.elems) : Depth(p)[k] >= 0
                           /\ Depth(p)[Len(p.elems)] > 0 /\ EndsInCpp(Cleaned(p))
                      /\ choice.kind = "external"
                           => ValidPath([elems |-> choice.path, rooted |-> FALSE])
    BY DEF ExternalStaysInside
  <2>1. form[r] \in JudgeRequests
    BY IntakeAssumption DEF IntakeInv, IntakeTypes
  <2> DEFINE f == form[r]
  <2> HIDE DEF f
  <2> QED
    BY <2>1, ExternalPathIsWalked DEF f
<1>2. Spec => []ExternalStaysInside
  BY <1>1, IntakeInvariance, PTL
<1> QED
  BY <1>2, RejectionsAreDeserved, PTL DEF RequestIsTakenByTheRules

-----------------------------------------------------------------------------
(* HttpServer.  RunEndsCleanly rests on what Shutdown waits for: once the      *)
(* accepting loop has left and every connection is closed, no connection can   *)
(* come back (ShutdownOK).  RequestsAreServed is a balance kept by each        *)
(* connection: it owes one answer exactly while a handler has its request      *)
(* (ConnOK).                                                                   *)
Handling == {"reading", "judging", "writing"}

ShutdownOK ==
  /\ inShutdown <=> run # "select"
  /\ run \in {"waitServe", "returned"} =>
       serve # "serving" /\ \A c \in Conns : conn[c] \in {"none", "closed"}
  /\ run = "returned" => serve = "done" /\ (runErr <=> (serveErr \/ shutdownErr))

ConnOK ==
  \A c \in Conns :
    /\ requests[c] = answered[c] + IF conn[c] \in Handling THEN 1 ELSE 0
    /\ judged[c] = "begun" <=> conn[c] = "judging"
    /\ judged[c] # "cancelled"
    /\ conn[c] # "writing" => status[c] = 0
    /\ status[c] = 200 => judged[c] = "finished"

HttpInv == TypeOK /\ ShutdownOK /\ ConnOK

USE HttpAssumption

\* The invariant holds before the server starts.
LEMMA HttpInitOK == HttpInit => HttpInv
<1> SUFFICES ASSUME HttpInit PROVE HttpInv
  OBVIOUS
<1>1. TypeOK
  <2>1. {signalled, serveErr, shutdownErr, runErr, inShutdown} \subseteq BOOLEAN
    BY Zenon DEF HttpInit
  <2>2. {requests, answered} \subseteq [Conns -> 0..MaxRequests]
    BY DEF HttpInit
  <2> QED
    BY <2>1, <2>2 DEF HttpInit, TypeOK
<1>2. ShutdownOK /\ ConnOK
  BY DEF HttpInit, ShutdownOK, ConnOK, Handling
<1> QED
  BY <1>1, <1>2 DEF HttpInv

\* The goroutine that serves, the signal, and Run up to Shutdown's return.
LEMMA RunStepsKeepInv ==
  ASSUME HttpInv,
         \/ ServeAdvances \/ ServeFails \/ ServeReturns \/ Signal
         \/ Stop \/ ShutdownReturns \/ RunReturns
  PROVE  HttpInv'
<1>1. UNCHANGED connVars
  BY DEF ServeAdvances, ServeFails, ServeReturns, ServeGoto, Signal, Stop, ShutdownReturns, RunReturns
<1>2. TypeOK'
  <2>1. {signalled', serveErr', shutdownErr', runErr', inShutdown'} \subseteq BOOLEAN
    <3>1. /\ signalled \in BOOLEAN /\ serveErr \in BOOLEAN /\ shutdownErr \in BOOLEAN
          /\ runErr \in BOOLEAN /\ inShutdown \in BOOLEAN
      BY DEF HttpInv, TypeOK
    <3>2. /\ signalled' \in BOOLEAN /\ serveErr' \in BOOLEAN /\ shutdownErr' \in BOOLEAN
          /\ runErr' \in BOOLEAN /\ inShutdown' \in BOOLEAN
      BY <3>1 DEF ServeAdvances, ServeFails, ServeReturns, ServeGoto, Signal, Stop, Listening,
                  ShutdownReturns, RunReturns
    <3> QED
      BY <3>2, Zenon
  <2>2. /\ run' \in {"select", "shutdown", "waitServe", "returned"}
        /\ serve' \in {"starting", "unbound", "bound", "serving", "failed", "done"}
    BY DEF HttpInv, TypeOK, ServeAdvances, ServeFails, ServeReturns, ServeGoto, Signal, Stop,
           ShutdownReturns, RunReturns
  <2> QED
    BY <1>1, <2>1, <2>2 DEF HttpInv, TypeOK, connVars
<1>3. ShutdownOK'
  <2>1. conn' = conn
    BY <1>1 DEF connVars
  <2>2. CASE ServeAdvances \/ ServeFails \/ ServeReturns
    BY <2>1, <2>2 DEF HttpInv, ShutdownOK, ServeAdvances, ServeFails, ServeReturns, ServeGoto
  <2>3. CASE Signal
    BY <2>1, <2>3 DEF HttpInv, ShutdownOK, Signal
  <2>4. CASE ShutdownReturns
    BY <2>1, <2>4 DEF HttpInv, ShutdownOK, ShutdownReturns, ListenersGone
  <2>5. CASE RunReturns
    BY <2>1, <2>5 DEF HttpInv, ShutdownOK, RunReturns, ServeIsDone
  <2>6. CASE Stop
    BY <2>6 DEF ShutdownOK, Stop
  <2> QED
    BY <2>2, <2>3, <2>4, <2>5, <2>6
<1>4. ConnOK'
  BY <1>1 DEF HttpInv, ConnOK, connVars
<1> QED
  BY <1>2, <1>3, <1>4 DEF HttpInv

\* A connection comes, rests, loses its client, or is closed.
LEMMA ClientStepsKeepInv ==
  ASSUME HttpInv, NEW c \in Conns,
         \/ CloseIdle(c) \/ Accept(c) \/ IdleTimesOut(c) \/ ClientStalls(c) \/ ClientLeaves(c)
  PROVE  HttpInv'
<1> USE DEF HttpInv, CloseIdle, MayClose, Accept, IdleTimesOut, ClientStalls, ClientLeaves,
            ConnGoto, runVars
<1>1. TypeOK'
  BY DEF TypeOK
<1>2. ShutdownOK'
  BY DEF TypeOK, ShutdownOK
<1>3. ConnOK'
  BY DEF TypeOK, ConnOK, Handling
<1> QED
  BY <1>1, <1>2, <1>3

\* A request arrives and handleExecute takes it to its answer.
LEMMA HandlerStepsKeepInv ==
  ASSUME HttpInv, NEW c \in Conns,
         Handler(c) \/ \E b \in Bodies : RequestArrives(c, b)
  PROVE  HttpInv'
<1> USE DEF HttpInv, Handler, RequestArrives, ReadBody, ReadFails, JudgeReturns, Written,
            Respond, JudgeStatus, Outcome, ConnGoto, runVars
<1>1. ConnOK'
  BY DEF TypeOK, ConnOK, Handling
<1>2. TypeOK'
  BY DEF TypeOK, ConnOK, Handling
<1>3. ShutdownOK'
  BY DEF TypeOK, ShutdownOK
<1> QED
  BY <1>1, <1>2, <1>3

\* Every step of Run, of a connection and of the environment keeps it.
LEMMA HttpStepOK == HttpInv /\ [HttpNext]_httpVars => HttpInv'
<1> SUFFICES ASSUME HttpInv, [HttpNext]_httpVars PROVE HttpInv'
  OBVIOUS
<1>1. CASE UNCHANGED httpVars
  BY <1>1 DEF httpVars, runVars, connVars, HttpInv, TypeOK, ShutdownOK, ConnOK
<1>2. CASE HttpNext
  BY <1>1, <1>2, RunStepsKeepInv, ClientStepsKeepInv, HandlerStepsKeepInv
     DEF HttpNext, Runner, Client, HttpTerminated
<1> QED
  BY <1>1, <1>2

\* So it holds throughout.
LEMMA HttpInvariance == HttpSpec => []HttpInv
BY HttpInitOK, HttpStepOK, PTL DEF HttpSpec

\* The server's state is well typed: no connection is answered more often than
\* requests may arrive on it (Server.Run, handleExecute).
THEOREM HttpTypeCorrect == HttpSpec => []TypeOK
BY HttpInvariance, PTL DEF HttpInv

\* When Run returns no handler runs and no connection is open, and it returns an
\* error exactly if serving failed by itself or Shutdown could not close the
\* listener, for any number of connections (Server.Run joins the two errors).
THEOREM RunsEndCleanly == HttpSpec => []RunEndsCleanly
<1>1. HttpInv => RunEndsCleanly
  BY DEF HttpInv, TypeOK, ShutdownOK, RunEndsCleanly, ReturnedIsQuiet, ErrorIsReported
<1> QED
  BY <1>1, HttpInvariance, PTL

\* A request that was read is judged to its end and answered once
\* (handleExecute judges under context.WithoutCancel).
THEOREM RequestsGetServed == HttpSpec => []RequestsAreServed
<1>1. HttpInv => RequestsAreServed
  BY DEF HttpInv, TypeOK, ConnOK, Handling, RequestsAreServed, JudgingFinishes,
         EveryRequestIsAnswered
<1> QED
  BY <1>1, HttpInvariance, PTL
=============================================================================
