------------------------- MODULE JudgeEngineProofs -------------------------
(***************************************************************************)
(* Proofs about JudgeEngine, for any number of requests, cases, checkers   *)
(* and slots: what a request leaves behind when it is answered, and which  *)
(* status it is answered with.                                             *)
(***************************************************************************)
EXTENDS JudgeEngine, SharedLemmas, TLAPS

-----------------------------------------------------------------------------
\* The inductive invariant.

\* The parts of the types the semaphores' shape does not give.
PlaceTypes ==
    /\ pc \in [Requests -> RequestPlaces]
    /\ cached \subseteq Checkers
    /\ flight \in [Checkers -> Requests \cup {NoOne}]
    /\ casePc \in [CaseProcs -> CasePlaces]
    /\ results \in [CaseProcs -> Verdicts \cup {"none"}]
    /\ executed \subseteq Requests
AnswerTypes ==
    /\ answer \in [Requests -> Statuses \cup {"none", "rejected"}]
    /\ blame \in [Requests -> SUBSET Causes]

\* A request is with the judge semaphore from Acquire to its return, and holds
\* its slot once Acquire has returned.
JudgesOK ==
    /\ SemOK(judges, Requests, MaxJudges)
    /\ \A r \in Requests :
        /\ r \in Members(judges) <=> pc[r] \notin {"new", "answered"}
        /\ pc[r] \notin {"new", "queued", "answered"} => r \in judges.held

\* A goroutine is with the container semaphore exactly while it executes.
SlotsOK ==
    /\ SemOK(slots, Procs, MaxConcurrent)
    /\ \A r \in Requests :
        <<r>> \in Members(slots) <=> pc[r] \in {"compiling", "checkerCompiling"}
    /\ \A p \in CaseProcs :
        p \in Members(slots) <=> casePc[p] \in {"running", "checking"}

\* The group's map names the leaders, and who waits has one.
LeadPlaces == {"checkerCompile", "checkerCompiling"}
FlightOK ==
    /\ \A r \in Requests : pc[r] \in LeadPlaces => flight[CheckerOf[r]] = r
    /\ \A s \in Checkers : flight[s] # NoOne =>
          pc[flight[s]] \in LeadPlaces /\ CheckerOf[flight[s]] = s
    /\ \A r \in Requests : pc[r] = "flight" => flight[CheckerOf[r]] # NoOne

\* Case goroutines exist from "cases" on, and Judge waits for all of them.
CaseOK ==
    \A p \in CaseProcs :
        /\ pc[p[1]] = "cases" => casePc[p] # "unborn"
        /\ pc[p[1]] \notin {"cases", "answered"} => casePc[p] = "unborn"
        /\ pc[p[1]] = "answered" => casePc[p] \in {"unborn", "done"}
        /\ results[p] # "none" <=> casePc[p] = "done"

\* The failures a request has met are in the results of its cases.
EngineCauses == {"infrastructure", "systemChecker"}
BlameOK ==
    \A r \in Requests :
        /\ pc[r] \notin {"cases", "answered"} => blame[r] = {}
        /\ pc[r] = "cases" =>
            /\ blame[r] \cap {"userCheckerSource", "program"} = {}
            /\ (\E p \in CaseProcs : p[1] = r /\ results[p] = "UKE")
                  <=> (\E x \in EngineCauses : x \in blame[r])
            /\ (\E p \in CaseProcs : p[1] = r /\ results[p] = "CEE")
                  <=> "userChecker" \in blame[r]

\* What has been answered was owed, and only an unexecuted request is rejected.
AnswerOK ==
    \A r \in Requests :
        /\ answer[r] = "none" <=> pc[r] # "answered"
        /\ pc[r] \in {"new", "queued", "materialize", "compile"} => r \notin executed
        /\ answer[r] = "rejected" => r \notin executed
        /\ answer[r] \notin {"none", "rejected"} => answer[r] = OwedStatus(r)

JudgeInv ==
    /\ PlaceTypes /\ AnswerTypes /\ JudgesOK /\ SlotsOK
    /\ FlightOK /\ CaseOK /\ BlameOK /\ AnswerOK

-----------------------------------------------------------------------------
\* Goroutines and semaphores.

\* The goroutines of requests and of cases are told apart.
LEMMA ProcFacts ==
    /\ \A r \in Requests : <<r>> \in Procs /\ <<r>> \notin CaseProcs
    /\ \A r, q : <<r>> = <<q>> <=> r = q
    /\ \A p \in CaseProcs : p \in Procs /\ p[1] \in Requests
    /\ \A p \in CaseProcs : \E i \in CasesOf[p[1]] : p = <<p[1], i>>
    /\ \A r \in Requests : \A i \in CasesOf[r] : <<r, i>> \in CaseProcs /\ <<r, i>>[1] = r
<1>1. \A p : p \in CaseProcs <=> \E r \in Requests : \E i \in CasesOf[r] : p = <<r, i>>
  BY DEF CaseProcs
<1>2. \A r, q, i : <<r>> # <<q, i>>
  OBVIOUS
<1>3. \A r, i : <<r, i>>[1] = r
  OBVIOUS
<1>4. \A r, q : <<r>> = <<q>> <=> r = q
  OBVIOUS
<1>5. \A r \in Requests : <<r>> \in Procs /\ <<r>> \notin CaseProcs
  BY <1>1, <1>2 DEF Procs
<1>6. \A p \in CaseProcs : p \in Procs /\ p[1] \in Requests
  BY <1>1, <1>3 DEF Procs
<1>7. \A p \in CaseProcs : \E i \in CasesOf[p[1]] : p = <<p[1], i>>
  BY <1>1, <1>3
<1>8. \A r \in Requests : \A i \in CasesOf[r] : <<r, i>> \in CaseProcs /\ <<r, i>>[1] = r
  BY <1>1, <1>3
<1> QED
  BY <1>4, <1>5, <1>6, <1>7, <1>8

\* An execution begins: it has a slot or a place in the queue.
LEMMA SlotEnterOK ==
    ASSUME SlotsOK, NEW p \in Procs, p \notin Members(slots), SlotEnter(p)
    PROVE  /\ SemOK(slots', Procs, MaxConcurrent)
           /\ \A x : x \in Members(slots') <=> x \in Members(slots) \/ x = p
<1>1. MaxConcurrent \in Nat
  BY JudgeAssumption
<1>2. SemEntered(slots', slots, p, Procs, MaxConcurrent)
  BY <1>1, EnterOK DEF SlotsOK, SlotEnter
<1> QED
  BY <1>2 DEF SemEntered

\* It ends, or gives up.
LEMMA SlotLeaveOK ==
    ASSUME SlotsOK, NEW p, p \in Members(slots), SlotLeave(p) \/ SlotAbandon(p)
    PROVE  /\ SemOK(slots', Procs, MaxConcurrent)
           /\ \A x : x \in Members(slots') <=> x \in Members(slots) /\ x # p
<1>1. MaxConcurrent \in Nat /\ SemOK(slots, Procs, MaxConcurrent)
  BY JudgeAssumption DEF SlotsOK
<1>2. CASE SlotLeave(p)
  BY <1>1, <1>2, ReleaseOK DEF SlotLeave
<1>3. CASE SlotAbandon(p)
  BY <1>1, <1>3, AbandonOK DEF SlotAbandon
<1> QED
  BY <1>2, <1>3

-----------------------------------------------------------------------------
\* The judge semaphore.

\* Steps that do not touch it.
LEMMA JudgesMove ==
    ASSUME JudgesOK, judges' = judges,
           \A r \in Requests :
              /\ pc'[r] \in {"new", "answered"} <=> pc[r] \in {"new", "answered"}
              /\ pc'[r] \notin {"new", "queued", "answered"} => r \in judges.held
    PROVE  JudgesOK'
BY DEF JudgesOK, SemOK, SemShape, NoIdleToken, Members, Queued

\* The requests of Q return.
LEMMA JudgesReturn ==
    ASSUME JudgesOK, NEW Q, \A q \in Q : q \in judges.held,
           judges' = SemReleaseAll(judges, Q, MaxJudges),
           \A r \in Requests : pc'[r] = IF r \in Q THEN "answered" ELSE pc[r]
    PROVE  JudgesOK'
<1>1. MaxJudges \in Nat /\ SemOK(judges, Requests, MaxJudges)
  BY JudgeAssumption DEF JudgesOK
<1>2. Q \cap Queued(judges) = {}
  BY <1>1 DEF SemOK, SemShape, Queued
<1>3. /\ SemOK(judges', Requests, MaxJudges)
      /\ \A x : x \in Members(judges') <=> x \in Members(judges) /\ x \notin Q
      /\ \A x : x \in judges.held /\ x \notin Q => x \in judges'.held
  BY <1>1, <1>2, ReleaseAllOK
<1>4. \A r \in Requests :
        /\ r \in Members(judges') <=> pc'[r] \notin {"new", "answered"}
        /\ pc'[r] \notin {"new", "queued", "answered"} => r \in judges'.held
  BY <1>3 DEF JudgesOK
<1> QED
  BY <1>3, <1>4 DEF JudgesOK, SemOK, SemShape, NoIdleToken, Members, Queued

\* One request returns.
LEMMA ReturnKeepsJudges ==
    ASSUME PlaceTypes, JudgesOK, NEW r \in Requests, NEW status, Return(r, status),
           pc[r] \notin {"new", "queued", "answered"}
    PROVE  JudgesOK'
<1>1. r \in judges.held /\ pc' = [pc EXCEPT ![r] = "answered"]
  BY DEF JudgesOK, Return, Goto
<1>2. judges' = SemReleaseAll(judges, {r}, MaxJudges)
  BY DEF Return, SemRelease
<1>3. \A q \in Requests : pc'[q] = IF q \in {r} THEN "answered" ELSE pc[q]
  BY <1>1 DEF PlaceTypes
<1>4. \A q \in {r} : q \in judges.held
  BY <1>1
<1> QED
  BY <1>2, <1>3, <1>4, JudgesReturn

\* The requests that share a flight return.
LEMMA FlightKeepsJudges ==
    ASSUME PlaceTypes, JudgesOK, NEW r \in Requests, At(r, "checkerCompiling"),
           NEW status, NEW cause, FlightReturns(r, status, cause)
    PROVE  JudgesOK'
<1>1. judges' = SemReleaseAll(judges, Sharers(r), MaxJudges)
  BY DEF FlightReturns
<1>2. \A q \in Requests : pc'[q] = IF q \in Sharers(r) THEN "answered" ELSE pc[q]
  BY DEF FlightReturns
<1>3. \A q \in Sharers(r) : q \in judges.held
  BY DEF Sharers, At, JudgesOK
<1> QED
  BY <1>1, <1>2, <1>3, JudgesReturn

\* A request comes to the judge semaphore, and leaves it without a slot.
LEMMA QueueKeepsJudges ==
    ASSUME PlaceTypes, JudgesOK, NEW r \in Requests, Judge(r) \/ AdmissionCancelled(r)
    PROVE  JudgesOK'
<1>1. MaxJudges \in Nat /\ SemOK(judges, Requests, MaxJudges)
  BY JudgeAssumption DEF JudgesOK
<1>2. CASE Judge(r) /\ r \in Invalid
  <2>1. judges' = judges /\ pc' = [pc EXCEPT ![r] = "answered"] /\ pc[r] = "new"
    BY <1>2 DEF Judge, At, Goto
  <2> QED
    BY <2>1, JudgesMove DEF PlaceTypes, JudgesOK
<1>3. CASE Judge(r) /\ r \notin Invalid
  <2>1. /\ judges' = IF SemFree(judges, MaxJudges) THEN SemTake(judges, r) ELSE SemQueue(judges, r)
        /\ pc' = [pc EXCEPT ![r] = "queued"] /\ pc[r] = "new"
    BY <1>3 DEF Judge, At, Goto
  <2>2. r \notin Members(judges)
    BY <2>1 DEF JudgesOK
  <2>3. /\ SemOK(judges', Requests, MaxJudges)
        /\ \A x : x \in Members(judges') <=> x \in Members(judges) \/ x = r
        /\ \A x : x \in judges.held => x \in judges'.held
    <3>1. SemEntered(judges', judges, r, Requests, MaxJudges)
      BY <1>1, <2>1, <2>2, EnterOK
    <3> QED
      BY <3>1 DEF SemEntered
  <2>4. \A q \in Requests :
          /\ q \in Members(judges') <=> pc'[q] \notin {"new", "answered"}
          /\ pc'[q] \notin {"new", "queued", "answered"} => q \in judges'.held
    BY <2>1, <2>3 DEF PlaceTypes, JudgesOK
  <2> QED
    BY <2>3, <2>4 DEF JudgesOK, SemOK, SemShape, NoIdleToken, Members, Queued
<1>4. CASE AdmissionCancelled(r)
  <2>1. /\ judges' = SemAbandon(judges, r, MaxJudges)
        /\ pc' = [pc EXCEPT ![r] = "answered"] /\ pc[r] = "queued"
    BY <1>4 DEF AdmissionCancelled, At, Goto
  <2>2. r \in Members(judges)
    BY <2>1 DEF JudgesOK
  <2>3. /\ SemOK(judges', Requests, MaxJudges)
        /\ \A x : x \in Members(judges') <=> x \in Members(judges) /\ x # r
        /\ \A x : x \in judges.held /\ x # r => x \in judges'.held
    BY <1>1, <2>1, <2>2, AbandonOK
  <2>4. \A q \in Requests :
          /\ q \in Members(judges') <=> pc'[q] \notin {"new", "answered"}
          /\ pc'[q] \notin {"new", "queued", "answered"} => q \in judges'.held
    BY <2>1, <2>3 DEF PlaceTypes, JudgesOK
  <2> QED
    BY <2>3, <2>4 DEF JudgesOK, SemOK, SemShape, NoIdleToken, Members, Queued
<1> QED
  BY <1>2, <1>3, <1>4

\* Every step of a request.
LEMMA RequestsKeepJudges ==
    ASSUME PlaceTypes, JudgesOK, NEW r \in Requests, RequestStep(r) \/ GivesUp(r)
    PROVE  JudgesOK'
<1>1. CASE /\ judges' = judges
           /\ \E there \in {"materialize", "compile", "compiling", "checker", "flight",
                            "checkerCompile", "checkerCompiling", "cases"} : Goto(r, there)
           /\ pc[r] = "queued" => r \in judges.held
           /\ pc[r] \notin {"new", "answered"}
  <2>1. \A q \in Requests :
          /\ pc'[q] \in {"new", "answered"} <=> pc[q] \in {"new", "answered"}
          /\ pc'[q] \notin {"new", "queued", "answered"} => q \in judges.held
    BY <1>1 DEF PlaceTypes, JudgesOK, Goto
  <2> QED
    BY <1>1, <2>1, JudgesMove
<1>2. CASE Judge(r) \/ AdmissionCancelled(r)
  BY <1>2, QueueKeepsJudges
<1>3. CASE Admitted(r) \/ CompileBegins(r) \/ CheckerDo(r) \/ CheckerCompileBegins(r)
  BY <1>1, <1>3 DEF Admitted, CompileBegins, CheckerDo, CheckerCompileBegins, At
<1>4. CASE Materialize(r)
  BY <1>1, <1>4, ReturnKeepsJudges DEF Materialize, Reject, At
<1>5. CASE CompileEnds(r) \/ CompileCancelled(r)
  BY <1>1, <1>5, ReturnKeepsJudges DEF CompileEnds, CompileCancelled, At
<1>6. CASE JudgeEnds(r)
  BY <1>6, ReturnKeepsJudges DEF JudgeEnds, At
<1>7. CASE CheckerCompileEnds(r) \/ CheckerCompileExpires(r)
  <2>1. At(r, "checkerCompiling")
    BY <1>7 DEF CheckerCompileEnds, CheckerCompileExpires
  <2>2. CASE judges' = judges /\ pc' = [q \in Requests |-> IF q \in Sharers(r) THEN "cases" ELSE pc[q]]
    <3>1. \A q \in Sharers(r) : pc[q] \in {"flight", "checkerCompiling"}
      BY <2>1 DEF Sharers, At
    <3>2. \A q \in Requests :
            /\ pc'[q] \in {"new", "answered"} <=> pc[q] \in {"new", "answered"}
            /\ pc'[q] \notin {"new", "queued", "answered"} => q \in judges.held
      BY <2>2, <3>1 DEF JudgesOK
    <3> QED
      BY <2>2, <3>2, JudgesMove
  <2> QED
    BY <1>7, <2>1, <2>2, FlightKeepsJudges DEF CheckerCompileEnds, CheckerCompileExpires, FlightFails
<1> QED
  BY <1>2, <1>3, <1>4, <1>5, <1>6, <1>7 DEF RequestStep, GivesUp

-----------------------------------------------------------------------------
\* The container semaphore.

Executing == {"compiling", "checkerCompiling"}
CaseExecuting == {"running", "checking"}

\* Starting cases starts no execution.
LEMMA StartCasesIsQuiet ==
    ASSUME PlaceTypes, CaseOK, NEW Q, StartCases(Q),
           \A q \in Q : q \in Requests => pc[q] \notin {"cases", "answered"}
    PROVE  /\ \A p \in CaseProcs : p[1] \in Q => casePc[p] = "unborn" /\ casePc'[p] = "run"
           /\ \A p \in CaseProcs : p[1] \notin Q => casePc'[p] = casePc[p]
           /\ \A p \in CaseProcs : casePc'[p] \in CaseExecuting <=> casePc[p] \in CaseExecuting
           /\ casePc' \in [CaseProcs -> CasePlaces]
<1>1. \A p \in CaseProcs : p[1] \in Q => casePc[p] = "unborn" /\ casePc'[p] = "run"
  BY ProcFacts DEF CaseOK, StartCases
<1>2. \A p \in CaseProcs : p[1] \notin Q => casePc'[p] = casePc[p]
  BY DEF StartCases
<1>3. \A p \in CaseProcs : casePc'[p] \in CaseExecuting <=> casePc[p] \in CaseExecuting
  BY <1>1, <1>2 DEF CaseExecuting
<1>4. casePc' \in [CaseProcs -> CasePlaces]
  BY DEF StartCases, PlaceTypes, CasePlaces
<1> QED
  BY <1>1, <1>2, <1>3, <1>4

\* What a step must do to the places when it leaves the semaphore alone,
LEMMA SlotsMove ==
    ASSUME SlotsOK, slots' = slots,
           \A r \in Requests : pc'[r] \in Executing <=> pc[r] \in Executing,
           \A p \in CaseProcs : casePc'[p] \in CaseExecuting <=> casePc[p] \in CaseExecuting
    PROVE  SlotsOK'
<1>1. SemOK(slots', Procs, MaxConcurrent)
  BY DEF SlotsOK
<1>2. \A r \in Requests : <<r>> \in Members(slots') <=> pc'[r] \in {"compiling", "checkerCompiling"}
  BY DEF SlotsOK, Executing
<1>3. \A p \in CaseProcs : p \in Members(slots') <=> casePc'[p] \in {"running", "checking"}
  BY DEF SlotsOK, CaseExecuting
<1> QED
  BY <1>1, <1>2, <1>3 DEF SlotsOK, SemOK, SemShape, NoIdleToken, Members, Queued

\* ... when an execution begins,
LEMMA SlotsBegin ==
    ASSUME SlotsOK, NEW x \in Procs, SlotEnter(x),
           \A r \in Requests : (pc'[r] \in Executing <=> pc[r] \in Executing \/ x = <<r>>)
                               /\ (x = <<r>> => pc[r] \notin Executing),
           \A p \in CaseProcs :
              (casePc'[p] \in CaseExecuting <=> casePc[p] \in CaseExecuting \/ x = p)
              /\ (x = p => casePc[p] \notin CaseExecuting)
    PROVE  SlotsOK'
<1>1. x \notin Members(slots)
  <2>1. CASE x \in CaseProcs
    BY <2>1 DEF SlotsOK, CaseExecuting
  <2>2. CASE \E r \in Requests : x = <<r>>
    BY <2>2 DEF SlotsOK, Executing
  <2> QED
    BY <2>1, <2>2 DEF Procs
<1>2. /\ SemOK(slots', Procs, MaxConcurrent)
      /\ \A y : y \in Members(slots') <=> y \in Members(slots) \/ y = x
  BY <1>1, SlotEnterOK
<1>3. \A r \in Requests : <<r>> \in Members(slots') <=> pc'[r] \in {"compiling", "checkerCompiling"}
  BY <1>2 DEF SlotsOK, Executing
<1>4. \A p \in CaseProcs : p \in Members(slots') <=> casePc'[p] \in {"running", "checking"}
  BY <1>2 DEF SlotsOK, CaseExecuting
<1> QED
  BY <1>2, <1>3, <1>4 DEF SlotsOK, SemOK, SemShape, NoIdleToken, Members, Queued

\* ... and when one ends.
LEMMA SlotsEnd ==
    ASSUME SlotsOK, NEW x, SlotLeave(x) \/ SlotAbandon(x),
           \/ \E r \in Requests : x = <<r>> /\ pc[r] \in Executing
           \/ x \in CaseProcs /\ casePc[x] \in CaseExecuting,
           \A r \in Requests : pc'[r] \in Executing <=> pc[r] \in Executing /\ x # <<r>>,
           \A p \in CaseProcs :
              casePc'[p] \in CaseExecuting <=> casePc[p] \in CaseExecuting /\ x # p
    PROVE  SlotsOK'
<1>1. x \in Members(slots)
  BY DEF SlotsOK, Executing, CaseExecuting
<1>2. /\ SemOK(slots', Procs, MaxConcurrent)
      /\ \A y : y \in Members(slots') <=> y \in Members(slots) /\ y # x
  BY <1>1, SlotLeaveOK
<1>3. \A r \in Requests : <<r>> \in Members(slots') <=> pc'[r] \in {"compiling", "checkerCompiling"}
  BY <1>2 DEF SlotsOK, Executing
<1>4. \A p \in CaseProcs : p \in Members(slots') <=> casePc'[p] \in {"running", "checking"}
  BY <1>2 DEF SlotsOK, CaseExecuting
<1> QED
  BY <1>2, <1>3, <1>4 DEF SlotsOK, SemOK, SemShape, NoIdleToken, Members, Queued

\* Every step of a request,
LEMMA RequestsKeepSlots ==
    ASSUME PlaceTypes, SlotsOK, CaseOK, NEW r \in Requests, RequestStep(r) \/ GivesUp(r)
    PROVE  SlotsOK'
<1>0. pc \in [Requests -> RequestPlaces] /\ \A q : <<q>> = <<r>> <=> q = r
  BY ProcFacts DEF PlaceTypes
<1>1. CASE Judge(r) \/ Admitted(r) \/ Materialize(r) \/ JudgeEnds(r) \/ AdmissionCancelled(r)
  <2>1. /\ slots' = slots /\ casePc' = casePc /\ pc[r] \notin Executing
        /\ \E there \in {"answered", "queued", "materialize", "compile"} :
              pc' = [pc EXCEPT ![r] = there]
    BY <1>1 DEF Judge, Admitted, Materialize, JudgeEnds, AdmissionCancelled, Reject, Return,
                Goto, At, Executing
  <2> QED
    BY <1>0, <2>1, SlotsMove DEF Executing
<1>2. CASE CheckerDo(r)
  <2>1. /\ slots' = slots /\ pc[r] = "checker"
        /\ casePc' = casePc \/ StartCases({r})
        /\ \E there \in {"cases", "flight", "checkerCompile"} : pc' = [pc EXCEPT ![r] = there]
    BY <1>2 DEF CheckerDo, Goto, At
  <2>2. \A p \in CaseProcs : casePc'[p] \in CaseExecuting <=> casePc[p] \in CaseExecuting
    <3>1. \A q \in {r} : pc[q] \notin {"cases", "answered"}
      BY <2>1
    <3> QED
      BY <2>1, <3>1, StartCasesIsQuiet
  <2>3. \A q \in Requests : pc'[q] \in Executing <=> pc[q] \in Executing
    BY <1>0, <2>1 DEF Executing
  <2> QED
    BY <2>1, <2>2, <2>3, SlotsMove
<1>3. CASE CompileBegins(r) \/ CheckerCompileBegins(r)
  <2>1. /\ SlotEnter(<<r>>) /\ casePc' = casePc /\ pc[r] \notin Executing
        /\ \E there \in Executing : pc' = [pc EXCEPT ![r] = there]
    BY <1>3 DEF CompileBegins, CheckerCompileBegins, Goto, At, Executing
  <2>2. <<r>> \in Procs /\ \A p \in CaseProcs : p # <<r>>
    BY ProcFacts
  <2>3. \A q \in Requests : (pc'[q] \in Executing <=> pc[q] \in Executing \/ <<r>> = <<q>>)
                            /\ (<<r>> = <<q>> => pc[q] \notin Executing)
    BY <1>0, <2>1
  <2> QED
    BY <2>1, <2>2, <2>3, SlotsBegin
<1>4. CASE CompileEnds(r) \/ CompileCancelled(r)
  <2>1. /\ SlotLeave(<<r>>) \/ SlotAbandon(<<r>>)
        /\ casePc' = casePc /\ pc[r] \in Executing
        /\ \E there \in {"answered", "checker"} : pc' = [pc EXCEPT ![r] = there]
    BY <1>4 DEF CompileEnds, CompileCancelled, Return, Goto, At, Executing
  <2>2. \A p \in CaseProcs : p # <<r>>
    BY ProcFacts
  <2>3. \A q \in Requests : pc'[q] \in Executing <=> pc[q] \in Executing /\ <<r>> # <<q>>
    BY <1>0, <2>1 DEF Executing
  <2> QED
    BY <2>1, <2>2, <2>3, SlotsEnd
<1>5. CASE CheckerCompileEnds(r) \/ CheckerCompileExpires(r)
  <2>1. /\ SlotLeave(<<r>>) \/ SlotAbandon(<<r>>)
        /\ casePc' = casePc \/ StartCases(Sharers(r))
        /\ pc[r] = "checkerCompiling"
        /\ \E there \in {"answered", "cases"} :
              pc' = [q \in Requests |-> IF q \in Sharers(r) THEN there ELSE pc[q]]
    BY <1>5 DEF CheckerCompileEnds, CheckerCompileExpires, FlightFails, FlightReturns, At
  <2>2. r \in Sharers(r) /\ \A q \in Sharers(r) : q = r \/ pc[q] = "flight"
    BY DEF Sharers, At
  <2>3. \A p \in CaseProcs : p # <<r>>
    BY ProcFacts
  <2>4. \A q \in Requests : pc'[q] \in Executing <=> pc[q] \in Executing /\ <<r>> # <<q>>
    BY <1>0, <2>1, <2>2 DEF Executing
  <2>5. \A p \in CaseProcs : casePc'[p] \in CaseExecuting <=> casePc[p] \in CaseExecuting
    <3>1. \A q \in Sharers(r) : pc[q] \notin {"cases", "answered"}
      BY <2>1, <2>2
    <3> QED
      BY <2>1, <3>1, StartCasesIsQuiet
  <2>6. pc[r] \in Executing
    BY <2>1 DEF Executing
  <2> QED
    BY <2>1, <2>3, <2>4, <2>5, <2>6, SlotsEnd
<1> QED
  BY <1>1, <1>2, <1>3, <1>4, <1>5 DEF RequestStep, GivesUp

\* ... and of a case.
LEMMA CasesKeepSlots ==
    ASSUME PlaceTypes, SlotsOK, NEW p \in CaseProcs, CaseStep(p) \/ CaseCancelled(p)
    PROVE  SlotsOK'
<1>0. casePc \in [CaseProcs -> CasePlaces] /\ p \in Procs /\ \A q \in Requests : p # <<q>>
  BY ProcFacts DEF PlaceTypes
<1>1. CASE RunBegins(p) \/ CheckBegins(p)
  <2>1. /\ SlotEnter(p) /\ pc' = pc /\ casePc[p] \notin CaseExecuting
        /\ \E there \in CaseExecuting : casePc' = [casePc EXCEPT ![p] = there]
    BY <1>1 DEF RunBegins, CheckBegins, CaseGoto, CaseExecuting
  <2>2. \A q \in CaseProcs :
           (casePc'[q] \in CaseExecuting <=> casePc[q] \in CaseExecuting \/ p = q)
           /\ (p = q => casePc[q] \notin CaseExecuting)
    BY <1>0, <2>1
  <2> QED
    BY <1>0, <2>1, <2>2, SlotsBegin
<1>2. CASE RunEnds(p) \/ CheckEnds(p) \/ CaseCancelled(p)
  <2>1. /\ SlotLeave(p) \/ SlotAbandon(p)
        /\ pc' = pc /\ casePc[p] \in CaseExecuting
        /\ \E there \in {"done", "check"} : casePc' = [casePc EXCEPT ![p] = there]
    BY <1>2 DEF RunEnds, CheckEnds, CaseCancelled, CaseDone, CaseGoto, CaseExecuting
  <2>2. \A q \in CaseProcs : casePc'[q] \in CaseExecuting <=> casePc[q] \in CaseExecuting /\ p # q
    BY <1>0, <2>1 DEF CaseExecuting
  <2> QED
    BY <1>0, <2>1, <2>2, SlotsEnd
<1> QED
  BY <1>1, <1>2 DEF CaseStep

-----------------------------------------------------------------------------
\* The flights.

\* A step that keeps the leaders and lets nobody else wait.
LEMMA FlightMove ==
    ASSUME PlaceTypes, FlightOK, flight' = flight,
           \A r \in Requests : pc'[r] \in LeadPlaces <=> pc[r] \in LeadPlaces,
           \A r \in Requests : pc'[r] = "flight" => pc[r] = "flight" \/ flight[CheckerOf[r]] # NoOne
    PROVE  FlightOK'
<1>1. \A r \in Requests : pc'[r] \in LeadPlaces => flight'[CheckerOf[r]] = r
  BY DEF FlightOK
<1>2. \A s \in Checkers : flight'[s] # NoOne =>
         pc'[flight'[s]] \in LeadPlaces /\ CheckerOf[flight'[s]] = s
  BY DEF FlightOK, PlaceTypes
<1>3. \A r \in Requests : pc'[r] = "flight" => flight'[CheckerOf[r]] # NoOne
  BY DEF FlightOK
<1> QED
  BY <1>1, <1>2, <1>3 DEF FlightOK

\* A request leads a new compilation.
LEMMA FlightBegins ==
    ASSUME PlaceTypes, FlightOK, NEW r \in Requests, pc[r] = "checker",
           flight[CheckerOf[r]] = NoOne,
           flight' = [flight EXCEPT ![CheckerOf[r]] = r],
           pc' = [pc EXCEPT ![r] = "checkerCompile"]
    PROVE  FlightOK'
<1>0. \A q \in Requests : CheckerOf[q] \in Checkers /\ q # NoOne
  BY JudgeAssumption
<1>1. \A q \in Requests : pc'[q] \in LeadPlaces => flight'[CheckerOf[q]] = q
  BY <1>0 DEF FlightOK, PlaceTypes, LeadPlaces
<1>2. \A s \in Checkers : flight'[s] # NoOne =>
         pc'[flight'[s]] \in LeadPlaces /\ CheckerOf[flight'[s]] = s
  BY <1>0 DEF FlightOK, PlaceTypes, LeadPlaces
<1>3. \A q \in Requests : pc'[q] = "flight" => flight'[CheckerOf[q]] # NoOne
  BY <1>0 DEF FlightOK, PlaceTypes
<1> QED
  BY <1>1, <1>2, <1>3 DEF FlightOK

\* A compilation is over, and with it the wait of all who share it.
LEMMA FlightEnds ==
    ASSUME PlaceTypes, FlightOK, NEW r \in Requests, pc[r] = "checkerCompiling",
           flight' = [flight EXCEPT ![CheckerOf[r]] = NoOne],
           NEW there \in {"answered", "cases"},
           pc' = [q \in Requests |-> IF q \in Sharers(r) THEN there ELSE pc[q]]
    PROVE  FlightOK'
<1>0. \A q \in Requests : CheckerOf[q] \in Checkers /\ q # NoOne
  BY JudgeAssumption
<1>1. /\ \A q \in Requests :
           q \in Sharers(r) <=> q = r \/ (pc[q] = "flight" /\ CheckerOf[q] = CheckerOf[r])
      /\ flight[CheckerOf[r]] = r
  BY DEF Sharers, At, FlightOK, LeadPlaces
<1>2. \A q \in Requests : pc'[q] \in LeadPlaces =>
         /\ pc[q] \in LeadPlaces /\ CheckerOf[q] # CheckerOf[r]
         /\ flight'[CheckerOf[q]] = q
  BY <1>0, <1>1 DEF FlightOK, PlaceTypes, LeadPlaces
<1>3. ASSUME NEW s \in Checkers, flight'[s] # NoOne
      PROVE  pc'[flight'[s]] \in LeadPlaces /\ CheckerOf[flight'[s]] = s
  <2>1. s # CheckerOf[r] /\ flight'[s] = flight[s] /\ flight[s] \in Requests
    BY <1>0, <1>3 DEF PlaceTypes
  <2>2. pc[flight[s]] \in LeadPlaces /\ CheckerOf[flight[s]] = s
    BY <1>3, <2>1 DEF FlightOK
  <2>3. flight[s] \notin Sharers(r)
    BY <1>1, <2>1, <2>2
  <2> QED
    BY <2>1, <2>2, <2>3
<1>4. \A q \in Requests : pc'[q] = "flight" => flight'[CheckerOf[q]] # NoOne
  BY <1>0, <1>1 DEF FlightOK, PlaceTypes
<1> QED
  BY <1>2, <1>3, <1>4 DEF FlightOK

\* Every step of a request.
LEMMA RequestsKeepFlights ==
    ASSUME PlaceTypes, FlightOK, NEW r \in Requests, RequestStep(r) \/ GivesUp(r)
    PROVE  FlightOK'
<1>0. pc \in [Requests -> RequestPlaces]
  BY DEF PlaceTypes
<1>1. CASE \/ Judge(r) \/ Admitted(r) \/ Materialize(r) \/ JudgeEnds(r) \/ AdmissionCancelled(r)
           \/ CompileBegins(r) \/ CompileEnds(r) \/ CompileCancelled(r)
  <2>1. /\ flight' = flight /\ pc[r] \notin LeadPlaces
        /\ \E there \in {"answered", "queued", "materialize", "compile", "compiling", "checker"} :
              pc' = [pc EXCEPT ![r] = there]
    BY <1>1 DEF Judge, Admitted, Materialize, JudgeEnds, AdmissionCancelled, Reject, Return,
                CompileBegins, CompileEnds, CompileCancelled, Goto, At, LeadPlaces
  <2> QED
    BY <1>0, <2>1, FlightMove DEF LeadPlaces
<1>2. CASE CheckerDo(r)
  <2>1. \/ /\ flight' = flight
           /\ \/ pc' = [pc EXCEPT ![r] = "cases"]
              \/ pc' = [pc EXCEPT ![r] = "flight"] /\ flight[CheckerOf[r]] # NoOne
        \/ /\ flight[CheckerOf[r]] = NoOne
           /\ flight' = [flight EXCEPT ![CheckerOf[r]] = r]
           /\ pc' = [pc EXCEPT ![r] = "checkerCompile"]
    BY <1>2 DEF CheckerDo, Goto
  <2>2. pc[r] = "checker"
    BY <1>2 DEF CheckerDo, At
  <2>3. CASE /\ flight' = flight
             /\ \/ pc' = [pc EXCEPT ![r] = "cases"]
                \/ pc' = [pc EXCEPT ![r] = "flight"] /\ flight[CheckerOf[r]] # NoOne
    <3>1. /\ \A q \in Requests : pc'[q] \in LeadPlaces <=> pc[q] \in LeadPlaces
          /\ \A q \in Requests : pc'[q] = "flight" => pc[q] = "flight" \/ flight[CheckerOf[q]] # NoOne
      BY <1>0, <2>2, <2>3 DEF LeadPlaces
    <3> QED
      BY <2>3, <3>1, FlightMove
  <2> QED
    BY <2>1, <2>2, <2>3, FlightBegins
<1>3. CASE CheckerCompileBegins(r)
  <2>1. /\ flight' = flight /\ pc[r] = "checkerCompile"
        /\ pc' = [pc EXCEPT ![r] = "checkerCompiling"]
    BY <1>3 DEF CheckerCompileBegins, Goto, At
  <2> QED
    BY <1>0, <2>1, FlightMove DEF LeadPlaces
<1>4. CASE CheckerCompileEnds(r) \/ CheckerCompileExpires(r)
  <2>1. /\ pc[r] = "checkerCompiling"
        /\ flight' = [flight EXCEPT ![CheckerOf[r]] = NoOne]
        /\ \E there \in {"answered", "cases"} :
              pc' = [q \in Requests |-> IF q \in Sharers(r) THEN there ELSE pc[q]]
    BY <1>4 DEF CheckerCompileEnds, CheckerCompileExpires, FlightFails, FlightReturns, At
  <2> QED
    BY <2>1, FlightEnds
<1> QED
  BY <1>1, <1>2, <1>3, <1>4 DEF RequestStep, GivesUp

-----------------------------------------------------------------------------
\* The case goroutines.

\* Every step of a request,
LEMMA RequestsKeepCases ==
    ASSUME PlaceTypes, CaseOK, NEW r \in Requests, RequestStep(r) \/ GivesUp(r)
    PROVE  CaseOK'
<1>0. pc \in [Requests -> RequestPlaces] /\ \A p \in CaseProcs : p[1] \in Requests
  BY ProcFacts DEF PlaceTypes
<1>1. CASE \/ Judge(r) \/ Admitted(r) \/ Materialize(r) \/ AdmissionCancelled(r)
           \/ CompileBegins(r) \/ CompileEnds(r) \/ CompileCancelled(r) \/ CheckerCompileBegins(r)
  <2>1. /\ casePc' = casePc /\ results' = results /\ pc[r] \notin {"cases", "answered"}
        /\ \E there \in RequestPlaces \ {"cases"} : pc' = [pc EXCEPT ![r] = there]
    BY <1>1 DEF Judge, Admitted, Materialize, AdmissionCancelled, Reject, Return,
                CompileBegins, CompileEnds, CompileCancelled, CheckerCompileBegins, Goto, At,
                RequestPlaces
  <2> QED
    BY <1>0, <2>1 DEF CaseOK
<1>2. CASE JudgeEnds(r)
  <2>1. /\ casePc' = casePc /\ results' = results
        /\ pc[r] = "cases" /\ pc' = [pc EXCEPT ![r] = "answered"]
        /\ \A i \in CasesOf[r] : casePc[<<r, i>>] = "done"
    BY <1>2 DEF JudgeEnds, Return, Goto, At, CasesDone
  <2>2. \A p \in CaseProcs : p[1] = r => casePc[p] = "done"
    BY <2>1, ProcFacts
  <2> QED
    BY <1>0, <2>1, <2>2 DEF CaseOK
<1>3. CASE CheckerDo(r)
  <2>1. /\ results' = results /\ pc[r] = "checker"
        /\ \/ casePc' = casePc /\ \E there \in {"flight", "checkerCompile"} :
                                     pc' = [pc EXCEPT ![r] = there]
           \/ StartCases({r}) /\ pc' = [pc EXCEPT ![r] = "cases"]
    BY <1>3 DEF CheckerDo, Goto, At
  <2>2. StartCases({r}) => \A p \in CaseProcs :
          /\ p[1] = r => casePc[p] = "unborn" /\ casePc'[p] = "run"
          /\ p[1] # r => casePc'[p] = casePc[p]
    <3>1. \A q \in {r} : pc[q] \notin {"cases", "answered"}
      BY <2>1
    <3> QED
      BY <3>1, StartCasesIsQuiet
  <2> QED
    BY <1>0, <2>1, <2>2 DEF CaseOK
<1>4. CASE CheckerCompileEnds(r) \/ CheckerCompileExpires(r)
  <2>1. /\ results' = results /\ pc[r] = "checkerCompiling"
        /\ \/ /\ casePc' = casePc
              /\ pc' = [q \in Requests |-> IF q \in Sharers(r) THEN "answered" ELSE pc[q]]
           \/ /\ StartCases(Sharers(r))
              /\ pc' = [q \in Requests |-> IF q \in Sharers(r) THEN "cases" ELSE pc[q]]
    BY <1>4 DEF CheckerCompileEnds, CheckerCompileExpires, FlightFails, FlightReturns, At
  <2>2. \A q \in Sharers(r) : pc[q] \notin {"cases", "answered"}
    BY <2>1 DEF Sharers, At
  <2>3. StartCases(Sharers(r)) => \A p \in CaseProcs :
          /\ p[1] \in Sharers(r) => casePc[p] = "unborn" /\ casePc'[p] = "run"
          /\ p[1] \notin Sharers(r) => casePc'[p] = casePc[p]
    BY <2>2, StartCasesIsQuiet
  <2> QED
    BY <1>0, <2>1, <2>2, <2>3 DEF CaseOK
<1> QED
  BY <1>1, <1>2, <1>3, <1>4 DEF RequestStep, GivesUp

\* ... and of a case.
LEMMA CasesKeepCases ==
    ASSUME PlaceTypes, CaseOK, NEW p \in CaseProcs, CaseStep(p) \/ CaseCancelled(p)
    PROVE  CaseOK'
<1>1. /\ pc' = pc /\ casePc[p] \in {"run", "running", "check", "checking"}
      /\ \/ /\ results' = results
            /\ \E there \in {"running", "check", "checking"} : casePc' = [casePc EXCEPT ![p] = there]
         \/ /\ \E v \in Verdicts : results' = [results EXCEPT ![p] = v]
            /\ casePc' = [casePc EXCEPT ![p] = "done"]
  <2>1. \A r, run : CheckVerdict(r, CheckOutcome(run)) \in Verdicts
    BY DEF CheckVerdict, CheckOutcome, CheckerFailed, Verdicts
  <2>2. CASE RunBegins(p) \/ CheckBegins(p)
    BY <2>2 DEF RunBegins, CheckBegins, CaseGoto
  <2>3. CASE RunEnds(p)
    BY <2>3 DEF RunEnds, CaseDone, CaseGoto, Verdicts
  <2>4. CASE CheckEnds(p)
    BY <2>1, <2>4 DEF CheckEnds, CaseDone, CaseGoto, Verdicts
  <2>5. CASE CaseCancelled(p)
    BY <2>5 DEF CaseCancelled, CaseDone, CaseGoto, Verdicts
  <2> QED
    BY <2>2, <2>3, <2>4, <2>5 DEF CaseStep
<1>2. "none" \notin Verdicts /\ p[1] \in Requests
  BY ProcFacts DEF Verdicts
<1> QED
  BY <1>1, <1>2 DEF CaseOK, PlaceTypes

-----------------------------------------------------------------------------
\* Blame and answers.

\* Whatever happens outside the cases changes no result.
LEMMA RequestsKeepBlame ==
    ASSUME PlaceTypes, AnswerTypes, CaseOK, BlameOK, NEW r \in Requests,
           RequestStep(r) \/ GivesUp(r)
    PROVE  BlameOK'
<1>0. pc \in [Requests -> RequestPlaces] /\ blame \in [Requests -> SUBSET Causes]
  BY DEF PlaceTypes, AnswerTypes
<1>1. /\ results' = results
      /\ \A q \in Requests :
          \/ pc'[q] = "answered"
          \/ pc'[q] = pc[q] /\ blame'[q] = blame[q]
          \/ /\ pc[q] \notin {"cases", "answered"} /\ blame'[q] = blame[q]
  <2>1. CASE Judge(r) \/ Admitted(r) \/ Materialize(r)
    BY <1>0, <2>1 DEF Judge, Admitted, Materialize, Reject, Return, Goto, At
  <2>2. CASE CompileBegins(r) \/ CompileEnds(r) \/ CompileCancelled(r) \/ AdmissionCancelled(r)
    BY <1>0, <2>2 DEF CompileBegins, CompileEnds, CompileCancelled, AdmissionCancelled,
                      Return, Goto, At, Blame
  <2>3. CASE CheckerDo(r) \/ CheckerCompileBegins(r) \/ JudgeEnds(r)
    BY <1>0, <2>3 DEF CheckerDo, CheckerCompileBegins, JudgeEnds, Return, Goto, At
  <2>4. CASE CheckerCompileEnds(r) \/ CheckerCompileExpires(r)
    BY <1>0, <2>4 DEF CheckerCompileEnds, CheckerCompileExpires, FlightFails, FlightReturns,
                      Sharers, At
  <2> QED
    BY <2>1, <2>2, <2>3, <2>4 DEF RequestStep, GivesUp
<1>2. \A p \in CaseProcs : pc[p[1]] \notin {"cases", "answered"} => results[p] = "none"
  BY DEF CaseOK
<1> SUFFICES ASSUME NEW q \in Requests
             PROVE  /\ pc'[q] \notin {"cases", "answered"} => blame'[q] = {}
                    /\ pc'[q] = "cases" =>
                        /\ blame'[q] \cap {"userCheckerSource", "program"} = {}
                        /\ (\E p \in CaseProcs : p[1] = q /\ results'[p] = "UKE")
                              <=> (\E x \in EngineCauses : x \in blame'[q])
                        /\ (\E p \in CaseProcs : p[1] = q /\ results'[p] = "CEE")
                              <=> "userChecker" \in blame'[q]
  BY DEF BlameOK
<1>3. CASE pc'[q] = "answered"
  BY <1>3
<1>4. CASE pc'[q] = pc[q] /\ blame'[q] = blame[q]
  BY <1>1, <1>4 DEF BlameOK
<1>5. CASE pc[q] \notin {"cases", "answered"} /\ blame'[q] = blame[q]
  <2>1. blame'[q] = {} /\ \A p \in CaseProcs : p[1] = q => results'[p] = "none"
    BY <1>1, <1>2, <1>5 DEF BlameOK
  <2> QED
    BY <2>1
<1> QED
  BY <1>1, <1>3, <1>4, <1>5

\* A case blames whom its verdict says.
LEMMA CasesKeepBlame ==
    ASSUME PlaceTypes, AnswerTypes, CaseOK, BlameOK, NEW p \in CaseProcs,
           CaseStep(p) \/ CaseCancelled(p)
    PROVE  BlameOK'
<1>0. /\ pc \in [Requests -> RequestPlaces] /\ blame \in [Requests -> SUBSET Causes]
      /\ results \in [CaseProcs -> Verdicts \cup {"none"}] /\ p[1] \in Requests
  BY ProcFacts DEF PlaceTypes, AnswerTypes
<1>1. pc' = pc /\ pc[p[1]] = "cases" /\ results[p] = "none"
  BY DEF CaseStep, CaseCancelled, RunBegins, RunEnds, CheckBegins, CheckEnds, CaseOK
<1>2. \/ results' = results /\ blame' = blame
      \/ \E v \in {"bad", "OK", "WA"} : results' = [results EXCEPT ![p] = v] /\ blame' = blame
      \/ \E x \in EngineCauses : /\ results' = [results EXCEPT ![p] = "UKE"]
                                 /\ blame' = [blame EXCEPT ![p[1]] = @ \cup {x}]
      \/ /\ results' = [results EXCEPT ![p] = "CEE"]
         /\ blame' = [blame EXCEPT ![p[1]] = @ \cup {"userChecker"}]
  <2>1. CASE RunBegins(p) \/ CheckBegins(p)
    BY <2>1 DEF RunBegins, CheckBegins
  <2>2. CASE RunEnds(p) \/ CaseCancelled(p)
    BY <2>2 DEF RunEnds, CaseCancelled, CaseDone, Blame, EngineCauses
  <2>3. CASE CheckEnds(p)
    <3>1. CASE CaseDone(p, "UKE") /\ Blame(p[1], "infrastructure")
      BY <3>1 DEF CaseDone, Blame, EngineCauses
    <3>2. ASSUME NEW run \in CheckerRuns,
                 CaseDone(p, CheckVerdict(p[1], CheckOutcome(run))),
                 IF CheckOutcome(run) = "failed"
                 THEN Blame(p[1], IF p[1] \in Inline THEN "userChecker" ELSE "systemChecker")
                 ELSE UNCHANGED blame
          PROVE  <1>2!:
      <4>1. CASE CheckOutcome(run) = "failed"
        <5>1. CheckVerdict(p[1], "failed") = IF p[1] \in Inline THEN "CEE" ELSE "UKE"
          BY DEF CheckVerdict, CheckerFailed
        <5> QED
          BY <3>2, <4>1, <5>1 DEF CaseDone, Blame, EngineCauses
      <4>2. CASE CheckOutcome(run) # "failed"
        <5>1. CheckVerdict(p[1], CheckOutcome(run)) \in {"OK", "WA"}
          BY <4>2 DEF CheckVerdict, CheckOutcome
        <5> QED
          BY <3>2, <4>2, <5>1 DEF CaseDone
      <4> QED
        BY <4>1, <4>2
    <3> QED
      BY <2>3, <3>1, <3>2 DEF CheckEnds
  <2> QED
    BY <2>1, <2>2, <2>3 DEF CaseStep
<1> SUFFICES ASSUME NEW q \in Requests
             PROVE  /\ pc'[q] \notin {"cases", "answered"} => blame'[q] = {}
                    /\ pc'[q] = "cases" =>
                        /\ blame'[q] \cap {"userCheckerSource", "program"} = {}
                        /\ (\E o \in CaseProcs : o[1] = q /\ results'[o] = "UKE")
                              <=> (\E x \in EngineCauses : x \in blame'[q])
                        /\ (\E o \in CaseProcs : o[1] = q /\ results'[o] = "CEE")
                              <=> "userChecker" \in blame'[q]
  BY DEF BlameOK
<1>3. CASE q # p[1]
  <2>1. blame'[q] = blame[q] /\ \A o \in CaseProcs : o[1] = q => results'[o] = results[o]
    BY <1>0, <1>2, <1>3
  <2> QED
    BY <1>1, <2>1 DEF BlameOK
<1>4. CASE q = p[1]
  <2>1. /\ blame[q] \cap {"userCheckerSource", "program"} = {}
        /\ (\E o \in CaseProcs : o[1] = q /\ results[o] = "UKE")
              <=> (\E x \in EngineCauses : x \in blame[q])
        /\ (\E o \in CaseProcs : o[1] = q /\ results[o] = "CEE") <=> "userChecker" \in blame[q]
    BY <1>1, <1>4 DEF BlameOK
  <2>2. CASE results' = results /\ blame' = blame
    BY <1>1, <1>4, <2>1, <2>2
  <2>3. ASSUME NEW v \in {"bad", "OK", "WA"}, results' = [results EXCEPT ![p] = v], blame' = blame
        PROVE  \A o \in CaseProcs : /\ results'[o] = "UKE" <=> results[o] = "UKE"
                                    /\ results'[o] = "CEE" <=> results[o] = "CEE"
    BY <1>0, <1>1, <2>3
  <2>4. ASSUME NEW x \in EngineCauses, results' = [results EXCEPT ![p] = "UKE"],
               blame' = [blame EXCEPT ![p[1]] = @ \cup {x}]
        PROVE  /\ \A o \in CaseProcs : results'[o] = "CEE" <=> results[o] = "CEE"
               /\ results'[p] = "UKE" /\ x \in blame'[q]
               /\ "userChecker" \in blame'[q] <=> "userChecker" \in blame[q]
               /\ blame'[q] \cap {"userCheckerSource", "program"} = {}
    BY <1>0, <1>1, <1>4, <2>1, <2>4 DEF EngineCauses
  <2>5. ASSUME results' = [results EXCEPT ![p] = "CEE"],
               blame' = [blame EXCEPT ![p[1]] = @ \cup {"userChecker"}]
        PROVE  /\ \A o \in CaseProcs : results'[o] = "UKE" <=> results[o] = "UKE"
               /\ results'[p] = "CEE" /\ "userChecker" \in blame'[q]
               /\ \A x \in EngineCauses : x \in blame'[q] <=> x \in blame[q]
               /\ blame'[q] \cap {"userCheckerSource", "program"} = {}
    BY <1>0, <1>1, <1>4, <2>1, <2>5 DEF EngineCauses
  <2> QED
    BY <1>1, <1>2, <1>4, <2>1, <2>2, <2>3, <2>4, <2>5
<1> QED
  BY <1>3, <1>4

\* What a request is owed for a single cause.
OwedFor(x) ==
    IF x \in EngineCauses THEN "SystemError"
    ELSE IF x = "userChecker" THEN "CheckerExecutionError"
    ELSE IF x = "userCheckerSource" THEN "CheckerCompileError"
    ELSE "CompileError"

\* With one cause to blame, OwedStatus is what that cause is owed.
LEMMA OwedForOne ==
    ASSUME NEW r, NEW x \in Causes, blame'[r] = {x}
    PROVE  OwedStatus(r)' = OwedFor(x)
BY DEF OwedStatus, OwedFor, EngineCauses, Causes

\* The status of all cases together is the one their failures are owed.
LEMMA AggregateIsOwed ==
    ASSUME BlameOK, NEW r \in Requests, pc[r] = "cases"
    PROVE  aggregateStatus(r) = OwedStatus(r)
<1>1. ASSUME NEW v
      PROVE  v \in VerdictsOf(r) <=> \E p \in CaseProcs : p[1] = r /\ results[p] = v
  <2>1. ASSUME NEW i \in CasesOf[r], v = results[<<r, i>>]
        PROVE  \E p \in CaseProcs : p[1] = r /\ results[p] = v
    <3>1. <<r, i>> \in CaseProcs /\ <<r, i>>[1] = r
      BY ProcFacts
    <3> QED
      BY <2>1, <3>1
  <2>2. ASSUME NEW p \in CaseProcs, p[1] = r, results[p] = v
        PROVE  \E i \in CasesOf[r] : v = results[<<r, i>>]
    <3>1. PICK i \in CasesOf[p[1]] : p = <<p[1], i>>
      BY ProcFacts
    <3> QED
      BY <2>2, <3>1
  <2> QED
    BY <2>1, <2>2 DEF VerdictsOf
<1>2. /\ "UKE" \in VerdictsOf(r) <=> blame[r] \cap EngineCauses # {}
      /\ "CEE" \in VerdictsOf(r) <=> "userChecker" \in blame[r]
      /\ "userCheckerSource" \notin blame[r] /\ "program" \notin blame[r]
  BY <1>1 DEF BlameOK
<1> QED
  BY <1>2 DEF aggregateStatus, OwedStatus, EngineCauses

\* The answer of request q is still right.
Right(q) ==
    /\ answer[q] = "none" <=> pc[q] # "answered"
    /\ pc[q] \in {"new", "queued", "materialize", "compile"} => q \notin executed
    /\ answer[q] = "rejected" => q \notin executed
    /\ answer[q] \notin {"none", "rejected"} => answer[q] = OwedStatus(q)

\* A request to which nothing happens,
LEMMA OthersStayRight ==
    ASSUME AnswerOK, NEW q \in Requests, pc'[q] = pc[q], answer'[q] = answer[q],
           blame'[q] = blame[q], q \in executed' <=> q \in executed
    PROVE  Right(q)'
BY DEF AnswerOK, Right, OwedStatus

\* ... one that moves on,
LEMMA MoversStayRight ==
    ASSUME AnswerOK, NEW q \in Requests, pc[q] # "answered", pc'[q] # "answered",
           answer'[q] = answer[q],
           pc'[q] \in {"new", "queued", "materialize", "compile"} => q \notin executed'
    PROVE  Right(q)'
BY DEF AnswerOK, Right

\* ... and one that is answered for one cause.
LEMMA AnsweredIsRight ==
    ASSUME NEW q \in Requests, NEW x \in Causes, blame[q] = {}, blame'[q] = blame[q] \cup {x},
           pc'[q] = "answered", answer'[q] = OwedFor(x)
    PROVE  Right(q)'
<1>1. OwedStatus(q)' = OwedFor(x)
  BY OwedForOne
<1> QED
  BY <1>1 DEF Right, OwedFor

\* The first half of a request's way.
LEMMA EarlyStepsAnswerRight ==
    ASSUME PlaceTypes, AnswerTypes, BlameOK, AnswerOK, NEW r \in Requests,
           \/ Judge(r) \/ Admitted(r) \/ AdmissionCancelled(r) \/ Materialize(r)
           \/ CompileBegins(r) \/ CompileEnds(r) \/ CompileCancelled(r)
    PROVE  \A q \in Requests : Right(q)'
<1>0. /\ pc \in [Requests -> RequestPlaces] /\ blame \in [Requests -> SUBSET Causes]
      /\ answer \in [Requests -> Statuses \cup {"none", "rejected"}]
  BY DEF PlaceTypes, AnswerTypes
<1>1. /\ pc[r] \notin {"cases", "answered"}
      /\ \A q \in Requests : q # r =>
           /\ pc'[q] = pc[q] /\ answer'[q] = answer[q] /\ blame'[q] = blame[q]
           /\ q \in executed' <=> q \in executed
  BY <1>0 DEF Judge, Admitted, AdmissionCancelled, Materialize, CompileBegins, CompileEnds,
              CompileCancelled, Reject, Return, Goto, At, Blame
<1>2. blame[r] = {} /\ pc[r] # "answered"
  BY <1>1 DEF BlameOK
<1>3. CASE answer' = answer
  <2>1. /\ pc'[r] # "answered"
        /\ pc'[r] \in {"new", "queued", "materialize", "compile"} => r \notin executed'
    <3>1. pc[r] \in {"new", "queued", "materialize", "compile"} => r \notin executed
      BY DEF AnswerOK
    <3>2. answer[r] = "none"
      BY <1>2 DEF AnswerOK
    <3> QED
      BY <1>0, <1>3, <3>1, <3>2 DEF Judge, Admitted, AdmissionCancelled, Materialize,
          CompileBegins, CompileEnds, CompileCancelled, CompileBroke, Reject, Return, Goto, At
  <2>2. Right(r)'
    BY <1>2, <1>3, <2>1, MoversStayRight
  <2> QED
    BY <1>1, <2>2, OthersStayRight
<1>4. CASE answer' = [answer EXCEPT ![r] = "rejected"]
  <2>1. pc'[r] = "answered" /\ r \notin executed' /\ answer'[r] = "rejected"
    BY <1>0, <1>4 DEF AnswerOK, Judge, Admitted, AdmissionCancelled, Materialize, CompileBegins,
          CompileEnds, CompileCancelled, CompileBroke, Reject, Return, Goto, At
  <2>2. Right(r)'
    BY <2>1 DEF Right
  <2> QED
    BY <1>1, <2>2, OthersStayRight
<1>5. ASSUME NEW x \in Causes, answer' = [answer EXCEPT ![r] = OwedFor(x)], Blame(r, x),
             pc' = [pc EXCEPT ![r] = "answered"]
      PROVE  \A q \in Requests : Right(q)'
  <2>1. blame'[r] = blame[r] \cup {x} /\ pc'[r] = "answered" /\ answer'[r] = OwedFor(x)
    BY <1>0, <1>5 DEF Blame
  <2>2. Right(r)'
    BY <1>2, <2>1, AnsweredIsRight
  <2> QED
    BY <1>1, <2>2, OthersStayRight
<1>6. /\ OwedFor("infrastructure") = "SystemError" /\ OwedFor("program") = "CompileError"
      /\ "infrastructure" \in Causes /\ "program" \in Causes
  BY DEF OwedFor, EngineCauses, Causes
<1>7. CASE Judge(r) \/ Admitted(r) \/ Materialize(r) \/ CompileBegins(r)
  BY <1>3, <1>4, <1>7 DEF Judge, Admitted, Materialize, CompileBegins, Reject, Return
<1>8. CASE AdmissionCancelled(r) \/ CompileCancelled(r)
  BY <1>5, <1>6, <1>8 DEF AdmissionCancelled, CompileCancelled, CompileBroke, Return, Goto
<1>9. CASE CompileEnds(r)
  BY <1>3, <1>5, <1>6, <1>9 DEF CompileEnds, CompileBroke, Return, Goto
<1> QED
  BY <1>7, <1>8, <1>9

\* The second half.
LEMMA LateStepsAnswerRight ==
    ASSUME PlaceTypes, AnswerTypes, BlameOK, AnswerOK, NEW r \in Requests,
           \/ CheckerDo(r) \/ CheckerCompileBegins(r) \/ CheckerCompileEnds(r)
           \/ CheckerCompileExpires(r) \/ JudgeEnds(r)
    PROVE  \A q \in Requests : Right(q)'
<1>0. /\ pc \in [Requests -> RequestPlaces] /\ blame \in [Requests -> SUBSET Causes]
      /\ answer \in [Requests -> Statuses \cup {"none", "rejected"}]
  BY DEF PlaceTypes, AnswerTypes
<1>1. CASE CheckerDo(r) \/ CheckerCompileBegins(r)
  <2>1. /\ answer' = answer /\ blame' = blame /\ executed' = executed /\ pc[r] # "answered"
        /\ \E there \in {"cases", "flight", "checkerCompile", "checkerCompiling"} :
              pc' = [pc EXCEPT ![r] = there]
    BY <1>1 DEF CheckerDo, CheckerCompileBegins, Goto, At
  <2>2. \A q \in Requests : q # r => Right(q)'
    BY <1>0, <2>1, OthersStayRight
  <2>3. Right(r)'
    BY <1>0, <2>1, MoversStayRight
  <2> QED
    BY <2>2, <2>3
<1>2. CASE JudgeEnds(r)
  <2>1. /\ answer' = [answer EXCEPT ![r] = aggregateStatus(r)] /\ blame' = blame
        /\ executed' = executed /\ pc[r] = "cases" /\ pc' = [pc EXCEPT ![r] = "answered"]
    BY <1>2 DEF JudgeEnds, Return, Goto, At
  <2>2. \A q \in Requests : q # r => Right(q)'
    BY <1>0, <2>1, OthersStayRight
  <2>3. aggregateStatus(r) = OwedStatus(r) /\ OwedStatus(r)' = OwedStatus(r)
    BY <2>1, AggregateIsOwed DEF OwedStatus
  <2>4. aggregateStatus(r) \notin {"none", "rejected"}
    BY DEF aggregateStatus
  <2>5. Right(r)'
    BY <1>0, <2>1, <2>3, <2>4 DEF Right
  <2> QED
    BY <2>2, <2>5
<1>3. CASE CheckerCompileEnds(r) \/ CheckerCompileExpires(r)
  <2>1. pc[r] = "checkerCompiling" /\ executed' = executed
    BY <1>3 DEF CheckerCompileEnds, CheckerCompileExpires, At
  <2>2. \A q \in Sharers(r) : q \in Requests /\ pc[q] \in {"checkerCompiling", "flight"}
    BY <2>1 DEF Sharers, At
  <2>3. \A q \in Sharers(r) : blame[q] = {} /\ pc[q] # "answered"
    BY <2>2 DEF BlameOK
  <2>4. CASE /\ answer' = answer /\ blame' = blame
             /\ pc' = [q \in Requests |-> IF q \in Sharers(r) THEN "cases" ELSE pc[q]]
    <3>1. \A q \in Requests : q \notin Sharers(r) => Right(q)'
      BY <2>1, <2>4, OthersStayRight
    <3>2. \A q \in Sharers(r) : Right(q)'
      BY <2>1, <2>2, <2>3, <2>4, MoversStayRight
    <3> QED
      BY <3>1, <3>2
  <2>5. ASSUME NEW status, NEW cause, FlightReturns(r, status, cause),
               \A q \in Requests : cause[q] \in Causes /\ status[q] = OwedFor(cause[q])
        PROVE  \A q \in Requests : Right(q)'
    <3>1. \A q \in Requests : q \notin Sharers(r) => Right(q)'
      BY <2>1, <2>5, OthersStayRight DEF FlightReturns
    <3>2. ASSUME NEW q \in Sharers(r) PROVE Right(q)'
      <4>1. /\ q \in Requests /\ cause[q] \in Causes /\ blame[q] = {}
            /\ blame'[q] = blame[q] \cup {cause[q]}
            /\ pc'[q] = "answered" /\ answer'[q] = OwedFor(cause[q])
        BY <2>2, <2>3, <2>5 DEF FlightReturns
      <4> QED
        BY <4>1, AnsweredIsRight
    <3> QED
      BY <3>1, <3>2
  <2>6. FlightFails(r) => \A q \in Requests : Right(q)'
    <3> DEFINE status == [q \in Requests |-> "SystemError"]
               cause == [q \in Requests |-> "infrastructure"]
    <3>1. \A q \in Requests : cause[q] \in Causes /\ status[q] = OwedFor(cause[q])
      BY DEF Causes, OwedFor, EngineCauses
    <3>2. FlightFails(r) => FlightReturns(r, status, cause)
      BY DEF FlightFails
    <3> HIDE DEF status, cause
    <3> QED
      BY <2>5, <3>1, <3>2
  <2>7. CASE CheckerCompileEnds(r)
    <3> DEFINE status == [q \in Requests |-> CheckerRejected(q, r)]
               cause == [q \in Requests |->
                            IF q \in Inline THEN "userCheckerSource" ELSE "systemChecker"]
    <3>1. \A q \in Requests : cause[q] \in Causes /\ status[q] = OwedFor(cause[q])
      BY DEF Causes, OwedFor, EngineCauses, CheckerRejected
    <3>2. \/ <2>4!1
          \/ FlightReturns(r, status, cause)
          \/ FlightFails(r)
      BY <2>7 DEF CheckerCompileEnds
    <3> HIDE DEF status, cause
    <3> QED
      BY <2>4, <2>5, <2>6, <3>1, <3>2
  <2>8. CASE CheckerCompileExpires(r)
    BY <2>6, <2>8 DEF CheckerCompileExpires
  <2> QED
    BY <1>3, <2>7, <2>8
<1> QED
  BY <1>1, <1>2, <1>3

\* A case changes the blame of its request, which is not answered yet.
LEMMA CasesAnswerRight ==
    ASSUME PlaceTypes, AnswerTypes, CaseOK, AnswerOK, NEW p \in CaseProcs,
           CaseStep(p) \/ CaseCancelled(p)
    PROVE  \A q \in Requests : Right(q)'
<1>1. /\ pc' = pc /\ answer' = answer /\ executed' = executed
      /\ blame' = blame \/ \E x : Blame(p[1], x)
      /\ casePc[p] \notin {"unborn", "done"}
  BY DEF CaseStep, CaseCancelled, RunBegins, RunEnds, CheckBegins, CheckEnds
<1>2. pc[p[1]] = "cases" /\ \A q \in Requests : q # p[1] => blame'[q] = blame[q]
  BY <1>1 DEF CaseOK, AnswerTypes, Blame
<1>3. \A q \in Requests : q # p[1] => Right(q)'
  BY <1>1, <1>2, OthersStayRight
<1>4. \A q \in Requests : q = p[1] => Right(q)'
  BY <1>1, <1>2, MoversStayRight
<1> QED
  BY <1>3, <1>4

-----------------------------------------------------------------------------
\* Types.

\* Every step of a request,
LEMMA RequestsKeepTypes ==
    ASSUME PlaceTypes, AnswerTypes, CaseOK, NEW r \in Requests, RequestStep(r) \/ GivesUp(r)
    PROVE  PlaceTypes' /\ AnswerTypes'
<1>0. CheckerOf[r] \in Checkers
  BY JudgeAssumption
<1>1. CASE Judge(r) \/ Admitted(r) \/ AdmissionCancelled(r) \/ Materialize(r)
  BY <1>1 DEF PlaceTypes, AnswerTypes, Judge, Admitted, AdmissionCancelled, Materialize, Reject,
              Return, Goto, Blame, RequestPlaces, Statuses, Causes
<1>2. CASE CompileBegins(r) \/ CompileEnds(r) \/ CompileCancelled(r) \/ CheckerCompileBegins(r)
  BY <1>2 DEF PlaceTypes, AnswerTypes, CompileBegins, CompileEnds, CompileCancelled,
              CheckerCompileBegins, CompileBroke, Return, Goto, Blame, RequestPlaces, Statuses,
              Causes
<1>3. CASE CheckerDo(r)
  <2>1. casePc' = casePc \/ StartCases({r})
    BY <1>3 DEF CheckerDo
  <2>2. casePc' \in [CaseProcs -> CasePlaces]
    BY <2>1 DEF PlaceTypes, StartCases, CasePlaces
  <2> QED
    BY <1>0, <1>3, <2>2 DEF PlaceTypes, AnswerTypes, CheckerDo, Goto, RequestPlaces
<1>4. CASE JudgeEnds(r)
  <2>1. aggregateStatus(r) \in Statuses
    BY DEF aggregateStatus, Statuses
  <2> QED
    BY <1>4, <2>1 DEF PlaceTypes, AnswerTypes, JudgeEnds, Return, Goto, RequestPlaces
<1>5. CASE CheckerCompileEnds(r) \/ CheckerCompileExpires(r)
  <2>1. /\ results' = results /\ executed' = executed
        /\ cached' = cached \/ cached' = cached \cup {CheckerOf[r]}
        /\ flight' = [flight EXCEPT ![CheckerOf[r]] = NoOne]
        /\ casePc' = casePc \/ StartCases(Sharers(r))
        /\ \E there \in {"answered", "cases"} :
              pc' = [q \in Requests |-> IF q \in Sharers(r) THEN there ELSE pc[q]]
    BY <1>5 DEF CheckerCompileEnds, CheckerCompileExpires, FlightFails, FlightReturns
  <2>2. casePc' \in [CaseProcs -> CasePlaces]
    BY <2>1 DEF PlaceTypes, StartCases, CasePlaces
  <2>3. PlaceTypes'
    BY <1>0, <2>1, <2>2 DEF PlaceTypes, RequestPlaces
  <2>4. AnswerTypes'
    BY <1>5 DEF AnswerTypes, CheckerCompileEnds, CheckerCompileExpires, FlightFails,
                FlightReturns, CheckerRejected, Statuses, Causes
  <2> QED
    BY <2>3, <2>4
<1> QED
  BY <1>1, <1>2, <1>3, <1>4, <1>5 DEF RequestStep, GivesUp

\* ... and of a case.
LEMMA CasesKeepTypes ==
    ASSUME PlaceTypes, AnswerTypes, NEW p \in CaseProcs, CaseStep(p) \/ CaseCancelled(p)
    PROVE  PlaceTypes' /\ AnswerTypes'
<1>1. \A r, run : CheckVerdict(r, CheckOutcome(run)) \in Verdicts
  BY DEF CheckVerdict, CheckOutcome, CheckerFailed, Verdicts
<1>2. CASE RunBegins(p) \/ CheckBegins(p)
  BY <1>2 DEF PlaceTypes, AnswerTypes, RunBegins, CheckBegins, CaseGoto, CasePlaces
<1>3. CASE RunEnds(p) \/ CaseCancelled(p)
  BY <1>3 DEF PlaceTypes, AnswerTypes, RunEnds, CaseCancelled, CaseDone, CaseGoto, CasePlaces,
              Verdicts, Blame, Causes
<1>4. CASE CheckEnds(p)
  <2>1. \E v \in Verdicts : CaseDone(p, v)
    BY <1>1, <1>4 DEF CheckEnds, Verdicts
  <2>2. blame' = blame \/ \E x \in Causes : Blame(p[1], x)
    BY <1>4 DEF CheckEnds, Causes
  <2> QED
    BY <1>4, <2>1, <2>2 DEF PlaceTypes, AnswerTypes, CheckEnds, CaseDone, CaseGoto, CasePlaces, Blame
<1> QED
  BY <1>2, <1>3, <1>4 DEF CaseStep

-----------------------------------------------------------------------------

\* Nothing has begun.
LEMMA JudgeInitOK == Init => JudgeInv
<1> SUFFICES ASSUME Init PROVE JudgeInv
  OBVIOUS
<1>1. /\ SemOK(judges, Requests, MaxJudges) /\ Members(judges) = {}
      /\ SemOK(slots, Procs, MaxConcurrent) /\ Members(slots) = {}
  BY SemEmptyOK, JudgeAssumption DEF Init
<1>2. PlaceTypes /\ AnswerTypes
  BY DEF Init, PlaceTypes, AnswerTypes, RequestPlaces, CasePlaces
<1>3. JudgesOK /\ SlotsOK
  BY <1>1 DEF Init, JudgesOK, SlotsOK
<1>4. FlightOK /\ CaseOK
  BY ProcFacts DEF Init, FlightOK, LeadPlaces, CaseOK
<1>5. BlameOK /\ AnswerOK
  BY DEF Init, BlameOK, AnswerOK
<1> QED
  BY <1>2, <1>3, <1>4, <1>5 DEF JudgeInv

\* The invariant is inductive.
LEMMA JudgeStepOK == JudgeInv /\ [Next]_vars => JudgeInv'
<1> SUFFICES ASSUME JudgeInv, [Next]_vars PROVE JudgeInv'
  OBVIOUS
<1>1. /\ PlaceTypes /\ AnswerTypes /\ JudgesOK /\ SlotsOK
      /\ FlightOK /\ CaseOK /\ BlameOK /\ AnswerOK
  BY DEF JudgeInv
<1>2. (\A q \in Requests : Right(q)') => AnswerOK'
  BY DEF AnswerOK, Right
<1>3. ASSUME NEW r \in Requests, RequestStep(r) \/ GivesUp(r)
      PROVE  JudgeInv'
  <2>1. \A q \in Requests : Right(q)'
    BY <1>1, <1>3, EarlyStepsAnswerRight, LateStepsAnswerRight DEF RequestStep, GivesUp
  <2>2. PlaceTypes' /\ AnswerTypes' /\ JudgesOK' /\ SlotsOK'
    BY <1>1, <1>3, RequestsKeepTypes, RequestsKeepJudges, RequestsKeepSlots
  <2>3. FlightOK' /\ CaseOK' /\ BlameOK'
    BY <1>1, <1>3, RequestsKeepFlights, RequestsKeepCases, RequestsKeepBlame
  <2> QED
    BY <1>2, <2>1, <2>2, <2>3 DEF JudgeInv
<1>4. ASSUME NEW p \in CaseProcs, CaseStep(p) \/ CaseCancelled(p)
      PROVE  JudgeInv'
  <2>1. pc' = pc /\ judges' = judges /\ flight' = flight
    BY <1>4 DEF CaseStep, CaseCancelled, RunBegins, RunEnds, CheckBegins, CheckEnds
  <2>2. \A q \in Requests : Right(q)'
    BY <1>1, <1>4, CasesAnswerRight
  <2>3. PlaceTypes' /\ AnswerTypes' /\ SlotsOK' /\ CaseOK' /\ BlameOK'
    BY <1>1, <1>4, CasesKeepTypes, CasesKeepSlots, CasesKeepCases, CasesKeepBlame
  <2>4. JudgesOK'
    BY <1>1, <2>1, JudgesMove DEF JudgesOK
  <2>5. FlightOK'
    BY <1>1, <2>1, FlightMove
  <2> QED
    BY <1>2, <2>2, <2>3, <2>4, <2>5 DEF JudgeInv
<1>5. CASE UNCHANGED <<pc, judges, slots, flight, casePc, results, answer, blame, executed>>
           /\ cached' \subseteq cached
  <2>1. PlaceTypes' /\ AnswerTypes'
    BY <1>1, <1>5 DEF PlaceTypes, AnswerTypes
  <2>2. JudgesOK'
    BY <1>1, <1>5, JudgesMove DEF JudgesOK
  <2>3. SlotsOK'
    BY <1>1, <1>5, SlotsMove
  <2>4. FlightOK'
    BY <1>1, <1>5, FlightMove
  <2>5. CaseOK' /\ BlameOK'
    BY <1>1, <1>5 DEF CaseOK, BlameOK
  <2>6. \A q \in Requests : Right(q)'
    BY <1>1, <1>5, OthersStayRight
  <2> QED
    BY <1>2, <2>1, <2>2, <2>3, <2>4, <2>5, <2>6 DEF JudgeInv
<1>6. CASE \E s \in cached : Evict(s)
  BY <1>5, <1>6 DEF Evict
<1>7. CASE UNCHANGED vars
  BY <1>5, <1>7 DEF vars
<1> QED
  BY <1>3, <1>4, <1>6, <1>7 DEF Next, Terminated

\* JudgeInv holds in every reachable state.
LEMMA JudgeInvariance == Spec => []JudgeInv
BY JudgeInitOK, JudgeStepOK, PTL DEF Spec

-----------------------------------------------------------------------------

\* The types hold, and neither MAX_CONCURRENT_JUDGES nor
\* MAX_CONCURRENT_CONTAINERS is exceeded, for any number of requests and cases.
THEOREM JudgeTypeCorrect == Spec => []TypeOK
<1>1. JudgeInv => TypeOK
  BY DEF JudgeInv, PlaceTypes, AnswerTypes, JudgesOK, SlotsOK, SemOK, SemShape, TypeOK
<1> QED
  BY <1>1, JudgeInvariance, PTL

\* When Judge has returned, neither the request nor one of its cases holds a slot
\* or queues for one, it leads no compilation and has no goroutine left
\* (judge_service.go, the deferred release and wg.Wait).
THEOREM AnswersAreQuiet == Spec => []AnsweredIsQuiet
<1>1. JudgeInv => AnsweredIsQuiet
  <2> SUFFICES ASSUME JudgeInv, NEW r \in Requests, pc[r] = "answered"
               PROVE  /\ r \notin Members(judges)
                      /\ <<r>> \notin Members(slots)
                      /\ \A i \in CasesOf[r] : <<r, i>> \notin Members(slots)
                      /\ \A i \in CasesOf[r] : casePc[<<r, i>>] \in {"unborn", "done"}
                      /\ \A s \in Checkers : flight[s] # r
    BY DEF AnsweredIsQuiet, At
  <2>1. r \notin Members(judges)
    BY DEF JudgeInv, JudgesOK
  <2>2. <<r>> \notin Members(slots)
    BY DEF JudgeInv, SlotsOK
  <2>3. \A i \in CasesOf[r] : casePc[<<r, i>>] \in {"unborn", "done"}
    BY ProcFacts DEF JudgeInv, CaseOK
  <2>4. \A s \in Checkers : flight[s] # r
    BY JudgeAssumption DEF JudgeInv, FlightOK, LeadPlaces
  <2>5. \A i \in CasesOf[r] : <<r, i>> \notin Members(slots)
    <3> SUFFICES ASSUME NEW i \in CasesOf[r] PROVE <<r, i>> \notin Members(slots)
      OBVIOUS
    <3>1. <<r, i>> \in CaseProcs /\ casePc[<<r, i>>] \in {"unborn", "done"}
      BY <2>3, ProcFacts
    <3> QED
      BY <3>1 DEF JudgeInv, SlotsOK
  <2> QED
    BY <2>1, <2>2, <2>3, <2>4, <2>5
<1> QED
  BY <1>1, JudgeInvariance, PTL

\* A judged request gets the status its failures are owed, and nothing was
\* executed for one that is rejected.
THEOREM StatusesAreOwed == Spec => []StatusIsOwed
<1>1. JudgeInv => StatusIsOwed
  BY DEF JudgeInv, AnswerOK, StatusIsOwed, At
<1> QED
  BY <1>1, JudgeInvariance, PTL

\* Nobody waits for a judge slot or a container slot while one is free, and who
\* waits for a checker waits for a request that compiles it and is still there.
WaitsHaveReasons ==
    /\ NoIdleToken(judges, MaxJudges)
    /\ NoIdleToken(slots, MaxConcurrent)
    /\ \A r \in Requests : At(r, "flight") =>
         \E q \in judges.held : CheckerOf[q] = CheckerOf[r] /\ pc[q] \in LeadPlaces

\* The steps between a request and its answer: the waits of judge_service.go are
\* for something that is really taken, by somebody who can go on.
THEOREM WaitsAreForSomeone == Spec => []WaitsHaveReasons
<1>1. JudgeInv => WaitsHaveReasons
  <2> SUFFICES ASSUME JudgeInv PROVE WaitsHaveReasons
    OBVIOUS
  <2>1. NoIdleToken(judges, MaxJudges) /\ NoIdleToken(slots, MaxConcurrent)
    BY DEF JudgeInv, JudgesOK, SlotsOK, SemOK
  <2>2. ASSUME NEW r \in Requests, pc[r] = "flight"
        PROVE  \E q \in judges.held : CheckerOf[q] = CheckerOf[r] /\ pc[q] \in LeadPlaces
    <3> DEFINE q == flight[CheckerOf[r]]
    <3>1. q \in Requests /\ q # NoOne /\ CheckerOf[r] \in Checkers
      BY <2>2, JudgeAssumption DEF JudgeInv, FlightOK, PlaceTypes
    <3>2. pc[q] \in LeadPlaces /\ CheckerOf[q] = CheckerOf[r]
      BY <3>1 DEF JudgeInv, FlightOK
    <3>3. q \in judges.held
      BY <3>1, <3>2 DEF JudgeInv, JudgesOK, LeadPlaces
    <3> QED
      BY <3>2, <3>3
  <2> QED
    BY <2>1, <2>2 DEF WaitsHaveReasons, At
<1> QED
  BY <1>1, JudgeInvariance, PTL
=============================================================================
