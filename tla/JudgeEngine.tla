---------------------------- MODULE JudgeEngine ----------------------------
(***************************************************************************)
(* The judge service (internal/service/judge_service.go), with the calls   *)
(* it makes into the language, checker and execution packages.             *)
(*                                                                         *)
(* Many requests are judged at once.  A request queues for a judge slot,   *)
(* reads its resources, compiles the program, compiles (or finds, or waits *)
(* for) the checker, then runs all its test cases in parallel goroutines,  *)
(* each a run followed by a check.  Every compile, run and check is an     *)
(* execution that queues for one of the container slots all requests       *)
(* share.  So a request can wait in three places while it holds its judge  *)
(* slot: this module is where the engine could deadlock.                   *)
(*                                                                         *)
(* What happens inside an execution is Executor, and how the checker       *)
(* compiler looks in its cache is CheckerCompiler; here an execution is    *)
(* a slot held for a while and an outcome, and Get and Do are one step.    *)
(***************************************************************************)
EXTENDS Integers, FiniteSets, Sequences, Semaphore

CONSTANTS
    Requests,
    CasesOf,        \* the indexes of each request's test cases
    Invalid,        \* requests that validation, Resolve or resolveChecker reject
    Inline,         \* requests that bring their checker's source
    Checkers,       \* checker sources
    CheckerOf,      \* the source each request's checker has
    MaxJudges,      \* MAX_CONCURRENT_JUDGES
    MaxConcurrent,  \* MAX_CONCURRENT_CONTAINERS
    Cancellable,    \* requests whose context may end while they queue for a slot
    NoOne

ASSUME JudgeAssumption ==
    /\ Invalid \subseteq Requests
    /\ Inline \subseteq Requests
    /\ Cancellable \subseteq Requests
    /\ CheckerOf \in [Requests -> Checkers]
    /\ \A r \in Requests : CasesOf[r] # {}
    /\ MaxJudges \in Nat \ {0}
    /\ MaxConcurrent \in Nat \ {0}
    /\ NoOne \notin Requests

VARIABLES
    pc,        \* where each request is
    judges,    \* JudgeEngine.concurrencySem
    slots,     \* executor.sem, as the processes here see it
    cached,    \* the checker sources whose artifact is in the cache
    flight,    \* the request that leads the compilation of a source, or NoOne
    casePc,    \* where each test case goroutine is
    results,   \* the results slice of runAllCases
    answer,    \* "none", "rejected" (an error from Judge) or the status
    blame,     \* history: whose failures the request has met
    executed   \* history: requests for which anything was executed

vars == <<pc, judges, slots, cached, flight, casePc, results, answer, blame, executed>>

\* The goroutines that execute something: the request's own and its cases'.
CaseProcs == UNION {{r} \X CasesOf[r] : r \in Requests}
Procs == {<<r>> : r \in Requests} \cup CaseProcs

RequestPlaces == {"new", "queued", "materialize", "compile", "compiling", "checker",
                  "flight", "checkerCompile", "checkerCompiling", "cases", "answered"}
CasePlaces == {"unborn", "run", "running", "check", "checking", "done"}
\* "bad": TLE, MLE, OLE or RE of the program
Verdicts == {"OK", "WA", "bad", "UKE", "CEE"}
Statuses == {"OK", "CompileError", "CheckerCompileError", "CheckerExecutionError", "SystemError"}
Causes == {"infrastructure", "systemChecker", "userChecker", "userCheckerSource", "program"}

TypeOK ==
    /\ pc \in [Requests -> RequestPlaces]
    /\ judges.held \subseteq Requests /\ Cardinality(judges.held) <= MaxJudges
    /\ judges.waiters \in Seq(Requests)
    /\ slots.held \subseteq Procs /\ Cardinality(slots.held) <= MaxConcurrent
    /\ slots.waiters \in Seq(Procs)
    /\ cached \subseteq Checkers
    /\ flight \in [Checkers -> Requests \cup {NoOne}]
    /\ casePc \in [CaseProcs -> CasePlaces]
    /\ results \in [CaseProcs -> Verdicts \cup {"none"}]
    /\ answer \in [Requests -> Statuses \cup {"none", "rejected"}]
    /\ blame \in [Requests -> SUBSET Causes]
    /\ executed \subseteq Requests

Init ==
    /\ pc = [r \in Requests |-> "new"]
    /\ judges = SemEmpty
    /\ slots = SemEmpty
    /\ cached = {}
    /\ flight = [s \in Checkers |-> NoOne]
    /\ casePc = [p \in CaseProcs |-> "unborn"]
    /\ results = [p \in CaseProcs |-> "none"]
    /\ answer = [r \in Requests |-> "none"]
    /\ blame = [r \in Requests |-> {}]
    /\ executed = {}

-----------------------------------------------------------------------------

At(r, here) == pc[r] = here
Goto(r, there) == pc' = [pc EXCEPT ![r] = there]
Blame(r, cause) == blame' = [blame EXCEPT ![r] = @ \cup {cause}]

\* Judge returns: the answer, and the deferred release of the judge slot.
Return(r, status) ==
    /\ Goto(r, "answered")
    /\ answer' = [answer EXCEPT ![r] = status]
    /\ judges' = SemRelease(judges, r, MaxJudges)

\* Mutant: nobody queues.
MutantSlotEnter(p) == slots' = SemTake(slots, p)
\* executor.execute begins: take a container slot or queue for one.
SlotEnter(p) ==
    slots' = IF SemFree(slots, MaxConcurrent) THEN SemTake(slots, p) ELSE SemQueue(slots, p)
\* The execution has its slot and returns.
SlotLeave(p) ==
    /\ p \in slots.held
    /\ slots' = SemRelease(slots, p, MaxConcurrent)

\* It is still queued when its context ends, and Acquire gives up.
SlotAbandon(p) ==
    /\ p \notin slots.held
    /\ slots' = SemAbandon(slots, p, MaxConcurrent)

\* validateJudgeRequest, language.Resolve, resolveChecker, then the judge slot
Judge(r) ==
    /\ At(r, "new")
    /\ IF r \in Invalid
       THEN /\ Goto(r, "answered")
            /\ answer' = [answer EXCEPT ![r] = "rejected"]
            /\ UNCHANGED judges
       ELSE /\ judges' = IF SemFree(judges, MaxJudges) THEN SemTake(judges, r)
                         ELSE SemQueue(judges, r)
            /\ Goto(r, "queued")
            /\ UNCHANGED answer
    /\ UNCHANGED <<slots, cached, flight, casePc, results, blame, executed>>

\* concurrencySem.Acquire returns
Admitted(r) ==
    /\ At(r, "queued")
    /\ r \in judges.held
    /\ Goto(r, "materialize")
    /\ UNCHANGED <<judges, slots, cached, flight, casePc, results, answer, blame, executed>>

\* ... with an error: failedBeforeRun
AdmissionCancelled(r) ==
    /\ At(r, "queued")
    /\ r \in Cancellable
    /\ judges' = SemAbandon(judges, r, MaxJudges)
    /\ Goto(r, "answered")
    /\ answer' = [answer EXCEPT ![r] = "SystemError"]
    /\ Blame(r, "infrastructure")
    /\ UNCHANGED <<slots, cached, flight, casePc, results, executed>>

\* Mutant: the slot is released by hand, and not on this path.
MutantReject(r) ==
    /\ Goto(r, "answered")
    /\ answer' = [answer EXCEPT ![r] = "rejected"]
    /\ UNCHANGED judges
\* materialize failed: the error of Judge
Reject(r) == Return(r, "rejected")

\* checker.Source and materializeCase for every case: all files are read now
Materialize(r) ==
    /\ At(r, "materialize")
    /\ \/ /\ Goto(r, "compile")
          /\ UNCHANGED <<answer, judges>>
       \/ Reject(r)
    /\ UNCHANGED <<slots, cached, flight, casePc, results, blame, executed>>

\* compiler.Compile is called,
CompileBegins(r) ==
    /\ At(r, "compile")
    /\ SlotEnter(<<r>>)
    /\ Goto(r, "compiling")
    /\ executed' = executed \cup {r}
    /\ UNCHANGED <<judges, cached, flight, casePc, results, answer, blame>>

\* what Judge answers when the compiler could not be run
CompileBroke == "SystemError"

\* ... and returns an error, no artifact, or a program.
CompileEnds(r) ==
    /\ At(r, "compiling")
    /\ SlotLeave(<<r>>)
    /\ \/ /\ Return(r, CompileBroke)
          /\ Blame(r, "infrastructure")
       \/ /\ Return(r, "CompileError")
          /\ Blame(r, "program")
       \/ /\ Goto(r, "checker")
          /\ UNCHANGED <<answer, judges, blame>>
    /\ UNCHANGED <<cached, flight, casePc, results, executed>>

\* ... or the request ends while its compilation queues.
CompileCancelled(r) ==
    /\ At(r, "compiling")
    /\ r \in Cancellable
    /\ SlotAbandon(<<r>>)
    /\ Return(r, CompileBroke)
    /\ Blame(r, "infrastructure")
    /\ UNCHANGED <<cached, flight, casePc, results, executed>>

\* Where a request goes when its checker is ready: one goroutine for each case.
StartCases(rs) ==
    casePc' = [p \in CaseProcs |-> IF p[1] \in rs THEN "run" ELSE casePc[p]]

\* plan.checker.Compile: a cached artifact, the compilation in flight, or a new
\* one that this request leads.
CheckerDo(r) ==
    LET s == CheckerOf[r] IN
    /\ At(r, "checker")
    /\ \/ /\ s \in cached
          /\ Goto(r, "cases")
          /\ StartCases({r})
          /\ UNCHANGED flight
       \/ /\ s \notin cached /\ flight[s] # NoOne
          /\ Goto(r, "flight")
          /\ UNCHANGED <<flight, casePc>>
       \/ /\ s \notin cached /\ flight[s] = NoOne
          /\ flight' = [flight EXCEPT ![s] = r]
          /\ Goto(r, "checkerCompile")
          /\ UNCHANGED casePc
    /\ UNCHANGED <<judges, slots, cached, results, answer, blame, executed>>

\* The leader's executor.Compile is called.
CheckerCompileBegins(r) ==
    /\ At(r, "checkerCompile")
    /\ SlotEnter(<<r>>)
    /\ Goto(r, "checkerCompiling")
    /\ UNCHANGED <<judges, cached, flight, casePc, results, answer, blame, executed>>

\* the status of request r when its checker does not compile
CheckerRejected(r, leader) == IF r \in Inline THEN "CheckerCompileError" ELSE "SystemError"

\* The requests that share the compilation r leads.
Sharers(r) == {r} \cup {q \in Requests : At(q, "flight") /\ CheckerOf[q] = CheckerOf[r]}

\* The flight r leads is over and left no checker: all who share it return.
FlightReturns(r, status, cause) ==
    LET qs == Sharers(r) IN
    /\ flight' = [flight EXCEPT ![CheckerOf[r]] = NoOne]
    /\ pc' = [q \in Requests |-> IF q \in qs THEN "answered" ELSE pc[q]]
    /\ answer' = [q \in Requests |-> IF q \in qs THEN status[q] ELSE answer[q]]
    /\ blame' = [q \in Requests |-> IF q \in qs THEN blame[q] \cup {cause[q]} ELSE blame[q]]
    /\ judges' = SemReleaseAll(judges, qs, MaxJudges)
    /\ UNCHANGED <<cached, casePc>>

\* ... with an error.
FlightFails(r) ==
    FlightReturns(r, [q \in Requests |-> "SystemError"], [q \in Requests |-> "infrastructure"])

\* The leader's compilation returns.  Every request in the flight gets its
\* outcome and makes of it what its own kind of checker says: an artifact, a
\* source that does not compile, or an error.
CheckerCompileEnds(r) ==
    /\ At(r, "checkerCompiling")
    /\ SlotLeave(<<r>>)
    /\ \/ /\ cached' = cached \cup {CheckerOf[r]}
          /\ flight' = [flight EXCEPT ![CheckerOf[r]] = NoOne]
          /\ pc' = [q \in Requests |-> IF q \in Sharers(r) THEN "cases" ELSE pc[q]]
          /\ StartCases(Sharers(r))
          /\ UNCHANGED <<answer, judges, blame>>
       \/ FlightReturns(r, [q \in Requests |-> CheckerRejected(q, r)],
                        [q \in Requests |->
                            IF q \in Inline THEN "userCheckerSource" ELSE "systemChecker"])
       \/ FlightFails(r)
    /\ UNCHANGED <<results, executed>>

\* The compilation does not heed its request's context, but its own time budget
\* can run out in the queue.
CheckerCompileExpires(r) ==
    /\ At(r, "checkerCompiling")
    /\ SlotAbandon(<<r>>)
    /\ FlightFails(r)
    /\ UNCHANGED <<results, executed>>

-----------------------------------------------------------------------------
\* runCase, in a goroutine of its own

CaseGoto(p, there) == casePc' = [casePc EXCEPT ![p] = there]
\* results[i] = ...
CaseDone(p, verdict) ==
    /\ CaseGoto(p, "done")
    /\ results' = [results EXCEPT ![p] = verdict]

\* program.Run is called,
RunBegins(p) ==
    /\ casePc[p] = "run"
    /\ SlotEnter(p)
    /\ CaseGoto(p, "running")
    /\ UNCHANGED <<pc, judges, cached, flight, results, answer, blame, executed>>

\* ... and returns an error, a verdict against the program, or OK.
RunEnds(p) ==
    /\ casePc[p] = "running"
    /\ SlotLeave(p)
    /\ \/ CaseDone(p, "UKE") /\ Blame(p[1], "infrastructure")
       \/ CaseDone(p, "bad") /\ UNCHANGED blame
       \/ CaseGoto(p, "check") /\ UNCHANGED <<results, blame>>
    /\ UNCHANGED <<pc, judges, cached, flight, answer, executed>>

\* checker.Check is called,
CheckBegins(p) ==
    /\ casePc[p] = "check"
    /\ SlotEnter(p)
    /\ CaseGoto(p, "checking")
    /\ UNCHANGED <<pc, judges, cached, flight, results, answer, blame, executed>>

\* How the checker's execution can end when the executor reports no error: RE
\* comes with an exit code that is not 0, a limit with any.
CheckerRuns ==
    {[verdict |-> "OK", exitCode |-> 0]}
    \cup [verdict : {"RE"}, exitCode : 1..3]
    \cup [verdict : {"TLE", "MLE", "OLE"}, exitCode : {0, 1, 137}]

\* What Check makes of it: testlib exits with 1 or 2 for an output it rejects.
CheckOutcome(run) ==
    IF run = [verdict |-> "OK", exitCode |-> 0] THEN "accepted"
    ELSE IF run.verdict = "RE" /\ run.exitCode \in {1, 2} THEN "rejected"
    ELSE "failed"

\* the verdict when the checker itself failed
CheckerFailed(r) == IF r \in Inline THEN "CEE" ELSE "UKE"

\* what runCase makes of Check's outcome
CheckVerdict(r, outcome) ==
    CASE outcome = "accepted" -> "OK"
      [] outcome = "rejected" -> "WA"
      [] outcome = "failed" -> CheckerFailed(r)

\* ... and returns an error, or an outcome.
CheckEnds(p) ==
    /\ casePc[p] = "checking"
    /\ SlotLeave(p)
    /\ \/ CaseDone(p, "UKE") /\ Blame(p[1], "infrastructure")
       \/ \E run \in CheckerRuns :
            /\ CaseDone(p, CheckVerdict(p[1], CheckOutcome(run)))
            /\ IF CheckOutcome(run) = "failed"
               THEN Blame(p[1], IF p[1] \in Inline THEN "userChecker" ELSE "systemChecker")
               ELSE UNCHANGED blame
    /\ UNCHANGED <<pc, judges, cached, flight, answer, executed>>

\* The request ends while a run or a check of this case queues.
CaseCancelled(p) ==
    /\ casePc[p] \in {"running", "checking"}
    /\ p[1] \in Cancellable
    /\ SlotAbandon(p)
    /\ CaseDone(p, "UKE")
    /\ Blame(p[1], "infrastructure")
    /\ UNCHANGED <<pc, judges, cached, flight, answer, executed>>

VerdictsOf(r) == {results[<<r, i>>] : i \in CasesOf[r]}

\* Mutant: the first kind of failure looked for is the request's own.
MutantAggregateStatus(r) ==
    IF "CEE" \in VerdictsOf(r) THEN "CheckerExecutionError"
    ELSE IF "UKE" \in VerdictsOf(r) THEN "SystemError"
    ELSE "OK"
\* A system failure wins over a failure of the request's checker.
aggregateStatus(r) ==
    IF "UKE" \in VerdictsOf(r) THEN "SystemError"
    ELSE IF "CEE" \in VerdictsOf(r) THEN "CheckerExecutionError"
    ELSE "OK"

\* Mutant: one goroutine too few is added to the WaitGroup.
MutantCasesDone(r) == \E i \in CasesOf[r] : \A j \in CasesOf[r] \ {i} : casePc[<<r, j>>] = "done"
\* wg.Wait returns
CasesDone(r) == \A i \in CasesOf[r] : casePc[<<r, i>>] = "done"

JudgeEnds(r) ==
    /\ At(r, "cases")
    /\ CasesDone(r)
    /\ Return(r, aggregateStatus(r))
    /\ UNCHANGED <<slots, cached, flight, casePc, results, blame, executed>>

\* The LRU cache drops an artifact to make room for another checker's.
Evict(s) ==
    /\ s \in cached
    /\ cached' = cached \ {s}
    /\ UNCHANGED <<pc, judges, slots, flight, casePc, results, answer, blame, executed>>

RequestStep(r) ==
    \/ Judge(r) \/ Admitted(r) \/ Materialize(r)
    \/ CompileBegins(r) \/ CompileEnds(r)
    \/ CheckerDo(r) \/ CheckerCompileBegins(r) \/ CheckerCompileEnds(r)
    \/ JudgeEnds(r)

\* What ends a wait of request r for a slot, other than a slot.
GivesUp(r) == AdmissionCancelled(r) \/ CompileCancelled(r) \/ CheckerCompileExpires(r)

CaseStep(p) == RunBegins(p) \/ RunEnds(p) \/ CheckBegins(p) \/ CheckEnds(p)

AllAnswered == \A r \in Requests : At(r, "answered")
Terminated == AllAnswered /\ UNCHANGED vars

Next ==
    \/ \E r \in Requests : RequestStep(r) \/ GivesUp(r)
    \/ \E p \in CaseProcs : CaseStep(p) \/ CaseCancelled(p)
    \/ \E s \in cached : Evict(s)
    \/ Terminated

Spec == Init /\ [][Next]_vars

\* Goroutines run, and an execution that has its slot ends
\* (Executor!EveryExecutionReturns).  Nothing has to be cancelled or to expire:
\* no request needs that to be answered.
FairSpec ==
    /\ Spec
    /\ \A r \in Requests : WF_vars(RequestStep(r))
    /\ \A p \in CaseProcs : WF_vars(CaseStep(p))

-----------------------------------------------------------------------------

\* The status a request is owed by what happened to it, whatever the order in
\* which its cases ended: failures of the engine first, then of the checker the
\* request brought, then of the program's compilation.
OwedStatus(r) ==
    IF blame[r] \cap {"infrastructure", "systemChecker"} # {} THEN "SystemError"
    ELSE IF "userChecker" \in blame[r] THEN "CheckerExecutionError"
    ELSE IF "userCheckerSource" \in blame[r] THEN "CheckerCompileError"
    ELSE IF "program" \in blame[r] THEN "CompileError"
    ELSE "OK"

\* A request that was judged is answered with the status it is owed: nobody is
\* blamed for the failure of another, also when requests with different kinds
\* of checker share one compilation.  "An error means the request or its
\* resources were rejected before compilation" (Judge): nothing was executed for
\* a request that gets one, so it can be sent again.
StatusIsOwed ==
    \A r \in Requests :
        /\ (At(r, "answered") /\ answer[r] # "rejected") => answer[r] = OwedStatus(r)
        /\ answer[r] = "rejected" => r \notin executed

\* When Judge has returned, nothing of the request is left: neither the request
\* nor any of its cases holds a slot or has a place in a queue, no case goroutine
\* runs or has a result still to write, and no compilation is led for others.
AnsweredIsQuiet ==
    \A r \in Requests : At(r, "answered") =>
        /\ r \notin Members(judges)
        /\ \A q \in {<<r>>} \cup {<<r, i>> : i \in CasesOf[r]} : q \notin Members(slots)
        /\ \A i \in CasesOf[r] : casePc[<<r, i>>] \in {"unborn", "done"}
        /\ \A s \in Checkers : flight[s] # r

\* Every request is answered: waiting for a judge slot, for the checker another
\* request compiles and for a container slot never ends in a circle.
EveryRequestAnswered == <>AllAnswered
=============================================================================
