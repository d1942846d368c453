--------------------------- MODULE WatchExecution ---------------------------
(***************************************************************************)
(* One task under observation (internal/sandbox/containerd.go,             *)
(* watchExecution and what it calls; verdict.go; metrics.go).              *)
(*                                                                         *)
(* The watcher goroutine starts the task, waits in a select on five        *)
(* channels (task exit, CPU ticker, output limit, wall timer, context),    *)
(* stops the task when a limit fired, waits for the two output copiers and *)
(* classifies the execution.  Around it the program runs, writes, exits or *)
(* sleeps forever; the copiers move its bytes into the OutputLimiter; time *)
(* passes.  containerd is external: it may fail any call, in the ways      *)
(* listed in FaultKinds, and Faults says which of them a run injects.      *)
(*                                                                         *)
(* Time is counted in intervals of the CPU ticker (cpuTimeCheckInterval).  *)
(***************************************************************************)
EXTENDS OutputLimiter

CONSTANTS
    CpuLimit,     \* limits.CPUTimeMs
    WallLimit,    \* limits.WallTimeMs
    CtxDeadline,  \* when ctx expires, on the clock now; above MaxTime: never
    MaxDelay,     \* bound: how late the task may be started
    MaxTime,      \* bound: the clock stops here
    Faults        \* which containerd failures a run injects

FaultKinds == {"start", "metrics", "kill", "stuck", "exit", "drain"}

ASSUME TimeAssumption ==
    /\ CpuLimit \in Nat \ {0}
    /\ WallLimit \in Nat \ {0}
    /\ CtxDeadline \in Nat
    /\ MaxDelay \in Nat
    /\ MaxTime \in Nat
    /\ MaxDelay + WallLimit <= MaxTime
ASSUME FaultAssumption == Faults \subseteq FaultKinds

VARIABLES
    pipe,      \* bytes of each stream the program wrote and no copier took yet
    proc,      \* "created", "running" or "exited"
    exitCode,  \* the code the process ended with
    mem,       \* cgroup memory events: "none", "oom" or "oomKill"
    cpu,       \* CPU time the task has used
    killed,    \* the task was ended by SIGKILL from stopTask
    exitCh,    \* task.Wait's channel: "empty", "status", "failed" or "closed"
    now,       \* the clock
    tick,      \* a tick waits in cpuTicker.C
    deadline,  \* when the wall timer fires
    pc,        \* where the watcher is
    reason,    \* executionEvent.reason, "none" for zero
    evErr,     \* executionEvent.err # nil
    metrics,   \* executionEvent.metrics or executionOutcome.metrics
    result,    \* "none", "error" or the verdict returned
    faults     \* history: the failures containerd has produced

procVars == <<proc, exitCode, mem, cpu, killed>>
watchVars == <<pc, reason, evErr, metrics, result>>
timeVars == <<now, tick, deadline>>
vars == <<limiterVars, pipe, procVars, exitCh, timeVars, watchVars, faults>>

Verdicts == {"OK", "TLE", "MLE", "OLE", "RE"}
Reasons == {"none", "cpu", "wall", "output"}
KilledCode == 137
Metrics == [cpu : Nat, mem : {"none", "oom", "oomKill"}]
NoMetrics == [cpu |-> 0, mem |-> "none"]

TypeOK ==
    /\ LimiterTypeOK
    /\ pipe \in [Writers -> Nat]
    /\ proc \in {"created", "running", "exited"}
    /\ exitCode \in {0, 1, KilledCode}
    /\ mem \in {"none", "oom", "oomKill"}
    /\ cpu \in 0..now
    /\ killed \in BOOLEAN
    /\ exitCh \in {"empty", "status", "failed", "closed"}
    /\ now \in 0..MaxTime
    /\ tick \in BOOLEAN
    /\ deadline \in 0..MaxTime
    /\ pc \in {"start", "select", "exited", "collect", "kill", "reap",
               "drain", "cancelled", "returned"}
    /\ reason \in Reasons
    /\ evErr \in BOOLEAN
    /\ metrics \in Metrics
    /\ result \in Verdicts \cup {"none", "error"}
    /\ faults \subseteq FaultKinds

Init ==
    /\ LimiterInit
    /\ pipe = [w \in Writers |-> 0]
    /\ proc = "created" /\ exitCode = 0 /\ mem = "none" /\ cpu = 0 /\ killed = FALSE
    /\ exitCh = "empty"
    /\ now = 0 /\ tick = FALSE /\ deadline = 0
    /\ pc = "start" /\ reason = "none" /\ evErr = FALSE
    /\ metrics = NoMetrics /\ result = "none"
    /\ faults = {}

-----------------------------------------------------------------------------
\* The environment: clock, program, containerd's exit notification, copiers.

Returned == pc = "returned"
CtxDone == now >= CtxDeadline

\* One ticker interval passes.  A running task, pinned to one CPU, uses all of
\* it or sleeps through it.  The ticker's channel holds one tick.
Tick ==
    /\ ~Returned
    /\ now < MaxTime
    /\ pc = "start" => now < MaxDelay
    /\ now' = now + 1
    /\ cpu' \in IF proc = "running" THEN {cpu, cpu + 1} ELSE {cpu}
    /\ tick' = (tick \/ pc = "select")
    /\ UNCHANGED <<limiterVars, pipe, proc, exitCode, mem, killed, exitCh, deadline,
                   watchVars, faults>>

Produced(w) == sent[w] + pipe[w]
TotalProduced == Produced("stdout") + Produced("stderr")

\* The program writes n bytes to stream w.
ProgramWrite(w, n) ==
    /\ ~Returned
    /\ proc = "running"
    /\ TotalProduced + n <= MaxSent
    /\ pipe' = [pipe EXCEPT ![w] = @ + n]
    /\ UNCHANGED <<limiterVars, procVars, exitCh, timeVars, watchVars, faults>>

\* The program ends by itself, or is ended by the kernel's OOM killer; a child
\* of it may have been killed instead, so an exit code of 0 is possible too.
ProgramExit(code, events) ==
    /\ ~Returned
    /\ proc = "running"
    /\ proc' = "exited"
    /\ exitCode' = code
    /\ mem' = events
    /\ UNCHANGED <<limiterVars, pipe, cpu, killed, exitCh, timeVars, watchVars, faults>>

\* containerd reports the exit on task.Wait's channel.
DeliverExit ==
    /\ ~Returned
    /\ proc = "exited"
    /\ exitCh = "empty"
    /\ exitCh' = "status"
    /\ UNCHANGED <<limiterVars, pipe, procVars, timeVars, watchVars, faults>>

\* The wait breaks: a status that carries an error, or a close without one,
\* whatever the task is doing.
ExitChannelFails ==
    /\ ~Returned
    /\ "exit" \in Faults
    /\ proc # "created"
    /\ exitCh = "empty"
    /\ exitCh' \in {"failed", "closed"}
    /\ faults' = faults \cup {"exit"}
    /\ UNCHANGED <<limiterVars, pipe, procVars, timeVars, watchVars>>

\* The copier of stream w reads n bytes and calls Write; it stops reading when
\* its pipe was cancelled.
CopierWrite(w, n) ==
    /\ ~Returned
    /\ pc # "cancelled"
    /\ n <= pipe[w]
    /\ Write(w, n)
    /\ pipe' = [pipe EXCEPT ![w] = @ - n]
    /\ UNCHANGED <<procVars, exitCh, timeVars, watchVars, faults>>

CopierCommit(w) ==
    /\ ~Returned
    /\ Commit(w)
    /\ UNCHANGED <<pipe, procVars, exitCh, timeVars, watchVars, faults>>

\* Mutant: the copiers are not waited for.
MutantCopiersDone == \A w \in Writers : Idle(w)

\* Both copiers have read end-of-file and returned.
CopiersDone ==
    /\ proc = "exited"
    /\ \A w \in Writers : pipe[w] = 0 /\ Idle(w)

-----------------------------------------------------------------------------
\* The watcher.

\* watchExecution returns an error.
Fail ==
    /\ pc' = "returned"
    /\ result' = "error"

\* task.Start, then CloseIO (its failure is only logged), then waitForTask makes
\* the wall timer and the ticker.
StartTask ==
    /\ pc = "start"
    /\ ~CtxDone
    /\ proc' = "running"
    /\ deadline' = now + WallLimit
    /\ pc' = "select"
    /\ UNCHANGED <<limiterVars, pipe, exitCode, mem, cpu, killed, exitCh, now, tick,
                   reason, evErr, metrics, result, faults>>

\* task.Start fails, which does not tell whether the process was started.
StartFails ==
    /\ pc = "start"
    /\ CtxDone \/ "start" \in Faults
    /\ proc' \in {"created", "running"}
    /\ faults' = faults \cup {"start"}
    /\ Fail
    /\ UNCHANGED <<limiterVars, pipe, exitCode, mem, cpu, killed, exitCh, timeVars,
                   reason, evErr, metrics>>

Sample == [cpu |-> cpu, mem |-> mem]

\* collectMetrics answers, or its error makes the event an error.  ctx bounds the
\* call, so it cannot answer once ctx has expired.
MetricsRead == ~CtxDone
MetricsFail == CtxDone \/ "metrics" \in Faults
MetricsFaults == IF CtxDone THEN faults ELSE faults \cup {"metrics"}

\* case status, ok := <-exitCh
SelectExit ==
    /\ pc = "select"
    /\ exitCh # "empty"
    /\ exitCh' = "closed"
    /\ \/ /\ exitCh = "status"
          /\ pc' = "exited"
          /\ UNCHANGED <<evErr, result>>
       \/ /\ exitCh = "failed"
          /\ Fail
          /\ UNCHANGED evErr
       \/ /\ exitCh = "closed"
          /\ evErr' = TRUE
          /\ pc' = "kill"
          /\ UNCHANGED result
    /\ UNCHANGED <<limiterVars, pipe, procVars, timeVars, reason, metrics, faults>>

\* case <-cpuTicks
SelectCpuTick ==
    /\ pc = "select"
    /\ tick
    /\ tick' = FALSE
    /\ \/ /\ MetricsRead
          /\ IF cpu >= CpuLimit
             THEN reason' = "cpu" /\ metrics' = Sample /\ pc' = "kill"
             ELSE UNCHANGED <<reason, metrics, pc>>
          /\ UNCHANGED <<evErr, faults>>
       \/ /\ MetricsFail
          /\ evErr' = TRUE
          /\ faults' = MetricsFaults
          /\ pc' = "kill"
          /\ UNCHANGED <<reason, metrics>>
    /\ UNCHANGED <<limiterVars, pipe, procVars, exitCh, now, deadline, result>>

\* case <-outputLimit
SelectOutputLimit ==
    /\ pc = "select"
    /\ signalled
    /\ reason' = "output"
    /\ pc' = "collect"
    /\ UNCHANGED <<limiterVars, pipe, procVars, exitCh, timeVars, evErr, metrics,
                   result, faults>>

WallExpired == now >= deadline

\* case <-wallDeadline
SelectWallDeadline ==
    /\ pc = "select"
    /\ WallExpired
    /\ reason' = "wall"
    /\ pc' = "collect"
    /\ UNCHANGED <<limiterVars, pipe, procVars, exitCh, timeVars, evErr, metrics,
                   result, faults>>

\* case <-ctx.Done()
SelectCtxDone ==
    /\ pc = "select"
    /\ CtxDone
    /\ evErr' = TRUE
    /\ pc' = "kill"
    /\ UNCHANGED <<limiterVars, pipe, procVars, exitCh, timeVars, reason, metrics,
                   result, faults>>

\* The task exited: its metrics are read, without them there is no verdict.
CollectAfterExit ==
    /\ pc = "exited"
    /\ \/ /\ MetricsRead
          /\ metrics' = Sample
          /\ pc' = "drain"
          /\ UNCHANGED <<result, faults>>
       \/ /\ MetricsFail
          /\ faults' = MetricsFaults
          /\ Fail
          /\ UNCHANGED metrics
    /\ UNCHANGED <<limiterVars, pipe, procVars, exitCh, timeVars, reason, evErr>>

\* Mutant: a failed read returns at once and leaves the task running.
MutantCollectBeforeKill ==
    /\ pc = "collect"
    /\ \/ /\ MetricsRead
          /\ metrics' = Sample
          /\ pc' = "kill"
          /\ UNCHANGED <<evErr, result, faults>>
       \/ /\ MetricsFail
          /\ faults' = MetricsFaults
          /\ Fail
          /\ UNCHANGED <<metrics, evErr>>
    /\ UNCHANGED <<limiterVars, pipe, procVars, exitCh, timeVars, reason>>

\* A limit other than CPU time fired: the metrics are read before the kill, and
\* a failed read does not keep the task from being killed.
CollectBeforeKill ==
    /\ pc = "collect"
    /\ \/ /\ MetricsRead
          /\ metrics' = Sample
          /\ UNCHANGED <<evErr, faults>>
       \/ /\ MetricsFail
          /\ evErr' = TRUE
          /\ faults' = MetricsFaults
          /\ UNCHANGED metrics
    /\ pc' = "kill"
    /\ UNCHANGED <<limiterVars, pipe, procVars, exitCh, timeVars, reason, result>>

\* What task.Kill(SIGKILL) may answer.
KillAnswers ==
    {"ok"} \cup (IF proc = "exited" THEN {"notFound"} ELSE {})
           \cup (IF "kill" \in Faults THEN {"failed"} ELSE {})

\* Mutant: "no such task" counts as a failure to kill it.
MutantKillRefused(reply) == reply # "ok"
KillRefused(reply) == reply \notin {"ok", "notFound"}

\* The kill is accepted.  With the fault "stuck" the process survives the signal
\* (uninterruptible sleep).
Kill ==
    /\ pc = "kill"
    /\ \E reply \in KillAnswers : ~KillRefused(reply)
    /\ \/ /\ proc' = "exited"
          /\ killed' = (proc = "running")
          /\ exitCode' = IF proc = "running" THEN KilledCode ELSE exitCode
          /\ UNCHANGED faults
       \/ /\ "stuck" \in Faults
          /\ proc = "running"
          /\ faults' = faults \cup {"stuck"}
          /\ UNCHANGED <<proc, killed, exitCode>>
    /\ pc' = "reap"
    /\ UNCHANGED <<limiterVars, pipe, mem, cpu, exitCh, timeVars, reason, evErr,
                   metrics, result>>

\* It is not: stopTask returns the error, and the task may be running.
KillFails ==
    /\ pc = "kill"
    /\ \E reply \in KillAnswers :
        /\ KillRefused(reply)
        /\ faults' = IF reply = "failed" THEN faults \cup {"kill"} ELSE faults
    /\ Fail
    /\ UNCHANGED <<limiterVars, pipe, procVars, exitCh, timeVars, reason, evErr, metrics>>

\* stopTask waits for the exit of the killed task; then errors.Join decides.
Reap ==
    /\ pc = "reap"
    /\ exitCh # "empty"
    /\ exitCh' = "closed"
    /\ IF exitCh = "status" /\ ~evErr
       THEN pc' = "drain" /\ UNCHANGED result
       ELSE Fail
    /\ UNCHANGED <<limiterVars, pipe, procVars, timeVars, reason, evErr, metrics, faults>>

\* Mutant: stopTask waits without a limit.
MutantReapTimeout ==
    /\ pc = "reap"
    /\ exitCh = "closed"
    /\ Fail
    /\ UNCHANGED <<limiterVars, pipe, procVars, exitCh, timeVars, reason, evErr, metrics, faults>>

\* stopCtx expires first: containerd is "stuck" reporting the exit.
ReapTimeout ==
    /\ pc = "reap"
    /\ exitCh = "empty"
    /\ "stuck" \in Faults
    /\ faults' = faults \cup {"stuck"}
    /\ Fail
    /\ UNCHANGED <<limiterVars, pipe, procVars, exitCh, timeVars, reason, evErr, metrics>>

AnyOverflowed == \E w \in Writers : overflowed[w]

\* executionOutcome.exitCode: left zero unless the select took the exit.
OutcomeCode == IF reason = "none" THEN exitCode ELSE 0

\* Mutant: an overflow counts only when the select was the one to notice it.
MutantOutputExceeded(why, over) == why = "output"
OutputExceeded(why, over) == why = "output" \/ (why = "none" /\ over)

MemoryExceeded(code, m) == m.mem = "oomKill" \/ (code # 0 /\ m.mem = "oom")

CpuTimeExceeded(m) == m.cpu >= CpuLimit

\* buildVerdict: the first case that applies.
buildVerdict(why, over, code, m) ==
    IF OutputExceeded(why, over) THEN "OLE"
    ELSE IF why \in {"cpu", "wall"} THEN "TLE"
    ELSE IF MemoryExceeded(code, m) THEN "MLE"
    ELSE IF CpuTimeExceeded(m) THEN "TLE"
    ELSE IF code = 0 THEN "OK"
    ELSE "RE"

\* waitForOutput sees both copiers done; watchExecution reads the buffers and
\* the marks and builds the verdict.
ReturnVerdict ==
    /\ pc = "drain"
    /\ CopiersDone
    /\ result' = buildVerdict(reason, AnyOverflowed, OutcomeCode, metrics)
    /\ pc' = "returned"
    /\ UNCHANGED <<limiterVars, pipe, procVars, exitCh, timeVars, reason, evErr,
                   metrics, faults>>

\* drainCtx expires, with ctx or after lifecycleOperationTimeout: the pipes are
\* cancelled.
CancelOutput ==
    /\ pc = "drain"
    /\ CtxDone \/ ("drain" \in Faults /\ ~CopiersDone)
    /\ pc' = "cancelled"
    /\ faults' = IF CtxDone THEN faults ELSE faults \cup {"drain"}
    /\ UNCHANGED <<limiterVars, pipe, procVars, exitCh, timeVars, reason, evErr,
                   metrics, result>>

\* ... and their copiers joined before the error is returned.
OutputCancelled ==
    /\ pc = "cancelled"
    /\ \A w \in Writers : Idle(w)
    /\ Fail
    /\ UNCHANGED <<limiterVars, pipe, procVars, exitCh, timeVars, reason, evErr,
                   metrics, faults>>

\* Whoever called watchExecution takes over.
Terminated == Returned /\ UNCHANGED vars

Watcher ==
    \/ StartTask \/ StartFails
    \/ SelectExit \/ SelectCpuTick \/ SelectOutputLimit \/ SelectWallDeadline
    \/ SelectCtxDone
    \/ CollectAfterExit \/ CollectBeforeKill
    \/ Kill \/ KillFails \/ Reap \/ ReapTimeout
    \/ ReturnVerdict \/ CancelOutput \/ OutputCancelled

Copier(w) == CopierCommit(w) \/ \E n \in 1..MaxWrite : CopierWrite(w, n)

Next ==
    \/ Watcher
    \/ \E w \in Writers :
        \/ CopierCommit(w)
        \/ \E n \in 1..MaxWrite : CopierWrite(w, n) \/ ProgramWrite(w, n)
    \/ \E code \in {0, 1}, events \in {"none", "oom", "oomKill"} : ProgramExit(code, events)
    \/ Tick \/ DeliverExit \/ ExitChannelFails
    \/ Terminated

Spec == Init /\ [][Next]_vars

\* The Go scheduler runs every runnable goroutine, time passes, and containerd
\* reports the exit of a process that has exited.  The program owes nothing:
\* neither its writes nor its exit are fair.
FairSpec ==
    /\ Spec
    /\ WF_vars(Watcher)
    /\ WF_vars(Tick)
    /\ WF_vars(DeliverExit)
    /\ \A w \in Writers : WF_vars(Copier(w))

-----------------------------------------------------------------------------

Judged == result \in Verdicts

\* A verdict is only given on the whole output: when watchExecution returns one,
\* the buffers hold every byte the program wrote up to the output limit, and a
\* stream that is not marked overflowed is complete, although the exit of the
\* task does not join the copiers (waitForOutput does).
VerdictSeesAllOutput ==
    Judged =>
        /\ Total(buf) = Least(TotalProduced, Limit)
        /\ \A w \in Writers : ~overflowed[w] => buf[w] = Produced(w)

\* Unless a time limit stopped the task first, OLE is returned exactly when the
\* program wrote more than the output limit, whichever channel the select took.
OutputLimitIsExact ==
    (Judged /\ reason \in {"none", "output"}) =>
        (result = "OLE" <=> TotalProduced > Limit)

\* OK means the program ended by itself with code 0, within its CPU time, its
\* memory and its output limit.
AcceptedIsClean ==
    result = "OK" =>
        /\ proc = "exited" /\ ~killed /\ exitCode = 0
        /\ cpu < CpuLimit
        /\ mem # "oomKill"
        /\ TotalProduced <= Limit

\* TLE is never given to a task that has used less than its CPU time while its
\* wall timer was still running.
TimeLimitIsEarned ==
    result = "TLE" => cpu >= CpuLimit \/ now >= deadline

\* watchExecution leaves a task running only when containerd failed to start,
\* watch or kill it; in particular a failed metrics read or an expired context
\* does not leave it running.
NoTaskLeftRunning ==
    (Returned /\ proc = "running") => faults \cap {"start", "exit", "kill", "stuck"} # {}

\* An error means that containerd failed or that the context of the call had
\* ended: no race between the exit, the limits, the kill and the copiers turns an
\* execution into an error.
ErrorsComeFromFaults ==
    result = "error" => faults # {} \/ now >= CtxDeadline

\* watchExecution returns, even if the program never exits.
EventuallyReturns == <>Returned

\* OLE, OK and TLE are each given only to a task that earned them.
VerdictIsEarned == OutputLimitIsExact /\ AcceptedIsClean /\ TimeLimitIsEarned
=============================================================================
