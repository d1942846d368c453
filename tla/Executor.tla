------------------------------ MODULE Executor ------------------------------
(***************************************************************************)
(* The executor and the sandbox under it (internal/execution,              *)
(* internal/sandbox/containerd.go Execute and executeInContainer,          *)
(* cpu_pool.go): what an execution acquires, in which order, and how its   *)
(* deferred calls give it back on every path.                              *)
(*                                                                         *)
(*   slot (semaphore) -> workspace -> CPU -> container -> task             *)
(*                                                                         *)
(* The engine runs many executions at once; each is a process of this      *)
(* module.  watchExecution is one step here, with the outcomes that        *)
(* WatchExecution allows it: after a verdict the task is stopped, after an *)
(* error it may still be running.  Any call to the host or to containerd   *)
(* may fail if Faults says so.                                             *)
(***************************************************************************)
EXTENDS Integers, FiniteSets, Semaphore

CONSTANTS
    Execs,          \* the executions
    Compiles,       \* those started by Compile; the others by Run
    Expiring,       \* those whose context has a deadline
    CPUs,           \* the CPU ids of the pool
    MaxConcurrent,  \* MAX_CONCURRENT_CONTAINERS
    Faults,         \* which kinds of call may fail
    NoCPU

\* "lost": a create call takes effect in containerd but reports an error.
FaultKinds == {"workspace", "prepare", "create", "lost", "watch", "cleanup", "artifact"}

ASSUME ExecAssumption ==
    /\ Compiles \subseteq Execs
    /\ Expiring \subseteq Execs
    /\ IsFiniteSet(Execs)
\* newCPUPoolFromIDs refuses an empty set
ASSUME CPUAssumption == CPUs # {} /\ IsFiniteSet(CPUs) /\ NoCPU \notin CPUs
\* NewExecutor refuses a limit that is not positive
ASSUME MaxAssumption == MaxConcurrent \in Nat \ {0}
ASSUME FaultAssumption == Faults \subseteq FaultKinds

VARIABLES
    pc,       \* where each execution is
    ctxDone,  \* the executions whose context has ended
    sem,      \* executor.sem
    ws,       \* the executions whose workspace directory exists
    pool,     \* cpuPool: the CPUs in the channel
    cpu,      \* the CPU an execution has taken, NoCPU if none
    pin,      \* the CPU its container is pinned to
    ctr,      \* the executions whose container exists
    task,     \* "none", "created", "running" or "stopped"
    out,      \* the result so far: "none", "err", "OK" or "bad" (another verdict)
    artifact, \* the executions that return an artifact
    leaks     \* history: pairs of an execution and a resource of it that exists
              \* although its cleanup failed or was never registered

vars == <<pc, ctxDone, sem, ws, pool, cpu, pin, ctr, task, out, artifact, leaks>>

Places == {"idle", "semwait", "slot", "prepare", "cpu", "cpuwait", "container", "task",
           "wait", "watch", "deleteTask", "deleteContainer", "releaseCPU", "collect",
           "cleanup", "release", "returned"}
Resources == {"workspace", "task", "container"}

TypeOK ==
    /\ pc \in [Execs -> Places]
    /\ ctxDone \subseteq Execs
    /\ sem.held \subseteq Execs /\ Cardinality(sem.held) <= MaxConcurrent
    /\ sem.waiters \in Seq(Execs)
    /\ ws \subseteq Execs
    /\ pool \subseteq CPUs
    /\ cpu \in [Execs -> CPUs \cup {NoCPU}]
    /\ pin \in [Execs -> CPUs \cup {NoCPU}]
    /\ ctr \subseteq Execs
    /\ task \in [Execs -> {"none", "created", "running", "stopped"}]
    /\ out \in [Execs -> {"none", "err", "OK", "bad"}]
    /\ artifact \subseteq Execs
    /\ leaks \subseteq Execs \X Resources

Init ==
    /\ pc = [e \in Execs |-> "idle"]
    /\ ctxDone = {}
    /\ sem = SemEmpty
    /\ ws = {}
    /\ pool = CPUs
    /\ cpu = [e \in Execs |-> NoCPU]
    /\ pin = [e \in Execs |-> NoCPU]
    /\ ctr = {}
    /\ task = [e \in Execs |-> "none"]
    /\ out = [e \in Execs |-> "none"]
    /\ artifact = {}
    /\ leaks = {}

-----------------------------------------------------------------------------

Goto(e, there) == pc' = [pc EXCEPT ![e] = there]
At(e, here) == pc[e] = here
CanFail(kind) == kind \in Faults

\* An error is returned from here: the deferred calls that start at `there` run.
FailTo(e, there) ==
    /\ Goto(e, there)
    /\ out' = [out EXCEPT ![e] = "err"]

\* The context of e reaches its deadline.
CtxExpires(e) ==
    /\ e \in Expiring \ ctxDone
    /\ ~At(e, "returned")
    /\ ctxDone' = ctxDone \cup {e}
    /\ UNCHANGED <<pc, sem, ws, pool, cpu, pin, ctr, task, out, artifact, leaks>>

\* e.sem.Acquire(ctx, 1) is called.
SemAcquire(e) ==
    /\ At(e, "idle")
    /\ \/ /\ e \in ctxDone
          /\ FailTo(e, "returned")
          /\ UNCHANGED sem
       \/ /\ e \notin ctxDone
          /\ SemFree(sem, MaxConcurrent)
          /\ sem' = SemTake(sem, e)
          /\ Goto(e, "slot")
          /\ UNCHANGED out
       \/ /\ e \notin ctxDone
          /\ ~SemFree(sem, MaxConcurrent)
          /\ sem' = SemQueue(sem, e)
          /\ Goto(e, "semwait")
          /\ UNCHANGED out
    /\ UNCHANGED <<ctxDone, ws, pool, cpu, pin, ctr, task, artifact, leaks>>

\* ... its wait ends with a token,
SemGranted(e) ==
    /\ At(e, "semwait")
    /\ e \in sem.held
    /\ e \notin ctxDone
    /\ Goto(e, "slot")
    /\ UNCHANGED <<ctxDone, sem, ws, pool, cpu, pin, ctr, task, out, artifact, leaks>>

\* ... or with the context, which wins even over a token granted meanwhile.
SemCancelled(e) ==
    /\ At(e, "semwait")
    /\ e \in ctxDone
    /\ sem' = SemAbandon(sem, e, MaxConcurrent)
    /\ FailTo(e, "returned")
    /\ UNCHANGED <<ctxDone, ws, pool, cpu, pin, ctr, task, artifact, leaks>>

\* newWorkspace; when the root cannot be opened the directory is removed again,
\* if that succeeds.
NewWorkspace(e) ==
    /\ At(e, "slot")
    /\ \/ /\ ws' = ws \cup {e}
          /\ Goto(e, "prepare")
          /\ UNCHANGED out
          /\ UNCHANGED leaks
       \/ /\ CanFail("workspace")
          /\ FailTo(e, "release")
          /\ \/ UNCHANGED <<ws, leaks>>
             \/ /\ CanFail("cleanup")
                /\ ws' = ws \cup {e}
                /\ leaks' = leaks \cup {<<e, "workspace">>}
    /\ UNCHANGED <<ctxDone, sem, pool, cpu, pin, ctr, task, artifact>>

\* writeFiles, containerd.New and ensureImage; the last two are given ctx.
Prepare(e) ==
    /\ At(e, "prepare")
    /\ \/ /\ Goto(e, "cpu")
          /\ UNCHANGED out
       \/ /\ CanFail("prepare") \/ e \in ctxDone
          /\ FailTo(e, "cleanup")
    /\ UNCHANGED <<ctxDone, sem, ws, pool, cpu, pin, ctr, task, artifact, leaks>>

\* Mutant: the release is deferred before the error of acquire is looked at.
MutantNoCpuTaken == "releaseCPU"
\* where a failed cpuPool.acquire leads
NoCpuTaken == "cleanup"

\* cpuPool.acquire looks at the context first,
CpuEnter(e) ==
    /\ At(e, "cpu")
    /\ IF e \in ctxDone THEN FailTo(e, NoCpuTaken) ELSE Goto(e, "cpuwait") /\ UNCHANGED out
    /\ UNCHANGED <<ctxDone, sem, ws, pool, cpu, pin, ctr, task, artifact, leaks>>

\* Mutant: the CPU that was read is left in the pool.
MutantTake(c) == pool
Take(c) == pool \ {c}

\* ... then receives a CPU
CpuTake(e) ==
    /\ At(e, "cpuwait")
    /\ \E c \in pool :
        /\ pool' = Take(c)
        /\ cpu' = [cpu EXCEPT ![e] = c]
    /\ Goto(e, "container")
    /\ UNCHANGED <<ctxDone, sem, ws, pin, ctr, task, out, artifact, leaks>>

\* ... or gives up.
CpuCancelled(e) ==
    /\ At(e, "cpuwait")
    /\ e \in ctxDone
    /\ FailTo(e, NoCpuTaken)
    /\ UNCHANGED <<ctxDone, sem, ws, pool, cpu, pin, ctr, task, artifact, leaks>>

\* Mutant: the CPU is given back only by an execution that got its container.
MutantNoContainer == "cleanup"
\* where a failed NewContainer leads: to the deferred release of the CPU
NoContainer == "releaseCPU"

\* client.NewContainer with the spec that pins it to the CPU
NewContainer(e) ==
    /\ At(e, "container")
    /\ \/ /\ e \notin ctxDone
          /\ ctr' = ctr \cup {e}
          /\ pin' = [pin EXCEPT ![e] = cpu[e]]
          /\ Goto(e, "task")
          /\ UNCHANGED <<out, leaks>>
       \/ /\ CanFail("create") \/ e \in ctxDone
          /\ FailTo(e, NoContainer)
          /\ UNCHANGED <<ctr, pin, leaks>>
       \/ /\ CanFail("lost")
          /\ FailTo(e, NoContainer)
          /\ ctr' = ctr \cup {e}
          /\ pin' = [pin EXCEPT ![e] = cpu[e]]
          /\ leaks' = leaks \cup {<<e, "container">>}
    /\ UNCHANGED <<ctxDone, sem, ws, pool, cpu, task, artifact>>

\* container.NewTask with the limited writers
NewTask(e) ==
    /\ At(e, "task")
    /\ \/ /\ e \notin ctxDone
          /\ task' = [task EXCEPT ![e] = "created"]
          /\ Goto(e, "wait")
          /\ UNCHANGED <<out, leaks>>
       \/ /\ CanFail("create") \/ e \in ctxDone
          /\ FailTo(e, "deleteContainer")
          /\ UNCHANGED <<task, leaks>>
       \/ /\ CanFail("lost")
          /\ FailTo(e, "deleteContainer")
          /\ task' = [task EXCEPT ![e] = "created"]
          /\ leaks' = leaks \cup {<<e, "task">>}
    /\ UNCHANGED <<ctxDone, sem, ws, pool, cpu, pin, ctr, artifact>>

\* Mutant: the task's cleanup is deferred after task.Wait instead of before it.
MutantNoWatch == "deleteContainer"
\* where a failed task.Wait or task.Start leads
NoWatch == "deleteTask"

\* task.Wait, with a context that does not end, then watchExecution up to and
\* including task.Start, which leaves the task running even if it reports an
\* error (the error is WatchReturns).
SetupWait(e) ==
    /\ At(e, "wait")
    /\ \/ /\ task' = [task EXCEPT ![e] = "running"]
          /\ Goto(e, "watch")
          /\ UNCHANGED out
       \/ /\ CanFail("watch") \/ e \in ctxDone
          /\ FailTo(e, NoWatch)
          /\ UNCHANGED task
    /\ UNCHANGED <<ctxDone, sem, ws, pool, cpu, pin, ctr, artifact, leaks>>

\* watchExecution returns: a verdict on a stopped task, or an error.
WatchReturns(e) ==
    /\ At(e, "watch")
    /\ Goto(e, "deleteTask")
    /\ \/ /\ e \notin ctxDone
          /\ out' \in {[out EXCEPT ![e] = v] : v \in {"OK", "bad"}}
          /\ task' = [task EXCEPT ![e] = "stopped"]
       \/ /\ CanFail("watch") \/ e \in ctxDone
          /\ out' = [out EXCEPT ![e] = "err"]
          /\ task' \in {[task EXCEPT ![e] = t] : t \in {"stopped", "running"}}
    /\ UNCHANGED <<ctxDone, sem, ws, pool, cpu, pin, ctr, artifact, leaks>>

\* cleanupResource of the task: Delete kills the process first.  The context is
\* a fresh one, so only containerd itself can make it fail; a failure is logged
\* and nothing else.
DeleteTask(e) ==
    /\ At(e, "deleteTask")
    /\ Goto(e, "deleteContainer")
    /\ \/ /\ task' = [task EXCEPT ![e] = "none"]
          /\ UNCHANGED leaks
       \/ /\ CanFail("cleanup")
          /\ leaks' = leaks \cup {<<e, "task">>}
          /\ UNCHANGED task
    /\ UNCHANGED <<ctxDone, sem, ws, pool, cpu, pin, ctr, out, artifact>>

\* cleanupResource of the container and its snapshot; containerd refuses to
\* delete a container that still has a task.
DeleteContainer(e) ==
    /\ At(e, "deleteContainer")
    /\ Goto(e, "releaseCPU")
    /\ \/ /\ task[e] = "none"
          /\ ctr' = ctr \ {e}
          /\ UNCHANGED leaks
       \/ /\ CanFail("cleanup") \/ task[e] # "none"
          /\ leaks' = leaks \cup {<<e, "container">>}
          /\ UNCHANGED ctr
    /\ UNCHANGED <<ctxDone, sem, ws, pool, cpu, pin, task, out, artifact>>

\* Where execute goes with the sandbox's answer: only a compile that succeeded
\* has an artifact to collect.
AfterSandbox(e) == IF e \in Compiles /\ out[e] = "OK" THEN "collect" ELSE "cleanup"

\* defer s.cpus.release(cpuID); then Sandbox.Execute returns to execute.
ReleaseCPU(e) ==
    /\ At(e, "releaseCPU")
    /\ pool' = pool \cup {cpu[e]}
    /\ cpu' = [cpu EXCEPT ![e] = NoCPU]
    /\ Goto(e, AfterSandbox(e))
    /\ UNCHANGED <<ctxDone, sem, ws, pin, ctr, task, out, artifact, leaks>>

\* collectArtifact: the file; or a log that says why there is none (not a
\* regular file, or too large); or an error.
CollectArtifact(e) ==
    /\ At(e, "collect")
    /\ \/ /\ artifact' = artifact \cup {e}
          /\ Goto(e, "cleanup")
          /\ UNCHANGED out
       \/ /\ Goto(e, "cleanup")
          /\ UNCHANGED <<artifact, out>>
       \/ /\ CanFail("artifact")
          /\ FailTo(e, "cleanup")
          /\ UNCHANGED artifact
    /\ UNCHANGED <<ctxDone, sem, ws, pool, cpu, pin, ctr, task, leaks>>

\* Mutant: a failed workspace cleanup is logged like the other cleanups.
MutantJoined(e) == out[e]
\* what errors.Join makes of the result when cleanup fails
Joined(e) == "err"

\* The deferred ws.cleanup: its failure becomes the error of the execution, and
\* Compile and Run drop the result they had.
CleanupWorkspace(e) ==
    /\ At(e, "cleanup")
    /\ Goto(e, "release")
    /\ \/ /\ ws' = ws \ {e}
          /\ UNCHANGED <<out, artifact, leaks>>
       \/ /\ CanFail("cleanup")
          /\ out' = [out EXCEPT ![e] = Joined(e)]
          /\ artifact' = artifact \ {e}
          /\ leaks' = leaks \cup {<<e, "workspace">>}
          /\ UNCHANGED ws
    /\ UNCHANGED <<ctxDone, sem, pool, cpu, pin, ctr, task>>

\* The deferred e.sem.Release(1), the last thing execute does.
SemReleased(e) ==
    /\ At(e, "release")
    /\ sem' = SemRelease(sem, e, MaxConcurrent)
    /\ Goto(e, "returned")
    /\ UNCHANGED <<ctxDone, ws, pool, cpu, pin, ctr, task, out, artifact, leaks>>

Step(e) ==
    \/ SemAcquire(e) \/ SemGranted(e) \/ SemCancelled(e)
    \/ NewWorkspace(e) \/ Prepare(e)
    \/ CpuEnter(e) \/ CpuTake(e) \/ CpuCancelled(e)
    \/ NewContainer(e) \/ NewTask(e) \/ SetupWait(e) \/ WatchReturns(e)
    \/ DeleteTask(e) \/ DeleteContainer(e) \/ ReleaseCPU(e)
    \/ CollectArtifact(e) \/ CleanupWorkspace(e) \/ SemReleased(e)

AllReturned == \A e \in Execs : At(e, "returned")
Terminated == AllReturned /\ UNCHANGED vars

Next == (\E e \in Execs : Step(e) \/ CtxExpires(e)) \/ Terminated

Spec == Init /\ [][Next]_vars

\* Every goroutine that can take a step takes it, and watchExecution returns
\* (WatchExecution!EventuallyReturns).  Contexts need not expire.
FairSpec == Spec /\ \A e \in Execs : WF_vars(Step(e))

-----------------------------------------------------------------------------

Leaked(e, resource) == <<e, resource>> \in leaks

\* The executions between the acquire and the deferred release of a CPU.
Pinned ==
    {e \in Execs : pc[e] \in {"container", "task", "wait", "watch", "deleteTask",
                              "deleteContainer", "releaseCPU"}}

\* No CPU is lost and none is lent twice: on every path through
\* executeInContainer the pool and the CPUs of the executions inside it
\* partition the set the pool was made from.
CpusConserved ==
    /\ pool \cup {cpu[e] : e \in Pinned} = CPUs
    /\ \A e \in Pinned : cpu[e] \notin pool
    /\ \A d, e \in Pinned : cpu[d] = cpu[e] => d = e

\* A measured task has its CPU to itself: two tasks that run on one CPU can only
\* be if containerd failed to delete one of them when its execution ended.
MeasuredAlone ==
    \A d, e \in Execs :
        (d # e /\ task[d] = "running" /\ task[e] = "running" /\ pin[d] = pin[e])
            => Leaked(d, "task") \/ Leaked(e, "task")

\* The directory a task has mounted exists for as long as the task may use it.
WorkspaceOutlivesTask ==
    \A e \in Execs : task[e] # "none" => e \in ws \/ Leaked(e, "task")

\* An execution that has returned holds nothing, unless a cleanup failed: and a
\* workspace that could not be removed is reported to the caller.
ReturnReleases ==
    \A e \in Execs : At(e, "returned") =>
        /\ e \notin sem.held /\ cpu[e] = NoCPU
        /\ e \in ctr => Leaked(e, "container")
        /\ task[e] # "none" => Leaked(e, "task")
        /\ e \in ws => Leaked(e, "workspace") /\ out[e] = "err"

\* Every execution returns.
EveryExecutionReturns == <>AllReturned

\* MAX_CONCURRENT_CONTAINERS is "the largest number of containers running at the
\* same time" (README.md): no more tasks than that are running.
RunningContainersBounded ==
    Cardinality({e \in Execs : task[e] = "running"}) <= MaxConcurrent
=============================================================================
