--------------------------- MODULE ExecutorProofs ---------------------------
(***************************************************************************)
(* CpusConserved, MeasuredAlone and WorkspaceOutlivesTask of Executor, for *)
(* any number of executions, slots and CPUs and any set of faults.         *)
(*                                                                         *)
(* CpusConserved is inductive once the program counters are typed.  The    *)
(* other two speak of tasks, and a task's place in the program is what     *)
(* ties it to its CPU and its workspace: PlaceOK says at which places an   *)
(* execution has a workspace, a container pinned to the CPU it holds, and  *)
(* a task that is not a leak.                                              *)
(***************************************************************************)
EXTENDS Executor, SharedLemmas, TLAPS

PinnedPlaces == {"container", "task", "wait", "watch", "deleteTask", "deleteContainer",
                 "releaseCPU"}
TaskPlaces == {"wait", "watch", "deleteTask"}
PinPlaces == TaskPlaces \cup {"task"}
WorkspacePlaces == PinnedPlaces \cup {"prepare", "cpu", "cpuwait", "collect", "cleanup"}

ExecTypes ==
    /\ pc \in [Execs -> Places]
    /\ pool \subseteq CPUs
    /\ cpu \in [Execs -> CPUs \cup {NoCPU}]
    /\ pin \in [Execs -> CPUs \cup {NoCPU}]
    /\ task \in [Execs -> {"none", "created", "running", "stopped"}]

\* CpusConserved, CPU by CPU and execution by execution.
CpuOK ==
    /\ \A c \in CPUs : c \in pool \/ \E x \in Execs : pc[x] \in PinnedPlaces /\ cpu[x] = c
    /\ \A x \in Execs : pc[x] \in PinnedPlaces => cpu[x] \in CPUs \ pool
    /\ \A x, y \in Execs :
        (pc[x] \in PinnedPlaces /\ pc[y] \in PinnedPlaces /\ cpu[x] = cpu[y]) => x = y

PlaceOK ==
    \A x \in Execs :
        /\ pc[x] \in WorkspacePlaces => x \in ws
        /\ pc[x] \in PinPlaces => pin[x] = cpu[x]
        /\ (task[x] # "none" /\ ~Leaked(x, "task")) => pc[x] \in TaskPlaces

ExecInv == ExecTypes /\ CpuOK /\ PlaceOK

\* The per-execution form gives CpusConserved as Executor states it.
LEMMA CpuOKConserves == ExecTypes /\ CpuOK => CpusConserved
BY DEF ExecTypes, CpuOK, CpusConserved, Pinned, PinnedPlaces

\* newExecutor: a full pool, and no execution anywhere yet.
LEMMA ExecInitOK == Init => ExecInv
<1> SUFFICES ASSUME Init PROVE ExecInv
  OBVIOUS
<1>1. ExecTypes
  BY DEF Init, ExecTypes, Places
<1>2. CpuOK
  BY DEF Init, CpuOK, PinnedPlaces
<1>3. PlaceOK
  BY DEF Init, PlaceOK, WorkspacePlaces, PinnedPlaces, PinPlaces, TaskPlaces
<1> QED
  BY <1>1, <1>2, <1>3 DEF ExecInv

\* A step that moves one execution, takes no CPU and returns none.
LEMMA MoveKeepsCpuOK ==
    ASSUME ExecInv, NEW e \in Execs, NEW there \in Places,
           Goto(e, there), UNCHANGED <<pool, cpu>>,
           pc[e] \in PinnedPlaces <=> there \in PinnedPlaces
    PROVE  CpuOK'
<1>1. \A x \in Execs : pc'[x] \in PinnedPlaces <=> pc[x] \in PinnedPlaces
  BY DEF ExecInv, ExecTypes, Goto
<1> QED
  BY <1>1 DEF ExecInv, CpuOK

\* The same for a failure.
LEMMA FailKeepsCpuOK ==
    ASSUME ExecInv, NEW e \in Execs, NEW there \in Places,
           FailTo(e, there), UNCHANGED <<pool, cpu>>,
           pc[e] \in PinnedPlaces <=> there \in PinnedPlaces
    PROVE  CpuOK'
BY MoveKeepsCpuOK DEF FailTo

USE DEF At, Leaked

\* Before a CPU is asked for.
LEMMA EarlyStepsKeepInv ==
    ASSUME ExecInv, NEW e \in Execs,
           \/ CtxExpires(e) \/ SemAcquire(e) \/ SemGranted(e) \/ SemCancelled(e)
           \/ NewWorkspace(e) \/ Prepare(e) \/ CpuEnter(e) \/ CpuCancelled(e)
    PROVE  ExecInv'
<1>1. CASE CtxExpires(e)
  BY <1>1 DEF CtxExpires, ExecInv, ExecTypes, CpuOK, PlaceOK
<1>2. CASE \/ SemAcquire(e) \/ SemGranted(e) \/ SemCancelled(e)
           \/ Prepare(e) \/ CpuEnter(e) \/ CpuCancelled(e)
  <2>1. PICK there \in Places :
           /\ Goto(e, there)
           /\ there \in {"returned", "slot", "semwait", "cpu", "cleanup", "cpuwait"}
           /\ pc[e] \in {"idle", "semwait", "prepare", "cpu", "cpuwait"}
           /\ there \in WorkspacePlaces => pc[e] \in WorkspacePlaces
    BY <1>2 DEF SemAcquire, SemGranted, SemCancelled, Prepare, CpuEnter, CpuCancelled,
                FailTo, NoCpuTaken, Places, WorkspacePlaces, PinnedPlaces
  <2>2. UNCHANGED <<ws, pool, cpu, pin, task, leaks>>
    BY <1>2 DEF SemAcquire, SemGranted, SemCancelled, Prepare, CpuEnter, CpuCancelled
  <2>3. ExecTypes'
    BY <2>1, <2>2 DEF ExecInv, ExecTypes, Goto
  <2>4. CpuOK'
    BY <2>1, <2>2, MoveKeepsCpuOK DEF PinnedPlaces
  <2>5. PlaceOK'
    BY <2>1, <2>2 DEF ExecInv, ExecTypes, PlaceOK, Goto, PinPlaces, TaskPlaces
  <2> QED
    BY <2>3, <2>4, <2>5 DEF ExecInv
<1>3. CASE NewWorkspace(e)
  <2>1. PICK there \in Places :
           /\ Goto(e, there)
           /\ there \in {"prepare", "release"}
           /\ there = "prepare" => e \in ws'
    BY <1>3 DEF NewWorkspace, FailTo, Places
  <2>2. /\ UNCHANGED <<pool, cpu, pin, task>>
        /\ ws \subseteq ws'
        /\ \A x \in Execs : <<x, "task">> \in leaks' <=> <<x, "task">> \in leaks
        /\ pc[e] = "slot"
    BY <1>3 DEF NewWorkspace
  <2>3. ExecTypes'
    BY <2>1, <2>2 DEF ExecInv, ExecTypes, Goto
  <2>4. CpuOK'
    BY <2>1, <2>2, MoveKeepsCpuOK DEF PinnedPlaces
  <2>5. PlaceOK'
    BY <2>1, <2>2 DEF ExecInv, ExecTypes, PlaceOK, Goto, PinPlaces, TaskPlaces,
                      WorkspacePlaces, PinnedPlaces
  <2> QED
    BY <2>3, <2>4, <2>5 DEF ExecInv
<1> QED
  BY <1>1, <1>2, <1>3

\* cpuPool.acquire: the CPU leaves the pool and belongs to e alone.
LEMMA CpuTakeKeepsInv ==
    ASSUME ExecInv, NEW e \in Execs, CpuTake(e)
    PROVE  ExecInv'
<1>1. PICK c \in pool : pool' = pool \ {c} /\ cpu' = [cpu EXCEPT ![e] = c]
  BY DEF CpuTake, Take
<1>2. /\ pc[e] = "cpuwait"
      /\ pc' = [pc EXCEPT ![e] = "container"]
      /\ UNCHANGED <<ws, pin, task, leaks>>
  BY DEF CpuTake, Goto
<1>3. ExecTypes'
  BY <1>1, <1>2 DEF ExecInv, ExecTypes, Places
<1>4. CpuOK'
  BY <1>1, <1>2 DEF ExecInv, ExecTypes, CpuOK, PinnedPlaces
<1>5. PlaceOK'
  BY <1>1, <1>2 DEF ExecInv, ExecTypes, PlaceOK, WorkspacePlaces, PinnedPlaces, PinPlaces, TaskPlaces
<1> QED
  BY <1>3, <1>4, <1>5 DEF ExecInv

\* cpuPool.release: it goes back and e is no longer counted.
LEMMA ReleaseCPUKeepsInv ==
    ASSUME ExecInv, NEW e \in Execs, ReleaseCPU(e)
    PROVE  ExecInv'
<1>1. PICK there \in {"collect", "cleanup"} : pc' = [pc EXCEPT ![e] = there]
  BY DEF ReleaseCPU, AfterSandbox, Goto
<1>2. /\ pc[e] = "releaseCPU"
      /\ pool' = pool \cup {cpu[e]}
      /\ cpu' = [cpu EXCEPT ![e] = NoCPU]
      /\ UNCHANGED <<ws, pin, task, leaks>>
  BY DEF ReleaseCPU
<1>3. ExecTypes'
  BY <1>1, <1>2 DEF ExecInv, ExecTypes, Places, CpuOK, PinnedPlaces
<1>4. CpuOK'
  BY <1>1, <1>2 DEF ExecInv, ExecTypes, CpuOK, PinnedPlaces
<1>5. PlaceOK'
  BY <1>1, <1>2 DEF ExecInv, ExecTypes, PlaceOK, WorkspacePlaces, PinnedPlaces, PinPlaces, TaskPlaces
<1> QED
  BY <1>3, <1>4, <1>5 DEF ExecInv

\* While e is pinned: container and task come, run and go.
LEMMA PinnedStepsKeepInv ==
    ASSUME ExecInv, NEW e \in Execs,
           \/ NewContainer(e) \/ NewTask(e) \/ SetupWait(e) \/ WatchReturns(e)
           \/ DeleteTask(e) \/ DeleteContainer(e)
    PROVE  ExecInv'
<1>1. PICK there \in PinnedPlaces :
         /\ Goto(e, there)
         /\ there \in PinPlaces => pc[e] \in PinPlaces \cup {"container"}
    BY DEF NewContainer, NewTask, SetupWait, WatchReturns, DeleteTask, DeleteContainer,
           FailTo, NoContainer, NoWatch, PinnedPlaces, PinPlaces, TaskPlaces
<1>2. /\ pc[e] \in PinnedPlaces
      /\ UNCHANGED <<ws, pool, cpu>>
      /\ leaks \subseteq leaks'
    BY DEF NewContainer, NewTask, SetupWait, WatchReturns, DeleteTask, DeleteContainer,
           PinnedPlaces
<1>3. /\ pin' = pin \/ pin' = [pin EXCEPT ![e] = cpu[e]]
      /\ there \in PinPlaces => (pc[e] = "container" => pin' = [pin EXCEPT ![e] = cpu[e]])
    BY <1>1 DEF NewContainer, NewTask, SetupWait, WatchReturns, DeleteTask, DeleteContainer,
           FailTo, NoContainer, PinPlaces, TaskPlaces, Goto, ExecInv, ExecTypes
<1>4. \E t \in {"none", "created", "running", "stopped"} :
         /\ task' = [task EXCEPT ![e] = t]
         /\ (t # "none" /\ <<e, "task">> \notin leaks') => there \in TaskPlaces
    BY <1>1 DEF NewContainer, NewTask, SetupWait, WatchReturns, DeleteTask, DeleteContainer,
           FailTo, NoContainer, NoWatch, PinPlaces, TaskPlaces, Goto, ExecInv, ExecTypes, PlaceOK
<1>5. there \in Places
  BY DEF PinnedPlaces, Places
<1>6. ExecTypes'
  BY <1>1, <1>2, <1>3, <1>4, <1>5 DEF ExecInv, ExecTypes, Goto
<1>7. CpuOK'
  BY <1>1, <1>2, <1>5, MoveKeepsCpuOK
<1>8. PlaceOK'
  <2> SUFFICES ASSUME NEW x \in Execs
               PROVE  /\ pc'[x] \in WorkspacePlaces => x \in ws'
                      /\ pc'[x] \in PinPlaces => pin'[x] = cpu'[x]
                      /\ (task'[x] # "none" /\ <<x, "task">> \notin leaks') => pc'[x] \in TaskPlaces
    BY DEF PlaceOK
  <2>1. CASE x # e
    BY <2>1, <1>1, <1>2, <1>3, <1>4 DEF ExecInv, ExecTypes, PlaceOK, Goto
  <2>2. CASE x = e
    BY <2>2, <1>1, <1>2, <1>3, <1>4 DEF ExecInv, ExecTypes, PlaceOK, Goto, WorkspacePlaces
  <2> QED
    BY <2>1, <2>2
<1> QED
  BY <1>6, <1>7, <1>8 DEF ExecInv

\* After the sandbox: artifact, workspace, slot.
LEMMA LateStepsKeepInv ==
    ASSUME ExecInv, NEW e \in Execs,
           CollectArtifact(e) \/ CleanupWorkspace(e) \/ SemReleased(e)
    PROVE  ExecInv'
<1>1. PICK there \in {"cleanup", "release", "returned"} :
         /\ Goto(e, there)
         /\ there = "cleanup" => pc[e] = "collect" /\ ws' = ws
  BY DEF CollectArtifact, CleanupWorkspace, SemReleased, FailTo
<1>2. /\ UNCHANGED <<pool, cpu, pin, task>>
      /\ pc[e] \in {"collect", "cleanup", "release"}
      /\ \A x \in Execs : <<x, "task">> \in leaks' <=> <<x, "task">> \in leaks
      /\ \A x \in Execs : x \in ws /\ x # e => x \in ws'
  BY DEF CollectArtifact, CleanupWorkspace, SemReleased
<1>3. ExecTypes'
  BY <1>1, <1>2 DEF ExecInv, ExecTypes, Goto, Places
<1>4. CpuOK'
  BY <1>1, <1>2, MoveKeepsCpuOK DEF PinnedPlaces, Places
<1>5. PlaceOK'
  BY <1>1, <1>2 DEF ExecInv, ExecTypes, PlaceOK, Goto, WorkspacePlaces, PinnedPlaces, PinPlaces, TaskPlaces
<1> QED
  BY <1>3, <1>4, <1>5 DEF ExecInv

\* Every step of every execution, and the end of its context, keeps ExecInv.
LEMMA ExecStepOK == ExecInv /\ [Next]_vars => ExecInv'
<1> SUFFICES ASSUME ExecInv, [Next]_vars
             PROVE  ExecInv'
  OBVIOUS
<1>1. CASE UNCHANGED vars
  BY <1>1 DEF vars, ExecInv, ExecTypes, CpuOK, PlaceOK
<1>2. CASE Terminated
  BY <1>1, <1>2 DEF Terminated
<1>3. ASSUME NEW e \in Execs, Step(e) \/ CtxExpires(e)
      PROVE  ExecInv'
  BY <1>3, EarlyStepsKeepInv, CpuTakeKeepsInv, ReleaseCPUKeepsInv, PinnedStepsKeepInv,
     LateStepsKeepInv DEF Step
<1> QED
  BY <1>1, <1>2, <1>3 DEF Next

\* ExecInv holds throughout.
LEMMA ExecInvariance == Spec => []ExecInv
BY ExecInitOK, ExecStepOK, PTL DEF Spec

\* No CPU of the pool is lost or lent twice on any path through
\* executeInContainer (cpuPool.acquire and release).
THEOREM CpusAreConserved == Spec => []CpusConserved
<1>1. ExecInv => CpusConserved
  BY CpuOKConserves DEF ExecInv
<1> QED
  BY <1>1, ExecInvariance, PTL

\* Two tasks run on one CPU only after containerd failed to delete one of them
\* (executeInContainer: the CPU is released after the deferred task cleanup).
THEOREM TasksAreMeasuredAlone == Spec => []MeasuredAlone
<1>1. ExecInv => MeasuredAlone
  BY DEF ExecInv, CpuOK, PlaceOK, MeasuredAlone, PinPlaces, TaskPlaces, PinnedPlaces
<1> QED
  BY <1>1, ExecInvariance, PTL

\* The workspace of an execution exists while its task does (execute removes it
\* after the sandbox has returned).
THEOREM WorkspaceIsThere == Spec => []WorkspaceOutlivesTask
<1>1. ExecInv => WorkspaceOutlivesTask
  BY DEF ExecInv, PlaceOK, WorkspaceOutlivesTask, WorkspacePlaces, PinnedPlaces, TaskPlaces
<1> QED
  BY <1>1, ExecInvariance, PTL

-----------------------------------------------------------------------------
(***************************************************************************)
(* TypeOK and ReturnReleases.  That an execution that has returned holds   *)
(* no slot is a fact about the queue: nobody may be granted a token after  *)
(* it left, so SlotOK says that the members of the semaphore are exactly   *)
(* the executions between Acquire and Release.  The rest of ReturnReleases *)
(* follows the resources down the deferred calls (GoneOK).                 *)
(***************************************************************************)

HeldPlaces == Places \ {"idle", "semwait", "returned"}
ContainerPlaces == {"task", "wait", "watch", "deleteTask", "deleteContainer"}

RestTypes ==
    /\ ctxDone \subseteq Execs
    /\ ws \subseteq Execs
    /\ ctr \subseteq Execs
    /\ out \in [Execs -> {"none", "err", "OK", "bad"}]
    /\ artifact \subseteq Execs
    /\ leaks \subseteq Execs \X Resources

SlotOK ==
    /\ SemOK(sem, Execs, MaxConcurrent)
    /\ \A e \in Execs :
        /\ e \in Members(sem) <=> pc[e] \notin {"idle", "returned"}
        /\ pc[e] \in HeldPlaces => e \in sem.held

GoneOK ==
    \A e \in Execs :
        /\ pc[e] \notin PinnedPlaces => cpu[e] = NoCPU
        /\ (e \in ctr /\ ~Leaked(e, "container")) => pc[e] \in ContainerPlaces
        /\ (e \in ws /\ pc[e] \notin WorkspacePlaces) =>
            Leaked(e, "workspace") /\ out[e] = "err"

HoldInv == RestTypes /\ SlotOK /\ GoneOK

\* At the start nobody holds, waits for or owes anything.
LEMMA HoldInitOK == Init => HoldInv
<1> SUFFICES ASSUME Init PROVE HoldInv
  OBVIOUS
<1>1. RestTypes
  BY DEF Init, RestTypes
<1>2. SlotOK
  BY SemEmptyOK, MaxAssumption DEF Init, SlotOK, HeldPlaces
<1>3. GoneOK
  BY DEF Init, GoneOK
<1> QED
  BY <1>1, <1>2, <1>3 DEF HoldInv

\* No step but the three below touches the semaphore.
LEMMA OtherStepsKeepSlotOK ==
    ASSUME ExecInv, HoldInv, NEW e \in Execs,
           \/ CtxExpires(e) \/ SemGranted(e) \/ NewWorkspace(e) \/ Prepare(e)
           \/ CpuEnter(e) \/ CpuTake(e) \/ CpuCancelled(e)
           \/ NewContainer(e) \/ NewTask(e) \/ SetupWait(e) \/ WatchReturns(e)
           \/ DeleteTask(e) \/ DeleteContainer(e) \/ ReleaseCPU(e)
           \/ CollectArtifact(e) \/ CleanupWorkspace(e)
    PROVE  SlotOK'
<1>1. UNCHANGED sem
  BY DEF CtxExpires, SemGranted, NewWorkspace, Prepare, CpuEnter, CpuTake, CpuCancelled,
         NewContainer, NewTask, SetupWait, WatchReturns, DeleteTask, DeleteContainer,
         ReleaseCPU, CollectArtifact, CleanupWorkspace
<1>2. CASE CtxExpires(e)
  BY <1>1, <1>2 DEF CtxExpires, HoldInv, SlotOK
<1>3. CASE SemGranted(e)
  BY <1>1, <1>3 DEF SemGranted, Goto, ExecInv, ExecTypes, HoldInv, SlotOK
<1>4. CASE ~CtxExpires(e) /\ ~SemGranted(e)
  <2>1. PICK there \in HeldPlaces : Goto(e, there)
    BY <1>4 DEF NewWorkspace, Prepare, CpuEnter, CpuTake, CpuCancelled,
           NewContainer, NewTask, SetupWait, WatchReturns, DeleteTask, DeleteContainer,
           ReleaseCPU, CollectArtifact, CleanupWorkspace, FailTo, NoCpuTaken, NoContainer,
           NoWatch, AfterSandbox, HeldPlaces, Places
  <2>2. pc[e] \in HeldPlaces
    BY <1>4 DEF NewWorkspace, Prepare, CpuEnter, CpuTake, CpuCancelled,
           NewContainer, NewTask, SetupWait, WatchReturns, DeleteTask, DeleteContainer,
           ReleaseCPU, CollectArtifact, CleanupWorkspace, HeldPlaces, Places
  <2> QED
    BY <1>1, <2>1, <2>2 DEF Goto, ExecInv, ExecTypes, HoldInv, SlotOK, HeldPlaces
<1> QED
  BY <1>2, <1>3, <1>4

\* Acquire, its failure, and Release.
LEMMA SemStepsKeepSlotOK ==
    ASSUME ExecInv, HoldInv, NEW e \in Execs,
           SemAcquire(e) \/ SemCancelled(e) \/ SemReleased(e)
    PROVE  SlotOK'
<1>0. MaxConcurrent \in Nat /\ SemOK(sem, Execs, MaxConcurrent)
  BY MaxAssumption DEF HoldInv, SlotOK
<1> USE DEF HoldInv, SlotOK, ExecInv, ExecTypes
<1>1. CASE SemAcquire(e)
  <2>0. pc[e] = "idle" /\ e \notin Members(sem) /\ e \notin sem.held
    BY <1>1 DEF SemAcquire, Members
  <2>1. CASE FailTo(e, "returned") /\ UNCHANGED sem
    BY <2>0, <2>1 DEF FailTo, Goto, HeldPlaces
  <2>2. CASE SemFree(sem, MaxConcurrent) /\ sem' = SemTake(sem, e) /\ Goto(e, "slot")
    <3> HIDE DEF HoldInv, SlotOK, ExecInv, ExecTypes
    <3>1. /\ SemOK(sem', Execs, MaxConcurrent)
          /\ \A x : x \in Members(sem') <=> x \in Members(sem) \/ x = e
          /\ \A x : x \in sem'.held <=> x \in sem.held \/ x = e
      BY <1>0, <2>0, <2>2, TakeOK
    <3> QED
      BY <2>0, <2>2, <3>1 DEF Goto, HoldInv, SlotOK, ExecInv, ExecTypes
  <2>3. CASE ~SemFree(sem, MaxConcurrent) /\ sem' = SemQueue(sem, e) /\ Goto(e, "semwait")
    <3> HIDE DEF HoldInv, SlotOK, ExecInv, ExecTypes
    <3>1. /\ SemOK(sem', Execs, MaxConcurrent)
          /\ \A x : x \in Members(sem') <=> x \in Members(sem) \/ x = e
          /\ sem'.held = sem.held
      BY <1>0, <2>0, <2>3, QueueOK
    <3> QED
      BY <2>0, <2>3, <3>1 DEF Goto, HeldPlaces, HoldInv, SlotOK, ExecInv, ExecTypes
  <2> QED
    BY <1>1, <2>1, <2>2, <2>3 DEF SemAcquire
<1>2. CASE SemCancelled(e)
  <2>0. pc[e] = "semwait" /\ e \in Members(sem) /\ Goto(e, "returned")
    BY <1>2 DEF SemCancelled, FailTo
  <2>1. /\ SemOK(sem', Execs, MaxConcurrent)
        /\ \A x : x \in Members(sem') <=> x \in Members(sem) /\ x # e
        /\ \A x : x \in sem.held /\ x # e => x \in sem'.held
    BY <1>0, <1>2, <2>0, AbandonOK DEF SemCancelled
  <2> QED
    BY <2>0, <2>1 DEF Goto, HeldPlaces
<1>3. CASE SemReleased(e)
  <2>0. pc[e] = "release" /\ e \in sem.held /\ Goto(e, "returned")
    BY <1>3 DEF SemReleased, HeldPlaces, Places
  <2>1. /\ SemOK(sem', Execs, MaxConcurrent)
        /\ \A x : x \in Members(sem') <=> x \in Members(sem) /\ x # e
        /\ \A x : x \in sem.held /\ x # e => x \in sem'.held
    BY <1>0, <1>3, <2>0, ReleaseOK DEF SemReleased
  <2> QED
    BY <2>0, <2>1 DEF Goto, HeldPlaces
<1> QED
  BY <1>1, <1>2, <1>3

\* The deferred calls give back what was acquired, or record a leak.
LEMMA StepsKeepGoneOK ==
    ASSUME ExecInv, HoldInv, NEW e \in Execs, Step(e) \/ CtxExpires(e)
    PROVE  RestTypes' /\ GoneOK'
<1> USE DEF HoldInv, ExecInv, ExecTypes
<1>1. CASE \/ CtxExpires(e) \/ SemAcquire(e) \/ SemGranted(e) \/ SemCancelled(e)
           \/ NewWorkspace(e) \/ Prepare(e)
  BY <1>1 DEF CtxExpires, SemAcquire, SemGranted, SemCancelled, NewWorkspace, Prepare,
              FailTo, Goto, RestTypes, GoneOK, PinnedPlaces, ContainerPlaces, WorkspacePlaces,
              Resources
<1>2. CASE CpuEnter(e) \/ CpuTake(e) \/ CpuCancelled(e) \/ ReleaseCPU(e) \/ CollectArtifact(e)
  BY <1>2 DEF CpuEnter, CpuTake, CpuCancelled, ReleaseCPU, CollectArtifact, NoCpuTaken,
              AfterSandbox, FailTo, Goto, RestTypes, GoneOK, PinnedPlaces, ContainerPlaces,
              WorkspacePlaces, PlaceOK
<1>3. CASE NewContainer(e) \/ NewTask(e) \/ SetupWait(e) \/ WatchReturns(e)
  BY <1>3 DEF NewContainer, NewTask, SetupWait, WatchReturns, NoContainer, NoWatch,
              FailTo, Goto, RestTypes, GoneOK, PinnedPlaces, ContainerPlaces, WorkspacePlaces,
              Resources
<1>4. CASE DeleteTask(e) \/ DeleteContainer(e)
  BY <1>4 DEF DeleteTask, DeleteContainer, Goto, RestTypes, GoneOK, PinnedPlaces,
              ContainerPlaces, WorkspacePlaces, Resources
<1>5. CASE CleanupWorkspace(e) \/ SemReleased(e)
  BY <1>5 DEF CleanupWorkspace, SemReleased, Joined, Goto, RestTypes, GoneOK, PinnedPlaces,
              ContainerPlaces, WorkspacePlaces, Resources
<1> QED
  BY <1>1, <1>2, <1>3, <1>4, <1>5 DEF Step

\* Every step keeps the books on what each request holds.
LEMMA HoldStepOK == ExecInv /\ HoldInv /\ [Next]_vars => HoldInv'
<1> SUFFICES ASSUME ExecInv, HoldInv, [Next]_vars PROVE HoldInv'
  OBVIOUS
<1>1. CASE UNCHANGED vars
  BY <1>1 DEF vars, HoldInv, RestTypes, SlotOK, GoneOK
<1>2. CASE Terminated
  BY <1>1, <1>2 DEF Terminated
<1>3. ASSUME NEW e \in Execs, Step(e) \/ CtxExpires(e) PROVE HoldInv'
  <2>1. SlotOK'
    BY <1>3, OtherStepsKeepSlotOK, SemStepsKeepSlotOK DEF Step
  <2> QED
    BY <1>3, <2>1, StepsKeepGoneOK DEF HoldInv
<1> QED
  BY <1>1, <1>2, <1>3 DEF Next

\* The two inductive invariants together hold throughout.
LEMMA HoldInvariance == Spec => [](ExecInv /\ HoldInv)
BY ExecInitOK, ExecStepOK, HoldInitOK, HoldStepOK, PTL DEF Spec

\* The executor's state is well typed; in particular no more slots are out than
\* MAX_CONCURRENT_CONTAINERS (executor.execute).
THEOREM ExecutorTypeCorrect == Spec => []TypeOK
<1>1. ExecInv /\ HoldInv => TypeOK
  BY DEF ExecInv, ExecTypes, HoldInv, RestTypes, SlotOK, SemOK, SemShape, TypeOK
<1> QED
  BY <1>1, HoldInvariance, PTL

\* An execution that has returned holds neither slot nor CPU, and what is left of
\* its container, task or workspace is a recorded failure of a cleanup
\* (executor.execute, Sandbox.Execute, executeInContainer and their defers).
THEOREM ReturnsRelease == Spec => []ReturnReleases
<1>1. ExecInv /\ HoldInv => ReturnReleases
  BY DEF ExecInv, PlaceOK, HoldInv, SlotOK, GoneOK, ReturnReleases, Members, PinnedPlaces,
         ContainerPlaces, WorkspacePlaces, TaskPlaces
<1> QED
  BY <1>1, HoldInvariance, PTL

\* Nobody waits for a slot while one is free (executor.execute: every Acquire is
\* met by a deferred Release, and a waiter that gives up passes its turn on).
NoSlotIdle == NoIdleToken(sem, MaxConcurrent)

\* No slot is left idle while an execution queues for one, whatever is cancelled.
THEOREM SlotsAreUsed == Spec => []NoSlotIdle
<1>1. HoldInv => NoSlotIdle
  BY DEF HoldInv, SlotOK, SemOK, NoSlotIdle
<1> QED
  BY <1>1, HoldInvariance, PTL
=============================================================================
