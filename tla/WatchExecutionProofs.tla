------------------------ MODULE WatchExecutionProofs ------------------------
(***************************************************************************)
(* The properties of OutputLimiter for every limit and every slice size,   *)
(* and those of WatchExecution, whose copiers take its steps, for all      *)
(* limits, deadlines and sets of faults.                                   *)
(*                                                                         *)
(* Each of the limiter's properties fails to be inductive alone: that a    *)
(* Write is charged what it keeps needs granted <= request, that a         *)
(* discarded Write leaves the budget exact needs "marked means the limit   *)
(* is behind us", and that in turn needs the same fact of the Write still  *)
(* in progress.  LimiterInv is their conjunction with these links.         *)
(*                                                                         *)
(* Nothing a verdict claims about output, time or faults is a fact about   *)
(* the step that returns it: it was established earlier, at another place  *)
(* of the watcher, while the program, the copiers and the clock moved on.  *)
(* WatchInv carries those facts: what each place knows of the process and  *)
(* of the exit channel (PlaceOK), why a limit was taken to be exceeded     *)
(* (ReasonOK), that the metrics of an exited task are final (MetricsOK),   *)
(* which failure explains an error (FaultOK), and LimiterInv.              *)
(***************************************************************************)
EXTENDS WatchExecution, TLAPS

\* A Write in progress holds no more than it asked for, and if it was cut short
\* the program has written more than the limit.
GrantOK ==
    \A w \in Writers :
        /\ granted[w] <= request[w]
        /\ Short(w) => Total(sent) > Limit
        /\ overflowed[w] => /\ Total(sent) > Limit
                            /\ request[w] = 0

\* Once the program has written more than the limit, a writer is marked or is
\* about to be.
CutIsNoticed ==
    Total(sent) > Limit => \E w \in Writers : overflowed[w] \/ Short(w)

SignalOK == signalled <=> \E w \in Writers : overflowed[w]

LimiterInv ==
    /\ LimiterTypeOK
    /\ SharedBudget
    /\ ExactCapture
    /\ UnmarkedStreamIsWhole
    /\ GrantOK
    /\ CutIsNoticed
    /\ SignalOK

USE LimitAssumption, MaxWriteAssumption, MaxSentAssumption DEF Writers

\* What reserve returns: between nothing and what was asked for, never past the
\* limit, and short of the request only when the budget is then exhausted.
LEMMA ReserveBounds ==
    ASSUME NEW n \in Nat, used \in 0..Limit
    PROVE  /\ reserve(n) \in Nat
           /\ reserve(n) <= n
           /\ used + reserve(n) = Least(used + n, Limit)
BY DEF reserve, Least

\* newOutputLimiter starts within the limit.
LEMMA LimiterInitOK == LimiterInit => LimiterInv
<1> SUFFICES ASSUME LimiterInit PROVE LimiterInv
  OBVIOUS
<1>1. LimiterTypeOK
  <2>1. overflowed \in [Writers -> BOOLEAN] /\ signalled \in BOOLEAN
    BY Zenon DEF LimiterInit
  <2>2. used \in 0..Limit
    BY SMT DEF LimiterInit
  <2>3. /\ buf \in [Writers -> Nat]
        /\ request \in [Writers -> Nat]
        /\ granted \in [Writers -> Nat]
        /\ sent \in [Writers -> Nat]
    BY SMT DEF LimiterInit
  <2> QED
    BY <2>1, <2>2, <2>3 DEF LimiterTypeOK
<1>2. Total(sent) = 0 /\ Total(buf) = 0 /\ Total(granted) = 0
  BY DEF LimiterInit, Total
<1>3. SharedBudget /\ ExactCapture
  BY <1>2 DEF LimiterInit, SharedBudget, ExactCapture, Least
<1>4. UnmarkedStreamIsWhole /\ GrantOK /\ CutIsNoticed /\ SignalOK
  BY <1>2 DEF LimiterInit, UnmarkedStreamIsWhole, GrantOK, CutIsNoticed, SignalOK, Short
<1> QED
  BY <1>1, <1>3, <1>4 DEF LimiterInv

\* reserve charges what it grants, and grants at most what is left.
LEMMA ReserveKeepsInv ==
    ASSUME LimiterInv, NEW w \in Writers, NEW n \in 1..MaxWrite, Reserve(w, n)
    PROVE  LimiterInv'
<1> DEFINE g == reserve(n)
<1>1. /\ g \in Nat
      /\ g <= n
      /\ used + g = Least(used + n, Limit)
  BY ReserveBounds DEF LimiterInv, LimiterTypeOK
<1>2. LimiterTypeOK'
  BY <1>1 DEF LimiterInv, LimiterTypeOK, Reserve, Least
<1> HIDE DEF g
<1>3. SharedBudget'
  BY <1>1 DEF LimiterInv, LimiterTypeOK, SharedBudget, Reserve, Idle, Total, GrantOK, g, Least
<1>4. ExactCapture'
  BY <1>1 DEF LimiterInv, LimiterTypeOK, ExactCapture, Reserve, Total, g, Least
<1>5. UnmarkedStreamIsWhole'
  BY <1>1 DEF LimiterInv, LimiterTypeOK, UnmarkedStreamIsWhole, Reserve, Idle
<1>6. GrantOK'
  BY <1>1 DEF LimiterInv, LimiterTypeOK, GrantOK, ExactCapture, Reserve, Short, Total, Least, g
<1>7. CutIsNoticed'
  BY <1>1 DEF LimiterInv, LimiterTypeOK, CutIsNoticed, ExactCapture, Reserve, Idle, Short, Total, Least, g, GrantOK
<1>8. SignalOK'
  BY DEF LimiterInv, SignalOK, Reserve
<1> QED
  BY <1>2, <1>3, <1>4, <1>5, <1>6, <1>7, <1>8 DEF LimiterInv

\* The rest of a Write appends what was granted and marks a short grant.
LEMMA CommitKeepsInv ==
    ASSUME LimiterInv, NEW w \in Writers, Commit(w)
    PROVE  LimiterInv'
<1>1. LimiterTypeOK'
  BY DEF LimiterInv, LimiterTypeOK, Commit, Short
<1>2. SharedBudget'
  BY DEF LimiterInv, LimiterTypeOK, SharedBudget, Commit, Total
<1>3. ExactCapture'
  BY DEF LimiterInv, LimiterTypeOK, ExactCapture, Commit, Total
<1>4. UnmarkedStreamIsWhole'
  <2> SUFFICES ASSUME NEW v \in Writers, ~overflowed'[v]
               PROVE  buf'[v] + request'[v] = sent'[v]
    BY DEF UnmarkedStreamIsWhole
  <2>0. ~overflowed[v] /\ (v = w => ~Short(w))
    BY Zenon DEF LimiterInv, LimiterTypeOK, Commit
  <2>1. ~overflowed[v] /\ (v = w => granted[w] = request[w])
    BY <2>0 DEF LimiterInv, LimiterTypeOK, GrantOK, Short
  <2>2. buf[v] + request[v] = sent[v]
    BY <2>1 DEF LimiterInv, UnmarkedStreamIsWhole
  <2> QED
    BY <2>1, <2>2 DEF LimiterInv, LimiterTypeOK, Commit
<1>5. GrantOK'
  BY DEF LimiterInv, LimiterTypeOK, GrantOK, Commit, Short, Total
<1>6. CutIsNoticed'
  BY DEF LimiterInv, LimiterTypeOK, CutIsNoticed, Commit, Short, Total
<1>7. SignalOK'
  BY DEF LimiterInv, LimiterTypeOK, SignalOK, Commit
<1> QED
  BY <1>1, <1>2, <1>3, <1>4, <1>5, <1>6, <1>7 DEF LimiterInv

\* A Write on an overflowed writer is charged nothing and keeps nothing.
LEMMA DiscardKeepsInv ==
    ASSUME LimiterInv, NEW w \in Writers, NEW n \in 1..MaxWrite, Discard(w, n)
    PROVE  LimiterInv'
<1>1. LimiterTypeOK' /\ SharedBudget' /\ SignalOK'
  BY DEF LimiterInv, LimiterTypeOK, SharedBudget, SignalOK, Discard
<1>2. ExactCapture' /\ GrantOK'
  BY DEF LimiterInv, LimiterTypeOK, ExactCapture, GrantOK, Discard, Total, Least, Short
<1>3. UnmarkedStreamIsWhole' /\ CutIsNoticed'
  BY DEF LimiterInv, LimiterTypeOK, UnmarkedStreamIsWhole, CutIsNoticed, Discard, Total, Short
<1> QED
  BY <1>1, <1>2, <1>3 DEF LimiterInv

\* Every step of the limiter keeps its invariant.
LEMMA LimiterStepOK == LimiterInv /\ [LimiterNext]_limiterVars => LimiterInv'
<1> SUFFICES ASSUME LimiterInv, [LimiterNext]_limiterVars
             PROVE  LimiterInv'
  OBVIOUS
<1>1. CASE UNCHANGED limiterVars
  BY <1>1 DEF limiterVars, LimiterInv, LimiterTypeOK, SharedBudget, ExactCapture,
     UnmarkedStreamIsWhole, GrantOK, CutIsNoticed, SignalOK, Total, Short
<1>2. CASE LimiterNext
  BY <1>2, ReserveKeepsInv, CommitKeepsInv, DiscardKeepsInv DEF LimiterNext
<1> QED
  BY <1>1, <1>2

\* So it holds throughout.
LEMMA LimiterInvariance == LimiterSpec => []LimiterInv
BY LimiterInitOK, LimiterStepOK, PTL DEF LimiterSpec

\* The limiter's state is well typed and the charge never passes the limit
\* (outputLimiter.reserve and limitedWriter.Write).
THEOREM LimiterTypeCorrect == LimiterSpec => []LimiterTypeOK
BY LimiterInvariance, PTL DEF LimiterInv

\* The buffers of the two streams together never exceed the shared limit, and
\* every byte charged is in a buffer or about to be (limitedWriter.Write).
THEOREM BudgetIsShared == LimiterSpec => []SharedBudget
BY LimiterInvariance, PTL DEF LimiterInv

\* What is charged is exactly what the program has written, up to the limit
\* (outputLimiter.reserve grants every byte that is left).
THEOREM CaptureIsExact == LimiterSpec => []ExactCapture
BY LimiterInvariance, PTL DEF LimiterInv

\* The overflow marks and the closed channel say exactly that the program wrote
\* more than the limit (limitedWriter.Write, outputLimiter.signal).
THEOREM OverflowEvidence == LimiterSpec => []OverflowIsExact
<1>1. LimiterInv => OverflowIsExact
  BY DEF LimiterInv, LimiterTypeOK, OverflowIsExact, SignalOK, GrantOK, CutIsNoticed, Short, Idle
<1> QED
  BY <1>1, LimiterInvariance, PTL

\* A stream without an overflow mark has lost no byte (limitedWriter.Write).
THEOREM UnmarkedIsWhole == LimiterSpec => []UnmarkedStreamIsWhole
BY LimiterInvariance, PTL DEF LimiterInv

HIDE DEF Writers

-----------------------------------------------------------------------------
\* An error has a failure of containerd or the end of the context behind it.
Excused == faults # {} \/ CtxDone

PlaceOK ==
    /\ pc = "start" => proc = "created" /\ now <= MaxDelay
    /\ pc \notin {"start", "returned"} => proc # "created"
    /\ Returned <=> result # "none"
    /\ pc \in {"start", "select", "exited"} => reason = "none" /\ ~evErr
    /\ pc = "collect" => reason \in {"wall", "output"}
    /\ pc \in {"kill", "reap"} => reason # "none" \/ evErr
    /\ pc \in {"exited", "drain", "cancelled"} => proc = "exited"
    /\ pc = "drain" => ~evErr
    /\ exitCh = "status" => proc = "exited"
    /\ killed => /\ pc \in {"reap", "drain", "cancelled", "returned"}
                 /\ reason # "none" \/ evErr

ReasonOK ==
    /\ reason = "cpu" => cpu >= CpuLimit
    /\ reason = "wall" => now >= deadline
    /\ reason = "output" => signalled

\* The process has exited, so its CPU time and its memory events are final.
MetricsOK == (pc = "drain" /\ reason = "none") => metrics = Sample

\* Until the watcher has taken the exit, only a broken wait closes the channel.
FaultOK ==
    /\ evErr => Excused
    /\ pc = "cancelled" => Excused
    /\ (exitCh \in {"failed", "closed"} /\ pc \in {"start", "select", "collect", "kill", "reap"})
         => "exit" \in faults
    /\ (pc = "reap" /\ proc = "running") => "stuck" \in faults

\* What holds of a watchExecution that has returned.
ReturnOK ==
    /\ VerdictSeesAllOutput
    /\ VerdictIsEarned
    /\ NoTaskLeftRunning
    /\ ErrorsComeFromFaults

WatchInv ==
    /\ TypeOK
    /\ LimiterInv
    /\ PlaceOK
    /\ ReasonOK
    /\ MetricsOK
    /\ FaultOK
    /\ ReturnOK

USE TimeAssumption, FaultAssumption DEF Returned, CtxDone, Excused

-----------------------------------------------------------------------------
\* The limiter's steps, as taken here.

\* The two streams of a task.
LEMMA TheWriters == Writers = {"stdout", "stderr"}
BY DEF Writers

\* A step that leaves the limiter alone keeps its invariant.
LEMMA LimiterStill ==
    ASSUME LimiterInv, UNCHANGED limiterVars
    PROVE  LimiterInv' /\ LimiterTypeOK'
<1>1. LimiterInv'
  BY LimiterStepOK
<1> QED
  BY <1>1 DEF LimiterInv

\* The invariant holds when the task is started.
LEMMA WatchInitOK == Init => WatchInv
<1> SUFFICES ASSUME Init PROVE WatchInv
  OBVIOUS
<1>1. LimiterInv
  BY TheWriters, LimiterInitOK DEF Init
<1>2. TypeOK
  <2>1. LimiterTypeOK
    BY <1>1, TheWriters DEF LimiterInv
  <2>2. /\ pipe \in [Writers -> Nat]
        /\ cpu \in 0..now /\ now \in 0..MaxTime /\ deadline \in 0..MaxTime
        /\ metrics \in Metrics
    BY DEF Init, Metrics, NoMetrics
  <2>3. killed \in BOOLEAN /\ tick \in BOOLEAN /\ evErr \in BOOLEAN
    BY DEF Init
  <2> QED
    BY <2>1, <2>2, <2>3 DEF Init, TypeOK, Reasons, Verdicts, KilledCode
<1>3. PlaceOK /\ ReasonOK /\ MetricsOK /\ FaultOK
  BY DEF Init, PlaceOK, ReasonOK, MetricsOK, FaultOK
<1>4. ReturnOK
  BY DEF Init, ReturnOK, VerdictSeesAllOutput, VerdictIsEarned, OutputLimitIsExact,
         AcceptedIsClean, TimeLimitIsEarned, NoTaskLeftRunning, ErrorsComeFromFaults,
         Judged, Verdicts
<1> QED
  BY <1>1, <1>2, <1>3, <1>4 DEF WatchInv

\* Before watchExecution returns there is nothing to show of its result.
LEMMA NotReturned ==
    ASSUME PlaceOK', pc' # "returned"
    PROVE  ReturnOK'
BY DEF PlaceOK, ReturnOK, VerdictSeesAllOutput, VerdictIsEarned, OutputLimitIsExact,
       AcceptedIsClean, TimeLimitIsEarned, NoTaskLeftRunning, ErrorsComeFromFaults,
       Judged, Verdicts

-----------------------------------------------------------------------------
\* The environment.

\* The program, the clock and the delivery of its exit keep it.
LEMMA EnvironmentKeepsInv ==
    ASSUME WatchInv,
           \/ Tick \/ DeliverExit \/ ExitChannelFails
           \/ \E w \in Writers, n \in 1..MaxWrite : ProgramWrite(w, n)
           \/ \E code \in {0, 1}, events \in {"none", "oom", "oomKill"} :
                ProgramExit(code, events)
    PROVE  WatchInv'
<1> USE DEF WatchInv, TypeOK, PlaceOK, ReasonOK, MetricsOK, FaultOK, Sample, Tick, DeliverExit,
            ExitChannelFails, ProgramWrite, ProgramExit, timeVars, procVars, watchVars
<1>1. LimiterInv' /\ LimiterTypeOK'
  BY LimiterStill
<1>2. TypeOK'
  <2>1. pipe' \in [Writers -> Nat]
    OBVIOUS
  <2>2. cpu' \in 0..now' /\ now' \in 0..MaxTime /\ deadline' \in 0..MaxTime
    OBVIOUS
  <2>3. killed' \in BOOLEAN /\ tick' \in BOOLEAN /\ evErr' \in BOOLEAN
    OBVIOUS
  <2>4. exitCode' \in {0, 1, KilledCode} /\ mem' \in {"none", "oom", "oomKill"}
    OBVIOUS
  <2>5. faults' \subseteq FaultKinds
    BY DEF FaultKinds
  <2> QED
    BY <1>1, <2>1, <2>2, <2>3, <2>4, <2>5
<1>3. PlaceOK' /\ ReasonOK' /\ MetricsOK'
  BY DEF limiterVars
<1>4. FaultOK'
  OBVIOUS
<1>5. ReturnOK'
  BY <1>3, NotReturned
<1> QED
  BY <1>1, <1>2, <1>3, <1>4, <1>5

\* The two copiers keep it.
LEMMA CopierKeepsInv ==
    ASSUME WatchInv, NEW w \in Writers,
           CopierCommit(w) \/ \E n \in 1..MaxWrite : CopierWrite(w, n)
    PROVE  WatchInv'
<1> USE DEF WatchInv, procVars, timeVars, watchVars
<1>1. LimiterInv'
  <2>1. CASE CopierCommit(w)
    BY <2>1, TheWriters, CommitKeepsInv DEF CopierCommit
  <2>2. CASE \E n \in 1..MaxWrite : CopierWrite(w, n)
    <3>1. PICK n \in 1..MaxWrite : Write(w, n)
      BY <2>2, TheWriters DEF CopierWrite
    <3> QED
      BY <3>1, TheWriters, ReserveKeepsInv, DiscardKeepsInv DEF Write
  <2> QED
    BY <2>1, <2>2
<1>2. LimiterTypeOK'
  BY <1>1 DEF LimiterInv, LimiterTypeOK, Writers
<1>3. UNCHANGED <<procVars, exitCh, timeVars, watchVars, faults>> /\ pc # "returned"
  BY DEF CopierCommit, CopierWrite
<1>4. pipe' \in [Writers -> Nat]
  BY DEF CopierCommit, CopierWrite, TypeOK
<1>5. TypeOK'
  BY <1>2, <1>3, <1>4 DEF TypeOK
<1>6. signalled => signalled'
  BY DEF CopierCommit, CopierWrite, Commit, Write, Reserve, Discard
<1>7. PlaceOK' /\ ReasonOK' /\ MetricsOK' /\ FaultOK'
  BY <1>3, <1>6 DEF PlaceOK, ReasonOK, MetricsOK, FaultOK, Sample
<1>8. ReturnOK'
  BY <1>3, <1>7, NotReturned
<1> QED
  BY <1>1, <1>5, <1>7, <1>8

-----------------------------------------------------------------------------
\* The watcher.

\* So do the start, every arm of the select, and the steps that stop the task.
LEMMA SelectKeepsInv ==
    ASSUME WatchInv,
           \/ StartTask
           \/ SelectCpuTick \/ SelectOutputLimit \/ SelectWallDeadline \/ SelectCtxDone
           \/ CollectBeforeKill \/ Kill \/ CancelOutput
    PROVE  WatchInv'
<1> USE DEF WatchInv, StartTask, SelectCpuTick, SelectOutputLimit, SelectWallDeadline,
            SelectCtxDone, CollectBeforeKill, Kill, CancelOutput,
            MetricsRead, MetricsFail, MetricsFaults, WallExpired, Sample,
            timeVars, procVars, watchVars
<1>1. LimiterInv' /\ LimiterTypeOK'
  BY LimiterStill
<1>2. TypeOK'
  <2> USE DEF TypeOK
  <2>1. cpu' \in 0..now' /\ now' \in 0..MaxTime /\ deadline' \in 0..MaxTime
    BY DEF PlaceOK
  <2>2. killed' \in BOOLEAN /\ tick' \in BOOLEAN /\ evErr' \in BOOLEAN
    OBVIOUS
  <2>3. metrics' \in Metrics
    BY DEF Metrics
  <2>4. faults' \subseteq FaultKinds
    BY DEF FaultKinds
  <2>5. /\ pipe' \in [Writers -> Nat]
        /\ proc' \in {"created", "running", "exited"}
        /\ exitCode' \in {0, 1, KilledCode} /\ mem' \in {"none", "oom", "oomKill"}
        /\ reason' \in Reasons
    BY DEF Reasons
  <2> QED
    BY <1>1, <2>1, <2>2, <2>3, <2>4, <2>5
<1>3. PlaceOK'
  BY DEF PlaceOK, TypeOK
<1>4. ReasonOK' /\ MetricsOK'
  BY DEF PlaceOK, ReasonOK, MetricsOK, limiterVars, TypeOK
<1>5. FaultOK'
  BY DEF PlaceOK, FaultOK, TypeOK
<1>6. ReturnOK'
  BY <1>3, NotReturned
<1> QED
  BY <1>1, <1>2, <1>3, <1>4, <1>5, <1>6

\* What is to be shown when the result is an error.
LEMMA ErrorIsReturned ==
    ASSUME result' = "error",
           Excused',
           proc' = "running" => faults' \cap {"start", "exit", "kill", "stuck"} # {}
    PROVE  ReturnOK'
BY DEF ReturnOK, VerdictSeesAllOutput, VerdictIsEarned, OutputLimitIsExact, AcceptedIsClean,
       TimeLimitIsEarned, NoTaskLeftRunning, ErrorsComeFromFaults, Judged, Verdicts

\* The steps that may end in an error.
LEMMA ErrorPathsKeepInv ==
    ASSUME WatchInv,
           \/ StartFails \/ SelectExit \/ CollectAfterExit \/ KillFails \/ Reap \/ ReapTimeout
           \/ OutputCancelled
    PROVE  WatchInv'
<1> USE DEF WatchInv, StartFails, SelectExit, CollectAfterExit, KillFails, Reap, ReapTimeout,
            OutputCancelled, Fail, KillAnswers, KillRefused,
            MetricsRead, MetricsFail, MetricsFaults, Sample, timeVars, procVars
<1>1. LimiterInv' /\ LimiterTypeOK'
  BY LimiterStill
<1>2. TypeOK'
  <2> USE DEF TypeOK
  <2>1. cpu' \in 0..now' /\ now' \in 0..MaxTime /\ deadline' \in 0..MaxTime
    OBVIOUS
  <2>2. killed' \in BOOLEAN /\ tick' \in BOOLEAN /\ evErr' \in BOOLEAN
    OBVIOUS
  <2>3. metrics' \in Metrics
    BY DEF Metrics
  <2>4. faults' \subseteq FaultKinds
    BY DEF FaultKinds
  <2>5. /\ pipe' \in [Writers -> Nat]
        /\ proc' \in {"created", "running", "exited"}
        /\ exitCode' \in {0, 1, KilledCode} /\ mem' \in {"none", "oom", "oomKill"}
        /\ exitCh' \in {"empty", "status", "failed", "closed"}
        /\ reason' \in Reasons
    OBVIOUS
  <2> QED
    BY <1>1, <2>1, <2>2, <2>3, <2>4, <2>5
<1>3. PlaceOK'
  BY DEF PlaceOK, TypeOK
<1>4. ReasonOK' /\ MetricsOK'
  BY DEF PlaceOK, ReasonOK, MetricsOK, limiterVars, TypeOK
<1>5. FaultOK'
  BY DEF PlaceOK, FaultOK, TypeOK
<1>6. ReturnOK'
  <2>1. CASE pc' # "returned"
    BY <2>1, <1>3, NotReturned
  <2>2. CASE pc' = "returned"
    <3>1. result' = "error"
      BY <2>2
    <3>2. Excused'
      BY <2>2 DEF PlaceOK, FaultOK, TypeOK
    <3>3. proc' = "running" => faults' \cap {"start", "exit", "kill", "stuck"} # {}
      BY <2>2 DEF PlaceOK, FaultOK, TypeOK
    <3> QED
      BY <3>1, <3>2, <3>3, ErrorIsReturned
  <2> QED
    BY <2>1, <2>2
<1> QED
  BY <1>1, <1>2, <1>3, <1>4, <1>5, <1>6

\* With both copiers done, the limiter's account of what was sent to it is an
\* account of what the program wrote.
LEMMA DrainedIsWhole ==
    ASSUME LimiterInv, CopiersDone, pipe \in [Writers -> Nat]
    PROVE  /\ Total(buf) = Least(TotalProduced, Limit)
           /\ \A w \in Writers : ~overflowed[w] => buf[w] = Produced(w)
           /\ signalled <=> AnyOverflowed
           /\ signalled <=> TotalProduced > Limit
<1>1. \A w \in Writers : pipe[w] = 0 /\ request[w] = 0
  BY DEF CopiersDone, Idle
<1>2. LimiterTypeOK
  BY DEF LimiterInv
<1>3. \A w \in Writers : Produced(w) = sent[w] /\ granted[w] = 0
  BY <1>1, <1>2, TheWriters DEF Produced, LimiterInv, LimiterTypeOK, GrantOK
<1>4. TotalProduced = Total(sent)
  BY <1>3, TheWriters DEF TotalProduced, Total
<1>5. Total(buf) = Least(TotalProduced, Limit)
  <2>1. Total(granted) = 0
    BY <1>3, TheWriters DEF Total
  <2>2. used = Total(buf) + Total(granted) /\ used = Least(Total(sent), Limit)
    BY DEF LimiterInv, SharedBudget, ExactCapture
  <2>3. Total(buf) \in Nat
    BY <1>2, TheWriters DEF LimiterTypeOK, Total
  <2>4. Total(buf) = Total(buf)
    BY DEF Total
  <2> QED
    BY <1>4, <2>1, <2>2, <2>3, <2>4 DEF Least
<1>6. \A w \in Writers : ~overflowed[w] => buf[w] = Produced(w)
  BY <1>1, <1>2, <1>3, TheWriters DEF LimiterInv, LimiterTypeOK, UnmarkedStreamIsWhole
<1>7. signalled <=> AnyOverflowed
  BY TheWriters DEF LimiterInv, SignalOK, AnyOverflowed
<1>8. signalled <=> TotalProduced > Limit
  <2>1. signalled => Total(sent) > Limit
    BY TheWriters DEF LimiterInv, SignalOK, GrantOK
  <2>2. \A w \in Writers : ~Short(w)
    BY <1>1, <1>3 DEF Short
  <2>3. Total(sent) > Limit => signalled
    BY <2>2, TheWriters DEF LimiterInv, SignalOK, CutIsNoticed
  <2> QED
    BY <1>4, <2>1, <2>3
<1> QED
  BY <1>5, <1>6, <1>7, <1>8

\* So does buildVerdict.
LEMMA VerdictKeepsInv ==
    ASSUME WatchInv, ReturnVerdict
    PROVE  WatchInv'
<1> USE DEF WatchInv, ReturnVerdict, timeVars, procVars
<1> DEFINE v == buildVerdict(reason, AnyOverflowed, OutcomeCode, metrics)
<1>0. result' = v /\ v \in Verdicts
  BY DEF buildVerdict, Verdicts
<1>1. LimiterInv' /\ LimiterTypeOK'
  BY LimiterStill
<1>2. TypeOK'
  BY <1>0, <1>1 DEF TypeOK
<1>3. PlaceOK' /\ ReasonOK' /\ MetricsOK' /\ FaultOK'
  BY <1>0 DEF PlaceOK, ReasonOK, MetricsOK, FaultOK, limiterVars, Verdicts
<1>4. /\ Total(buf) = Least(TotalProduced, Limit)
      /\ \A w \in Writers : ~overflowed[w] => buf[w] = Produced(w)
      /\ signalled <=> AnyOverflowed
      /\ signalled <=> TotalProduced > Limit
  BY DrainedIsWhole DEF TypeOK
<1>5. /\ UNCHANGED <<TotalProduced, Total(buf), Least(TotalProduced, Limit)>>
      /\ \A w \in Writers : UNCHANGED <<overflowed[w], buf[w], Produced(w)>>
  BY DEF limiterVars, TotalProduced, Produced, Total, Least
<1>6. VerdictSeesAllOutput'
  BY <1>4, <1>5 DEF VerdictSeesAllOutput
<1>7. OutputLimitIsExact'
  BY <1>0, <1>4, <1>5 DEF OutputLimitIsExact, buildVerdict, OutputExceeded, ReasonOK
<1>8. AcceptedIsClean'
  <2> SUFFICES ASSUME v = "OK"
               PROVE  /\ proc = "exited" /\ ~killed /\ exitCode = 0
                      /\ cpu < CpuLimit
                      /\ mem # "oomKill"
                      /\ TotalProduced <= Limit
    BY <1>0, <1>5 DEF AcceptedIsClean
  <2>1. /\ reason = "none" /\ ~AnyOverflowed /\ exitCode = 0
        /\ ~MemoryExceeded(OutcomeCode, metrics) /\ ~CpuTimeExceeded(metrics)
    BY DEF buildVerdict, OutputExceeded, OutcomeCode, TypeOK, Reasons
  <2>2. metrics.cpu = cpu /\ metrics.mem = mem /\ ~killed /\ proc = "exited"
    BY <2>1 DEF MetricsOK, Sample, PlaceOK
  <2>3. TotalProduced \in Nat
    BY TheWriters DEF TotalProduced, Produced, LimiterInv, LimiterTypeOK, TypeOK
  <2> QED
    BY <1>4, <2>1, <2>2, <2>3 DEF MemoryExceeded, CpuTimeExceeded, TypeOK
<1>9. TimeLimitIsEarned'
  <2> SUFFICES ASSUME v = "TLE" PROVE cpu >= CpuLimit \/ now >= deadline
    BY <1>0 DEF TimeLimitIsEarned
  <2>1. CASE reason \in {"cpu", "wall"}
    BY <2>1 DEF ReasonOK
  <2>2. CASE reason \notin {"cpu", "wall"}
    <3>1. reason = "none" /\ CpuTimeExceeded(metrics)
      BY <2>2 DEF buildVerdict, OutputExceeded, TypeOK, Reasons
    <3> QED
      BY <3>1 DEF MetricsOK, Sample, CpuTimeExceeded
  <2> QED
    BY <2>1, <2>2
<1>10. NoTaskLeftRunning' /\ ErrorsComeFromFaults'
  BY <1>0 DEF NoTaskLeftRunning, ErrorsComeFromFaults, PlaceOK, Verdicts
<1> QED
  BY <1>1, <1>2, <1>3, <1>6, <1>7, <1>8, <1>9, <1>10 DEF ReturnOK, VerdictIsEarned

\* Whoever called watchExecution changes none of its state.
LEMMA StutterKeepsInv ==
    ASSUME WatchInv, UNCHANGED vars
    PROVE  WatchInv'
<1> USE DEF WatchInv, vars, timeVars, procVars, watchVars
<1>1. LimiterInv' /\ LimiterTypeOK'
  BY LimiterStill
<1>2. TypeOK'
  BY <1>1 DEF TypeOK
<1>3. PlaceOK' /\ ReasonOK' /\ MetricsOK' /\ FaultOK'
  BY DEF PlaceOK, ReasonOK, MetricsOK, FaultOK, limiterVars, Sample
<1>4. ReturnOK'
  BY DEF ReturnOK, VerdictSeesAllOutput, VerdictIsEarned, OutputLimitIsExact, AcceptedIsClean,
         TimeLimitIsEarned, NoTaskLeftRunning, ErrorsComeFromFaults, Judged, limiterVars,
         TotalProduced, Produced, Total, Least
<1> QED
  BY <1>1, <1>2, <1>3, <1>4

\* Every step keeps it.
LEMMA WatchStepOK == WatchInv /\ [Next]_vars => WatchInv'
<1> SUFFICES ASSUME WatchInv, [Next]_vars PROVE WatchInv'
  OBVIOUS
<1>1. CASE \/ StartTask \/ SelectCpuTick \/ SelectOutputLimit \/ SelectWallDeadline
           \/ SelectCtxDone \/ CollectBeforeKill \/ Kill \/ CancelOutput
  BY <1>1, SelectKeepsInv
<1>2. CASE \/ StartFails \/ SelectExit \/ CollectAfterExit \/ KillFails \/ Reap \/ ReapTimeout
           \/ OutputCancelled
  BY <1>2, ErrorPathsKeepInv
<1>3. CASE ReturnVerdict
  BY <1>3, VerdictKeepsInv
<1>4. CASE \E w \in Writers : CopierCommit(w) \/ \E n \in 1..MaxWrite : CopierWrite(w, n)
  BY <1>4, CopierKeepsInv
<1>5. CASE \/ Tick \/ DeliverExit \/ ExitChannelFails
           \/ \E w \in Writers, n \in 1..MaxWrite : ProgramWrite(w, n)
           \/ \E code \in {0, 1}, events \in {"none", "oom", "oomKill"} :
                ProgramExit(code, events)
  BY <1>5, EnvironmentKeepsInv
<1>6. CASE Terminated \/ UNCHANGED vars
  BY <1>6, StutterKeepsInv DEF Terminated
<1> QED
  BY <1>1, <1>2, <1>3, <1>4, <1>5, <1>6 DEF Next, Watcher

\* So it holds throughout.
LEMMA WatchInvariance == Spec => []WatchInv
BY WatchInitOK, WatchStepOK, PTL DEF Spec

-----------------------------------------------------------------------------
\* The watcher and the copiers use the limiter only through Write.

OutputOK == TotalProduced <= MaxSent

\* No step lets the program write more than the bound MaxSent.
LEMMA OutputStepOK == WatchInv /\ OutputOK /\ [Next]_vars => OutputOK'
<1> SUFFICES ASSUME WatchInv, OutputOK, [Next]_vars PROVE OutputOK'
  OBVIOUS
<1> USE TheWriters DEF OutputOK, TotalProduced, Produced
<1>0. sent \in [Writers -> Nat] /\ pipe \in [Writers -> Nat]
  BY DEF WatchInv, LimiterInv, LimiterTypeOK, TypeOK
<1>1. CASE \E w \in Writers, n \in 1..MaxWrite : ProgramWrite(w, n)
  BY <1>0, <1>1 DEF ProgramWrite, limiterVars
<1>2. CASE \E w \in Writers, n \in 1..MaxWrite : CopierWrite(w, n)
  <2>1. PICK w \in Writers, n \in 1..MaxWrite : CopierWrite(w, n)
    BY <1>2
  <2>2. /\ sent' = [sent EXCEPT ![w] = @ + n]
        /\ pipe' = [pipe EXCEPT ![w] = @ - n]
    BY <2>1 DEF CopierWrite, Write, Reserve, Discard
  <2> QED
    BY <1>0, <2>2
<1>3. CASE \E w \in Writers : CopierCommit(w)
  BY <1>3 DEF CopierCommit, Commit
<1>4. CASE UNCHANGED <<sent, pipe>>
  BY <1>4
<1>5. \/ \E w \in Writers, n \in 1..MaxWrite : ProgramWrite(w, n) \/ CopierWrite(w, n)
      \/ \E w \in Writers : CopierCommit(w)
      \/ UNCHANGED <<sent, pipe>>
  BY DEF Next, Watcher, Terminated, vars, limiterVars, StartTask, StartFails, SelectExit,
         SelectCpuTick, SelectOutputLimit, SelectWallDeadline, SelectCtxDone,
         CollectAfterExit, CollectBeforeKill, Kill, KillFails, Reap, ReapTimeout,
         ReturnVerdict, CancelOutput, OutputCancelled, ProgramExit, Tick, DeliverExit,
         ExitChannelFails
<1> QED
  BY <1>1, <1>2, <1>3, <1>4, <1>5

\* A watched execution drives the output limiter as OutputLimiter says a limiter
\* is driven, so all that is proved of the limiter alone holds of it here
\* (newExecutionIO hands the two limitedWriters to the copiers and to nobody else).
THEOREM WatchImplementsLimiter == Spec => LimiterSpec
<1>1. Init => LimiterInit /\ OutputOK
  <2> SUFFICES ASSUME Init PROVE OutputOK
    BY DEF Init
  <2>1. \A w \in {"stdout", "stderr"} : sent[w] = 0 /\ pipe[w] = 0
    BY DEF Init, LimiterInit, Writers
  <2> QED
    BY <2>1 DEF OutputOK, TotalProduced, Produced
<1>2. WatchInv /\ OutputOK /\ [Next]_vars => [LimiterNext]_(limiterVars)
  <2> SUFFICES ASSUME WatchInv, OutputOK, [Next]_vars
               PROVE  LimiterNext \/ UNCHANGED limiterVars
    BY DEF limiterVars
  <2>1. sent \in [Writers -> Nat] /\ pipe \in [Writers -> Nat] /\ Writers = Writers
    BY TheWriters DEF WatchInv, LimiterInv, LimiterTypeOK, TypeOK, Writers
  <2>2. CASE \E w \in Writers, n \in 1..MaxWrite : CopierWrite(w, n)
    <3>1. PICK w \in Writers, n \in 1..MaxWrite : CopierWrite(w, n)
      BY <2>2
    <3>2. sent[w] + n <= MaxSent
      BY <2>1, <3>1, TheWriters DEF CopierWrite, OutputOK, TotalProduced, Produced
    <3> QED
      BY <2>1, <3>1, <3>2 DEF CopierWrite, Write, LimiterNext
  <2>3. CASE \E w \in Writers : CopierCommit(w)
    BY <2>1, <2>3 DEF CopierCommit, LimiterNext
  <2>4. \/ \E w \in Writers, n \in 1..MaxWrite : CopierWrite(w, n)
        \/ \E w \in Writers : CopierCommit(w)
        \/ UNCHANGED limiterVars
    BY DEF Next, Watcher, Terminated, vars, StartTask, StartFails, SelectExit,
           SelectCpuTick, SelectOutputLimit, SelectWallDeadline, SelectCtxDone,
           CollectAfterExit, CollectBeforeKill, Kill, KillFails, Reap, ReapTimeout,
           ReturnVerdict, CancelOutput, OutputCancelled, ProgramExit, ProgramWrite, Tick,
           DeliverExit, ExitChannelFails
  <2> QED
    BY <2>2, <2>3, <2>4
<1> QED
  BY <1>1, <1>2, WatchInvariance, OutputStepOK, PTL DEF Spec, LimiterSpec

\* The state of a watched execution is well typed: the CPU time of a task never
\* passes the clock and a wall deadline is within it (watchExecution).
THEOREM WatchTypeCorrect == Spec => []TypeOK
BY WatchInvariance, PTL DEF WatchInv

\* For every limit, a verdict is given on the whole output, although the exit of
\* the task does not join its copiers (waitForOutput, limitedWriter).
THEOREM VerdictsSeeAllOutput == Spec => []VerdictSeesAllOutput
BY WatchInvariance, PTL DEF WatchInv, ReturnOK

\* For every limit and in every race of the select, OLE, OK and TLE are given
\* only to an execution that earned them (waitForTask, buildVerdict).
THEOREM VerdictsAreEarned == Spec => []VerdictIsEarned
BY WatchInvariance, PTL DEF WatchInv, ReturnOK

\* Whatever set of calls containerd fails, only a failure to start, watch or kill
\* a task leaves it running (watchExecution, stopTask).
THEOREM TasksAreStopped == Spec => []NoTaskLeftRunning
BY WatchInvariance, PTL DEF WatchInv, ReturnOK

\* No race turns an execution into an error: behind each error there is a failure
\* of containerd or the end of the context (watchExecution).
THEOREM ErrorsAreExcused == Spec => []ErrorsComeFromFaults
BY WatchInvariance, PTL DEF WatchInv, ReturnOK
=============================================================================
