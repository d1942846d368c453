--------------------------- MODULE OutputLimiter ---------------------------
(***************************************************************************)
(* The byte budget of one execution (internal/sandbox/output_limiter.go).  *)
(* Two limitedWriters, one behind each output stream of a task, draw bytes *)
(* from one outputLimiter.  Each writer is driven by its own copier        *)
(* goroutine, so a Write of one stream interleaves with a Write of the     *)
(* other at the limiter's mutex: reserve is atomic, the append to the      *)
(* buffer that follows it is a later step under the writer's own mutex.    *)
(*                                                                         *)
(* Bytes are counted, not spelled out: buf[w] is the length of w's buffer. *)
(***************************************************************************)
EXTENDS Integers

CONSTANTS
    Limit,      \* outputLimiter.limit: ResourceLimits.OutputBytes
    MaxWrite,   \* bound: the largest slice one Write call is given
    MaxSent     \* bound: bytes a stream is given over the whole execution

\* A run's budget is DefaultRunOutputBytes or CompileOutputBytes, both positive;
\* zero is allowed here because reserve handles it.
ASSUME LimitAssumption == Limit \in Nat
ASSUME MaxWriteAssumption == MaxWrite \in Nat \ {0}
ASSUME MaxSentAssumption == MaxSent \in Nat

VARIABLES
    used,        \* outputLimiter.used
    signalled,   \* outputLimiter.ch has been closed
    buf,         \* limitedWriter.buf, its length, for each writer
    overflowed,  \* limitedWriter.overflowed
    request,     \* len(p) of the Write that is between reserve and return, 0 if none
    granted,     \* what reserve granted that Write
    sent         \* history: bytes handed to the writer's Write so far

limiterVars == <<used, signalled, buf, overflowed, request, granted, sent>>

Writers == {"stdout", "stderr"}

Total(f) == f["stdout"] + f["stderr"]

Least(a, b) == IF a <= b THEN a ELSE b

LimiterTypeOK ==
    /\ used \in 0..Limit
    /\ signalled \in BOOLEAN
    /\ buf \in [Writers -> Nat]
    /\ overflowed \in [Writers -> BOOLEAN]
    /\ request \in [Writers -> Nat]
    /\ granted \in [Writers -> Nat]
    /\ sent \in [Writers -> Nat]

-----------------------------------------------------------------------------

\* newOutputLimiter and two newLimitedWriter
LimiterInit ==
    /\ used = 0
    /\ signalled = FALSE
    /\ buf = [w \in Writers |-> 0]
    /\ overflowed = [w \in Writers |-> FALSE]
    /\ request = [w \in Writers |-> 0]
    /\ granted = [w \in Writers |-> 0]
    /\ sent = [w \in Writers |-> 0]

\* Mutants: all-or-nothing granting, and a remaining of one too many.
MutantAllOrNothing(n) == IF n > Limit - used THEN 0 ELSE n
MutantOffByOne(n) ==
    LET remaining == Limit - used IN
    IF remaining < 0 THEN 0 ELSE Least(n, remaining + 1)

\* What outputLimiter.reserve(n) returns in the current state.
reserve(n) ==
    LET remaining == Limit - used IN
    IF remaining <= 0 THEN 0 ELSE Least(n, remaining)

\* The writer's mutex is free.
Idle(w) == request[w] = 0

\* limitedWriter.Write up to and including its call of reserve.
Reserve(w, n) ==
    /\ Idle(w)
    /\ ~overflowed[w]
    /\ request' = [request EXCEPT ![w] = n]
    /\ granted' = [granted EXCEPT ![w] = reserve(n)]
    /\ used' = used + reserve(n)
    /\ sent' = [sent EXCEPT ![w] = @ + n]
    /\ UNCHANGED <<signalled, buf, overflowed>>

\* Mutant: only a Write that got nothing at all counts as cut short.
MutantShort(w) == request[w] > 0 /\ granted[w] = 0

\* reserve granted less than the Write asked for
Short(w) == granted[w] < request[w]

\* Mutant: the whole slice is appended, whatever was granted.
MutantCommit(w) ==
    /\ ~Idle(w)
    /\ buf' = [buf EXCEPT ![w] = @ + request[w]]
    /\ overflowed' = [overflowed EXCEPT ![w] = @ \/ Short(w)]
    /\ signalled' = (signalled \/ Short(w))
    /\ request' = [request EXCEPT ![w] = 0]
    /\ granted' = [granted EXCEPT ![w] = 0]
    /\ UNCHANGED <<used, sent>>

\* The rest of that Write: append, then mark the overflow and signal it.  A
\* reader of buf or overflowed waits for the writer's mutex and so sees all of
\* it or none of it.
Commit(w) ==
    /\ ~Idle(w)
    /\ buf' = [buf EXCEPT ![w] = @ + granted[w]]
    /\ overflowed' = [overflowed EXCEPT ![w] = @ \/ Short(w)]
    /\ signalled' = (signalled \/ Short(w))
    /\ request' = [request EXCEPT ![w] = 0]
    /\ granted' = [granted EXCEPT ![w] = 0]
    /\ UNCHANGED <<used, sent>>

\* A Write on a writer that has overflowed: claims n bytes, keeps none.
Discard(w, n) ==
    /\ Idle(w)
    /\ overflowed[w]
    /\ sent' = [sent EXCEPT ![w] = @ + n]
    /\ UNCHANGED <<used, signalled, buf, overflowed, request, granted>>

\* limitedWriter.Write(p) with len(p) = n, as its caller sees it begin.
Write(w, n) == Reserve(w, n) \/ Discard(w, n)

LimiterNext ==
    \E w \in Writers :
        \/ \E n \in 1..MaxWrite : sent[w] + n <= MaxSent /\ Reserve(w, n)
        \/ \E n \in 1..MaxWrite : sent[w] + n <= MaxSent /\ Discard(w, n)
        \/ Commit(w)

LimiterSpec == LimiterInit /\ [][LimiterNext]_limiterVars

-----------------------------------------------------------------------------

\* Every byte charged to the budget is in a buffer or about to be put there by
\* the Write that was granted it, and the two streams together never hold more
\* than the limit, however their Writes interleave.
SharedBudget ==
    /\ used = Total(buf) + Total(granted)
    /\ Total(buf) <= Limit

\* The budget is spent to the byte: what has been charged is everything the
\* program has written, up to the limit.  No Write is refused a byte that was
\* still free, so a program that writes exactly the limit keeps all of it.
ExactCapture == used = Least(Total(sent), Limit)

\* An overflow mark or the closed channel is evidence that the program did write
\* more than the limit; and once no Write is in progress the evidence is there:
\* one writer is marked and the watcher's channel is closed.
OverflowIsExact ==
    /\ signalled <=> \E w \in Writers : overflowed[w]
    /\ signalled => Total(sent) > Limit
    /\ (Total(sent) > Limit /\ \A w \in Writers : Idle(w)) => signalled

\* A stream that is not marked overflowed has lost nothing: once its Write
\* returns its buffer is everything the program wrote to it, even when the
\* other stream has used up the budget.
UnmarkedStreamIsWhole ==
    \A w \in Writers : ~overflowed[w] => buf[w] + request[w] = sent[w]
=============================================================================
