----------------------------- MODULE Semaphore -----------------------------
(***************************************************************************)
(* golang.org/x/sync/semaphore.Weighted with weight 1, as the engine uses  *)
(* it for container slots (execution.go) and judge slots                   *)
(* (judge_service.go).  The library is external; these operators state     *)
(* what its methods do to a semaphore value                                *)
(*     [held |-> the processes that own a token,                           *)
(*      waiters |-> the processes queued for one, oldest first].           *)
(* A process in held that is still inside Acquire has been granted its     *)
(* token but has not noticed yet.                                          *)
(***************************************************************************)
EXTENDS Integers, Sequences, FiniteSets, SequencesExt

SemEmpty == [held |-> {}, waiters |-> <<>>]

\* The processes between Acquire and Release, or giving up: they own a token or
\* have a place in the queue.
Queued(s) == {s.waiters[i] : i \in 1..Len(s.waiters)}
Members(s) == s.held \cup Queued(s)

\* notifyWaiters: grant tokens to the oldest waiters while any are left.
SemNotify(s, size) ==
    LET free == size - Cardinality(s.held)
        k == IF free <= Len(s.waiters) THEN free ELSE Len(s.waiters)
    IN [held |-> s.held \cup {s.waiters[i] : i \in 1..k},
        waiters |-> SubSeq(s.waiters, k + 1, Len(s.waiters))]

\* Acquire takes a token without queueing.
SemFree(s, size) == Cardinality(s.held) < size /\ s.waiters = <<>>
SemTake(s, p) == [held |-> s.held \cup {p}, waiters |-> s.waiters]
SemQueue(s, p) == [held |-> s.held, waiters |-> Append(s.waiters, p)]

\* Release, once by each process of ps.
SemReleaseAll(s, ps, size) == SemNotify([held |-> s.held \ ps, waiters |-> s.waiters], size)
SemRelease(s, p, size) == SemReleaseAll(s, {p}, size)

\* Acquire gives up: a token granted meanwhile is put back, else the waiter's
\* element is taken out of the list.
SemPlace(s, p) == CHOOSE i \in 1..Len(s.waiters) : s.waiters[i] = p
SemAbandon(s, p, size) ==
    IF p \in s.held THEN SemRelease(s, p, size)
    ELSE SemNotify([held |-> s.held, waiters |-> RemoveAt(s.waiters, SemPlace(s, p))], size)
=============================================================================
