---------------------------- MODULE SharedLemmas ----------------------------
(***************************************************************************)
(* What the proofs of several components rest on.  First, induction: the    *)
(* library's induction theorems have an operator as a parameter, which the  *)
(* provers cannot instantiate, but WFMin speaks of sets, and gives a set of *)
(* numbers a least element.  So a fact about every number is stated as "the *)
(* set of the numbers that have it is all of Nat", and a recursive function *)
(* is shown to satisfy its own equation.                                    *)
(*                                                                         *)
(* Then, what the operations of Semaphore keep, for any number of processes *)
(* and any positive size.                                                   *)
(***************************************************************************)
EXTENDS Semaphore, FiniteSetTheorems, SequenceTheorems, WellFoundedInduction, TLAPS

\* A set of numbers that is not empty has a least one.
LEMMA LeastNumber ==
    ASSUME NEW T, T \subseteq Nat, T # {}
    PROVE  \E n \in T : \A m \in T : n <= m
<1> DEFINE R == OpToRel(<, Nat)
<1>1. PICK n \in T : \A m \in T : ~(<<m, n>> \in R)
  <2>1. IsWellFoundedOn(R, Nat)
    BY NatLessThanWellFounded, Zenon
  <2> HIDE DEF R
  <2> QED BY <2>1, WFMin
<1>2. \A m \in T : ~(m < n)
  BY <1>1 DEF OpToRel
<1> QED BY <1>2

\* Induction: a set that holds 0 and with every number the next holds them all.
LEMMA SetInduction ==
    ASSUME NEW T, 0 \in T, \A n \in Nat : n \in T => n + 1 \in T
    PROVE  \A n \in Nat : n \in T
<1> DEFINE B == {n \in Nat : n \notin T}
<1> SUFFICES ASSUME B # {} PROVE FALSE
  OBVIOUS
<1>1. PICK n \in B : \A m \in B : n <= m
  <2> B \subseteq Nat OBVIOUS
  <2> HIDE DEF B
  <2> QED BY LeastNumber
<1>2. n # 0 /\ n \in Nat
  OBVIOUS
<1>3. n - 1 \in Nat /\ n - 1 \notin B
  BY <1>1, <1>2
<1> QED BY <1>2, <1>3

\* The values of a recursion along 1..n that starts with base and takes st at
\* every step.
IsRun(g, base, st, n, D) ==
    /\ g \in [0..n -> D] /\ g[0] = base
    /\ \A k \in 1..n : g[k] = st[k][g[k - 1]]

\* There is such a function.
LEMMA RunExists ==
    ASSUME NEW D, NEW base \in D, NEW n \in Nat, NEW st \in [1..n -> [D -> D]]
    PROVE  \E g : IsRun(g, base, st, n, D)
<1> DEFINE T == {m \in Nat : m <= n => \E g : IsRun(g, base, st, m, D)}
<1>1. 0 \in T
  <2> DEFINE g == [k \in 0..0 |-> base]
  <2>1. IsRun(g, base, st, 0, D)
    BY DEF IsRun
  <2> HIDE DEF g
  <2> QED BY <2>1
<1>2. ASSUME NEW m \in Nat, m \in T PROVE m + 1 \in T
  <2> SUFFICES ASSUME m + 1 <= n PROVE \E g : IsRun(g, base, st, m + 1, D)
    OBVIOUS
  <2>1. PICK h : IsRun(h, base, st, m, D)
    BY <1>2
  <2> DEFINE g == [k \in 0..(m + 1) |-> IF k = m + 1 THEN st[k][h[m]] ELSE h[k]]
  <2>2. h[m] \in D /\ st[m + 1][h[m]] \in D
    BY <2>1 DEF IsRun
  <2>3. g \in [0..(m + 1) -> D] /\ g[0] = base
    BY <2>1, <2>2 DEF IsRun
  <2>4. ASSUME NEW k \in 1..(m + 1) PROVE g[k] = st[k][g[k - 1]]
    <3>1. g[k - 1] = h[k - 1]
      OBVIOUS
    <3> QED BY <3>1, <2>1 DEF IsRun
  <2>5. IsRun(g, base, st, m + 1, D)
    BY <2>3, <2>4 DEF IsRun
  <2> HIDE DEF g
  <2> QED BY <2>5
<1> HIDE DEF T
<1>3. n \in T
  BY <1>1, <1>2, SetInduction
<1> QED BY <1>3 DEF T

\* A function that meets the recursion's equation has the recursion's type.
LEMMA RunIsTyped ==
    ASSUME NEW D, NEW base \in D, NEW n \in Nat, NEW st \in [1..n -> [D -> D]], NEW F,
           F = [k \in 0..n |-> F[k]], F[0] = base,
           \A k \in 1..n : F[k - 1] \in D => F[k] = st[k][F[k - 1]]
    PROVE  IsRun(F, base, st, n, D)
<1> DEFINE T == {k \in Nat : k <= n => F[k] \in D}
<1>1. 0 \in T
  OBVIOUS
<1>2. ASSUME NEW k \in Nat, k \in T PROVE k + 1 \in T
  <2> SUFFICES ASSUME k + 1 <= n PROVE F[k + 1] \in D
    OBVIOUS
  <2>1. F[k] \in D /\ k + 1 \in 1..n
    BY <1>2
  <2> DEFINE j == k + 1
  <2>2. j \in 1..n /\ j - 1 = k
    BY <2>1
  <2> HIDE DEF j
  <2>3. F[j] = st[j][F[k]]
    BY <2>1, <2>2
  <2>4. st[j][F[k]] \in D
    BY <2>1, <2>2
  <2> QED BY <2>3, <2>4 DEF j
<1> HIDE DEF T
<1>3. \A k \in Nat : k \in T
  BY <1>1, <1>2, SetInduction
<1>4. \A k \in 0..n : F[k] \in D
  BY <1>3 DEF T
<1>5. F \in [0..n -> D]
  BY <1>4
<1>6. ASSUME NEW k \in 1..n PROVE F[k] = st[k][F[k - 1]]
  <2>1. k - 1 \in 0..n
    OBVIOUS
  <2>2. F[k - 1] \in D
    BY <2>1, <1>4
  <2> QED BY <2>2
<1> QED BY <1>5, <1>6 DEF IsRun

\* A sequence without its last element.
LEMMA WithoutLast ==
  ASSUME NEW S, NEW q \in Seq(S), q # <<>>
  PROVE  LET m == Len(q)
             t == SubSeq(q, 1, m - 1) IN
         t \in Seq(S) /\ Len(t) = m - 1 /\ \A i \in 1..m - 1 : t[i] = q[i]
<1> DEFINE m == Len(q)
<1>1. m \in Nat /\ m > 0 /\ \A i \in 1..m : q[i] \in S
  BY LenProperties, EmptySeq, ElementOfSeq
<1>2. \A i \in 1..m - 1 : q[i] \in S
  BY <1>1
<1> HIDE DEF m
<1> DEFINE t == SubSeq(q, 1, m - 1)
<1>3. /\ t \in Seq(S) /\ Len(t) = IF 1 <= m - 1 THEN (m - 1) - 1 + 1 ELSE 0
      /\ \A i \in 1..(m - 1) - 1 + 1 : t[i] = q[1 + i - 1]
  BY <1>1, <1>2, SubSeqProperties
<1> HIDE DEF t
<1>4. t \in Seq(S) /\ Len(t) = m - 1 /\ \A i \in 1..m - 1 : t[i] = q[i]
  BY <1>1, <1>3
<1> QED
  BY <1>4 DEF m, t

-----------------------------------------------------------------------------
\* No more tokens are out than there are, nobody queues twice or queues for a
\* token it has.
SemShape(s, P, size) ==
    /\ s \in [held : SUBSET P, waiters : Seq(P)]
    /\ IsFiniteSet(s.held)
    /\ Cardinality(s.held) <= size
    /\ \A i, j \in 1..Len(s.waiters) : s.waiters[i] = s.waiters[j] => i = j
    /\ \A i \in 1..Len(s.waiters) : s.waiters[i] \notin s.held

\* Nobody waits while a token is free.
NoIdleToken(s, size) == s.waiters # <<>> => Cardinality(s.held) = size

SemOK(s, P, size) == SemShape(s, P, size) /\ NoIdleToken(s, size)

\* r is the sequence q over S without its k-th element.
Past(k, i) == IF i < k THEN i ELSE i + 1
IsWithout(r, q, k, S) ==
    /\ r \in Seq(S)
    /\ Len(r) = Len(q) - 1
    /\ \A i \in 1..Len(q) - 1 :
         /\ Past(k, i) \in 1..Len(q) /\ Past(k, i) # k
         /\ r[i] = q[Past(k, i)]
    /\ \A i, j \in 1..Len(q) - 1 : Past(k, i) = Past(k, j) => i = j
    /\ \A j \in 1..Len(q) : j # k => \E i \in 1..Len(q) - 1 : j = Past(k, i)

\* RemoveAt, which takes a waiter out of a semaphore's list and an entry out of a
\* cache, removes one element and keeps the order of the others.
LEMMA RemoveAtProperties ==
    ASSUME NEW S, NEW q \in Seq(S), NEW k \in 1..Len(q)
    PROVE  IsWithout(RemoveAt(q, k), q, k, S)
<1> DEFINE n == Len(q)
           left == SubSeq(q, 1, k - 1)
           right == SubSeq(q, k + 1, n)
           r == RemoveAt(q, k)
<1>1. r = left \o right
  BY DEF RemoveAt
<1>2. n \in Nat /\ \A i \in 1..n : q[i] \in S
  BY LenProperties, ElementOfSeq
<1>3. k \in 1..n
  OBVIOUS
<1> HIDE DEF n
<1>4. /\ left \in Seq(S) /\ Len(left) = k - 1
      /\ \A i \in 1..k - 1 : left[i] = q[i]
  <2>1. \A i \in 1..k - 1 : q[i] \in S
    BY <1>2, <1>3
  <2>2. /\ left \in Seq(S) /\ Len(left) = IF 1 <= k - 1 THEN (k - 1) - 1 + 1 ELSE 0
        /\ \A i \in 1..(k - 1) - 1 + 1 : left[i] = q[1 + i - 1]
    BY <1>2, <1>3, <2>1, SubSeqProperties
  <2> QED
    BY <1>2, <1>3, <2>2
<1>5. /\ right \in Seq(S) /\ Len(right) = n - k
      /\ \A i \in 1..n - k : right[i] = q[k + i]
  <2>1. \A i \in k + 1..n : q[i] \in S
    BY <1>2, <1>3
  <2>2. /\ right \in Seq(S) /\ Len(right) = IF k + 1 <= n THEN n - (k + 1) + 1 ELSE 0
        /\ \A i \in 1..n - (k + 1) + 1 : right[i] = q[(k + 1) + i - 1]
    BY <1>2, <1>3, <2>1, SubSeqProperties
  <2> QED
    BY <1>2, <1>3, <2>2
<1> HIDE DEF left, right
<1>6. /\ r \in Seq(S) /\ Len(r) = Len(left) + Len(right)
      /\ \A i \in 1..Len(left) + Len(right) :
           r[i] = IF i <= Len(left) THEN left[i] ELSE right[i - Len(left)]
  BY <1>1, <1>4, <1>5, ConcatProperties
<1> HIDE DEF r
<1>7. Len(left) = k - 1 /\ Len(right) = n - k /\ k \in 1..n /\ n \in Nat
  BY <1>2, <1>3, <1>4, <1>5
<1>8. Len(r) = n - 1
  BY <1>6, <1>7
<1>9. ASSUME NEW i \in 1..n - 1 PROVE r[i] = q[Past(k, i)]
  <2>1. CASE i < k
    BY <1>4, <1>6, <1>7, <2>1 DEF Past
  <2>2. CASE ~(i < k)
    <3>1. /\ i \in 1..Len(left) + Len(right) /\ ~(i <= Len(left))
          /\ i - Len(left) \in 1..n - k /\ k + (i - Len(left)) = i + 1
      BY <1>7, <2>2
    <3>2. r[i] = right[i - Len(left)]
      BY <1>6, <3>1
    <3> QED
      BY <1>5, <2>2, <3>1, <3>2 DEF Past
  <2> QED
    BY <2>1, <2>2
<1>10. /\ \A i \in 1..n - 1 : Past(k, i) \in 1..n /\ Past(k, i) # k
       /\ \A i, j \in 1..n - 1 : Past(k, i) = Past(k, j) => i = j
  BY <1>7 DEF Past
<1>11. ASSUME NEW j \in 1..n, j # k PROVE \E i \in 1..n - 1 : j = Past(k, i)
  <2>1. CASE j < k
    <3>1. j \in 1..n - 1 /\ j = Past(k, j)
      BY <1>7, <2>1 DEF Past
    <3> QED
      BY <3>1
  <2>2. CASE ~(j < k)
    <3>1. j - 1 \in 1..n - 1 /\ j = Past(k, j - 1)
      BY <1>7, <1>11, <2>2 DEF Past
    <3> QED
      BY <3>1
  <2> QED
    BY <2>1, <2>2
<1> QED
  BY <1>6, <1>8, <1>9, <1>10, <1>11 DEF n, r, IsWithout

\* A semaphore nobody has asked for is well formed.
LEMMA SemEmptyOK ==
    ASSUME NEW P, NEW size \in Nat
    PROVE  SemOK(SemEmpty, P, size) /\ Members(SemEmpty) = {}
BY FS_EmptySet, EmptySeq DEF SemOK, SemShape, NoIdleToken, SemEmpty, Members, Queued

\* notifyWaiters: nobody comes and nobody goes, and afterwards no token is idle.
LEMMA NotifyOK ==
    ASSUME NEW P, NEW size \in Nat, NEW s, SemShape(s, P, size)
    PROVE  /\ SemOK(SemNotify(s, size), P, size)
           /\ Members(SemNotify(s, size)) = Members(s)
           /\ s.held \subseteq SemNotify(s, size).held
<1> DEFINE ws == s.waiters
           n == Len(ws)
           free == size - Cardinality(s.held)
           k == IF free <= n THEN free ELSE n
           lucky == {ws[i] : i \in 1..k}
           rest == SubSeq(ws, k + 1, n)
           t == [held |-> s.held \cup lucky, waiters |-> rest]
<1>0. SemNotify(s, size) = t /\ t.held = s.held \cup lucky /\ t.waiters = rest
  BY DEF SemNotify
<1>1. /\ s.held \subseteq P /\ IsFiniteSet(s.held) /\ ws \in Seq(P)
      /\ Cardinality(s.held) \in Nat /\ Cardinality(s.held) <= size
      /\ n \in Nat
  BY FS_CardinalityType, LenProperties DEF SemShape
<1>2. k \in Nat /\ k <= n /\ k <= free /\ (k = n \/ k = free) /\ free \in Nat
  BY <1>1
<1>3. /\ \A i \in 1..n : ws[i] \in P /\ ws[i] \notin s.held
      /\ \A i, j \in 1..n : ws[i] = ws[j] => i = j
  BY <1>1, ElementOfSeq DEF SemShape
<1> HIDE DEF k, free, ws, n
<1>4. /\ rest \in Seq(P)
      /\ Len(rest) = n - k
      /\ \A i \in 1..n - k : rest[i] = ws[k + i]
  <2>1. \A i \in k + 1 .. n : ws[i] \in P
    BY <1>1, <1>2, <1>3
  <2> DEFINE a == k + 1
  <2>2. a \in Int /\ n \in Int
    BY <1>1, <1>2
  <2>3. rest = SubSeq(ws, a, n) /\ \A i \in a..n : ws[i] \in P
    BY <2>1
  <2> HIDE DEF rest, a
  <2>4. /\ rest \in Seq(P)
        /\ Len(rest) = IF a <= n THEN n - a + 1 ELSE 0
        /\ \A i \in 1 .. n - a + 1 : rest[i] = ws[a + i - 1]
    BY <2>2, <2>3, SubSeqProperties
  <2> QED
    BY <1>1, <1>2, <2>4 DEF a
<1> HIDE DEF rest, t
<1>5. IsFiniteSet(lucky) /\ Cardinality(lucky) = k
  <2> DEFINE f == [i \in 1..k |-> ws[i]]
  <2>1. f \in Surjection(1..k, lucky)
    BY DEF Surjection
  <2>2. f \in Injection(1..k, lucky)
    BY <1>1, <1>2, <1>3 DEF Injection, IsInjective
  <2>3. IsFiniteSet(1..k) /\ Cardinality(1..k) = k
    BY <1>2, FS_Interval
  <2> HIDE DEF f, lucky
  <2> QED
    BY <2>1, <2>2, <2>3, FS_Surjection
<1>6. \A x \in lucky : x \notin s.held /\ x \in P
  BY <1>1, <1>2, <1>3
<1>7. IsFiniteSet(t.held) /\ Cardinality(t.held) = Cardinality(s.held) + k
  <2>1. s.held \cap lucky = {}
    BY <1>6
  <2>2. Cardinality(s.held \cap lucky) = 0
    BY <2>1, FS_EmptySet
  <2> HIDE DEF lucky
  <2>3. /\ IsFiniteSet(s.held \cup lucky)
        /\ Cardinality(s.held \cup lucky)
             = Cardinality(s.held) + Cardinality(lucky) - Cardinality(s.held \cap lucky)
    BY <1>1, <1>5, FS_Union
  <2> QED
    BY <1>0, <1>1, <1>2, <1>5, <2>2, <2>3
<1>8. SemShape(t, P, size)
  <2>1. t \in [held : SUBSET P, waiters : Seq(P)]
    <3>1. s.held \cup lucky \in SUBSET P
      BY <1>1, <1>6
    <3> QED
      BY <3>1, <1>4 DEF t
  <2>2. Cardinality(t.held) <= size
    BY <1>1, <1>2, <1>7 DEF free
  <2>3. \A i, j \in 1..Len(t.waiters) : t.waiters[i] = t.waiters[j] => i = j
    <3> SUFFICES ASSUME NEW i \in 1..n - k, NEW j \in 1..n - k, rest[i] = rest[j] PROVE i = j
      BY <1>0, <1>4
    <3>1. ws[k + i] = ws[k + j] /\ k + i \in 1..n /\ k + j \in 1..n
      BY <1>1, <1>2, <1>4
    <3>2. k + i = k + j
      BY <3>1, <1>3
    <3> QED
      BY <1>2, <3>2
  <2>4. \A i \in 1..Len(t.waiters) : t.waiters[i] \notin t.held
    <3> SUFFICES ASSUME NEW i \in 1..n - k PROVE rest[i] \notin s.held \cup lucky
      BY <1>0, <1>4
    <3>1. rest[i] = ws[k + i] /\ k + i \in 1..n /\ k + i \notin 1..k
      BY <1>1, <1>2, <1>4
    <3>2. \A j \in 1..k : j \in 1..n
      BY <1>1, <1>2
    <3> QED
      BY <1>3, <3>1, <3>2
  <2> QED
    BY <1>7, <2>1, <2>2, <2>3, <2>4 DEF SemShape
<1>9. NoIdleToken(t, size)
  <2>1. CASE k = n
    <3>1. Len(rest) = 0
      BY <1>1, <1>4, <2>1
    <3>2. t.waiters = <<>>
      BY <1>0, <1>4, <3>1, EmptySeq
    <3> QED
      BY <3>2 DEF NoIdleToken
  <2>2. CASE k = free
    BY <1>1, <1>7, <2>2 DEF NoIdleToken, free
  <2> QED
    BY <1>2, <2>1, <2>2
<1>10. Members(t) = Members(s)
  <2>1. Members(s) = s.held \cup {ws[i] : i \in 1..n}
    BY DEF Members, Queued, ws, n
  <2>2. Members(t) = s.held \cup lucky \cup {rest[i] : i \in 1..n - k}
    BY <1>0, <1>4 DEF Members, Queued
  <2>3. \A i \in 1..n : i \in 1..k \/ \E j \in 1..n - k : rest[j] = ws[i]
    <3> SUFFICES ASSUME NEW i \in 1..n, i \notin 1..k
                 PROVE  \E j \in 1..n - k : rest[j] = ws[i]
      OBVIOUS
    <3>1. i - k \in 1..n - k /\ k + (i - k) = i
      BY <1>1, <1>2
    <3> QED
      BY <1>4, <3>1
  <2>4. \A i \in 1..k : i \in 1..n
    BY <1>1, <1>2
  <2>5. \A j \in 1..n - k : \E i \in 1..n : rest[j] = ws[i]
    <3> SUFFICES ASSUME NEW j \in 1..n - k PROVE \E i \in 1..n : rest[j] = ws[i]
      OBVIOUS
    <3>1. k + j \in 1..n
      BY <1>1, <1>2
    <3> QED
      BY <1>4, <3>1
  <2>6. {ws[i] : i \in 1..n} = lucky \cup {rest[i] : i \in 1..n - k}
    BY <2>3, <2>4, <2>5
  <2> QED
    BY <2>1, <2>2, <2>6
<1>11. s.held \subseteq t.held
  BY <1>0
<1> QED
  BY <1>0, <1>8, <1>9, <1>10, <1>11 DEF SemOK

\* Acquire, with a token free.
LEMMA TakeOK ==
    ASSUME NEW P, NEW size \in Nat, NEW s, SemOK(s, P, size), SemFree(s, size),
           NEW p \in P, p \notin s.held
    PROVE  /\ SemOK(SemTake(s, p), P, size)
           /\ \A x : x \in Members(SemTake(s, p)) <=> x \in Members(s) \/ x = p
           /\ \A x : x \in SemTake(s, p).held <=> x \in s.held \/ x = p
<1> DEFINE t == [held |-> s.held \cup {p}, waiters |-> s.waiters]
<1>1. /\ SemTake(s, p) = t /\ s.waiters = <<>>
      /\ t.held = s.held \cup {p} /\ t.waiters = s.waiters
  BY DEF SemTake, SemFree
<1>2. Cardinality(s.held) \in Nat /\ Cardinality(s.held) < size /\ IsFiniteSet(s.held)
  BY FS_CardinalityType DEF SemOK, SemShape, SemFree
<1>3. IsFiniteSet(t.held) /\ Cardinality(t.held) = Cardinality(s.held) + 1
  BY <1>2, FS_AddElement
<1>4. Len(t.waiters) = 0
  BY <1>1, EmptySeq
<1>0. t \in [held : SUBSET P, waiters : Seq(P)]
  BY DEF SemOK, SemShape
<1> HIDE DEF t
<1>5. SemOK(t, P, size)
  BY <1>0, <1>1, <1>2, <1>3, <1>4 DEF SemOK, SemShape, NoIdleToken
<1>6. Members(t) = Members(s) \cup {p}
  BY <1>1 DEF Members, Queued
<1> QED
  BY <1>1, <1>5, <1>6

\* Acquire, with none.
LEMMA QueueOK ==
    ASSUME NEW P, NEW size \in Nat, NEW s, SemOK(s, P, size), ~SemFree(s, size),
           NEW p \in P, p \notin Members(s)
    PROVE  /\ SemOK(SemQueue(s, p), P, size)
           /\ \A x : x \in Members(SemQueue(s, p)) <=> x \in Members(s) \/ x = p
           /\ SemQueue(s, p).held = s.held
<1> DEFINE ws == s.waiters
           t == [held |-> s.held, waiters |-> Append(ws, p)]
<1>1. /\ SemQueue(s, p) = t /\ ws \in Seq(P) /\ Len(ws) \in Nat
      /\ t.held = s.held /\ t.waiters = Append(ws, p)
  BY LenProperties DEF SemQueue, SemOK, SemShape
<1>2. /\ t.waiters \in Seq(P) /\ Len(t.waiters) = Len(ws) + 1
      /\ \A i \in 1..Len(ws) : t.waiters[i] = ws[i]
      /\ t.waiters[Len(ws) + 1] = p
  BY <1>1, AppendProperties
<1>3. Cardinality(s.held) = size
  BY FS_CardinalityType DEF SemOK, SemShape, NoIdleToken, SemFree
<1> HIDE DEF ws
<1>4. \A i \in 1..Len(ws) + 1 : i \in 1..Len(ws) \/ i = Len(ws) + 1
  BY <1>1
<1>5. \A i \in 1..Len(ws) : ws[i] # p /\ ws[i] \notin s.held
  BY DEF Members, Queued, SemOK, SemShape, ws
<1>6. \A i, j \in 1..Len(t.waiters) : t.waiters[i] = t.waiters[j] => i = j
  BY <1>1, <1>2, <1>4, <1>5 DEF SemOK, SemShape, ws
<1>7. \A i \in 1..Len(t.waiters) : t.waiters[i] \notin t.held
  BY <1>1, <1>2, <1>4, <1>5 DEF Members
<1>8. SemOK(t, P, size)
  <2>1. t \in [held : SUBSET P, waiters : Seq(P)]
    BY <1>2 DEF SemOK, SemShape
  <2> HIDE DEF t
  <2> QED
    BY <1>1, <1>3, <1>6, <1>7, <2>1 DEF SemOK, SemShape, NoIdleToken
<1>9. Members(t) = Members(s) \cup {p}
  <2>1. Members(t) \subseteq Members(s) \cup {p}
    BY <1>1, <1>2, <1>4 DEF Members, Queued, ws
  <2>2. Members(s) \cup {p} \subseteq Members(t)
    <3>1. 1..Len(ws) \subseteq 1..Len(t.waiters) /\ Len(ws) + 1 \in 1..Len(t.waiters)
      BY <1>1, <1>2
    <3> QED
      BY <1>2, <3>1 DEF Members, Queued, ws
  <2> QED
    BY <2>1, <2>2
<1> QED
  BY <1>1, <1>8, <1>9

\* p has come to s, which is t now: it holds a token or queues.
SemEntered(t, s, p, P, size) ==
    /\ SemOK(t, P, size)
    /\ \A x : x \in Members(t) <=> x \in Members(s) \/ x = p
    /\ \A x : x \in s.held => x \in t.held

\* Acquire begins: a token is taken, or a place in the queue.
LEMMA EnterOK ==
    ASSUME NEW P, NEW size \in Nat, NEW s, SemOK(s, P, size), NEW p \in P, p \notin Members(s),
           NEW t, t = IF SemFree(s, size) THEN SemTake(s, p) ELSE SemQueue(s, p)
    PROVE  SemEntered(t, s, p, P, size)
<1>1. CASE SemFree(s, size)
  <2>1. p \notin s.held
    BY DEF Members
  <2>2. /\ SemOK(SemTake(s, p), P, size)
        /\ \A x : x \in Members(SemTake(s, p)) <=> x \in Members(s) \/ x = p
        /\ \A x : x \in SemTake(s, p).held <=> x \in s.held \/ x = p
    BY <1>1, <2>1, TakeOK
  <2>3. t = SemTake(s, p)
    BY <1>1
  <2> QED
    BY <2>2, <2>3 DEF SemEntered
<1>2. CASE ~SemFree(s, size)
  <2>1. /\ SemOK(SemQueue(s, p), P, size)
        /\ \A x : x \in Members(SemQueue(s, p)) <=> x \in Members(s) \/ x = p
        /\ SemQueue(s, p).held = s.held
    BY <1>2, QueueOK
  <2>2. t = SemQueue(s, p)
    BY <1>2
  <2> QED
    BY <2>1, <2>2 DEF SemEntered
<1> QED
  BY <1>1, <1>2

\* Release, by a set of holders at once.
LEMMA ReleaseAllOK ==
    ASSUME NEW P, NEW size \in Nat, NEW s, SemOK(s, P, size), NEW Q, Q \cap Queued(s) = {}
    PROVE  /\ SemOK(SemReleaseAll(s, Q, size), P, size)
           /\ \A x : x \in Members(SemReleaseAll(s, Q, size)) <=> x \in Members(s) /\ x \notin Q
           /\ \A x : x \in s.held /\ x \notin Q => x \in SemReleaseAll(s, Q, size).held
<1> DEFINE u == [held |-> s.held \ Q, waiters |-> s.waiters]
<1>1. u.held = s.held \ Q /\ u.waiters = s.waiters
  OBVIOUS
<1>2. /\ IsFiniteSet(u.held) /\ Cardinality(u.held) <= Cardinality(s.held)
      /\ Cardinality(u.held) \in Nat /\ Cardinality(s.held) \in Nat
  <2>1. u.held \in SUBSET s.held /\ IsFiniteSet(s.held)
    BY DEF SemOK, SemShape
  <2> QED
    BY <2>1, FS_Subset, FS_CardinalityType
<1>3. u \in [held : SUBSET P, waiters : Seq(P)]
  BY DEF SemOK, SemShape
<1>4. Members(u) = Members(s) \ Q
  BY DEF Members, Queued
<1> HIDE DEF u
<1>5. SemShape(u, P, size)
  BY <1>1, <1>2, <1>3 DEF SemOK, SemShape
<1>6. /\ SemOK(SemNotify(u, size), P, size)
      /\ Members(SemNotify(u, size)) = Members(u)
      /\ u.held \subseteq SemNotify(u, size).held
  BY <1>5, NotifyOK
<1> QED
  BY <1>1, <1>4, <1>6 DEF SemReleaseAll, u

\* Release, and the grants it makes, keep the semaphore well formed.
LEMMA ReleaseOK ==
    ASSUME NEW P, NEW size \in Nat, NEW s, SemOK(s, P, size), NEW p \in s.held
    PROVE  /\ SemOK(SemRelease(s, p, size), P, size)
           /\ \A x : x \in Members(SemRelease(s, p, size)) <=> x \in Members(s) /\ x # p
           /\ \A x : x \in s.held /\ x # p => x \in SemRelease(s, p, size).held
<1>1. {p} \cap Queued(s) = {}
  BY DEF Queued, SemOK, SemShape
<1> QED
  BY <1>1, ReleaseAllOK DEF SemRelease

\* Acquire gives up.
LEMMA AbandonOK ==
    ASSUME NEW P, NEW size \in Nat, NEW s, SemOK(s, P, size), NEW p \in Members(s)
    PROVE  /\ SemOK(SemAbandon(s, p, size), P, size)
           /\ \A x : x \in Members(SemAbandon(s, p, size)) <=> x \in Members(s) /\ x # p
           /\ \A x : x \in s.held /\ x # p => x \in SemAbandon(s, p, size).held
<1>1. CASE p \in s.held
  <2>1. SemAbandon(s, p, size) = SemRelease(s, p, size)
    BY <1>1 DEF SemAbandon
  <2>2. /\ SemOK(SemRelease(s, p, size), P, size)
        /\ \A x : x \in Members(SemRelease(s, p, size)) <=> x \in Members(s) /\ x # p
        /\ \A x : x \in s.held /\ x # p => x \in SemRelease(s, p, size).held
    BY <1>1, ReleaseOK
  <2> QED
    BY <2>1, <2>2
<1>2. CASE p \notin s.held
  <2> DEFINE ws == s.waiters
             n == Len(ws)
             k == SemPlace(s, p)
             u == [held |-> s.held, waiters |-> RemoveAt(ws, k)]
  <2>1. /\ SemAbandon(s, p, size) = SemNotify(u, size)
        /\ u.held = s.held /\ u.waiters = RemoveAt(ws, k)
    BY <1>2 DEF SemAbandon
  <2>2. /\ ws \in Seq(P) /\ n \in Nat
        /\ \A i \in 1..n : ws[i] \in P /\ ws[i] \notin s.held
        /\ \A i, j \in 1..n : ws[i] = ws[j] => i = j
        /\ k \in 1..n /\ ws[k] = p
    BY <1>2, LenProperties, ElementOfSeq DEF SemOK, SemShape, Members, Queued, SemPlace
  <2>3. Members(s) = s.held \cup {ws[i] : i \in 1..n}
    BY DEF Members, Queued
  <2> HIDE DEF k, ws
  <2>4. /\ u.waiters \in Seq(P) /\ Len(u.waiters) = n - 1
        /\ \A i \in 1..n - 1 : /\ Past(k, i) \in 1..n /\ Past(k, i) # k
                              /\ u.waiters[i] = ws[Past(k, i)]
        /\ \A i, j \in 1..n - 1 : Past(k, i) = Past(k, j) => i = j
        /\ \A j \in 1..n : j # k => \E i \in 1..n - 1 : j = Past(k, i)
    <3> HIDE DEF u
    <3>1. IsWithout(RemoveAt(ws, k), ws, k, P)
      BY <2>2, RemoveAtProperties
    <3> QED
      BY <2>1, <3>1 DEF IsWithout
  <2>5. u \in [held : SUBSET P, waiters : Seq(P)]
    BY <2>1, <2>4 DEF SemOK, SemShape
  <2> HIDE DEF n, u
  <2>6. \A i, j \in 1..n - 1 : u.waiters[i] = u.waiters[j] => i = j
    BY <2>2, <2>4
  <2>7. \A i \in 1..n - 1 : u.waiters[i] \notin u.held
    BY <2>1, <2>2, <2>4
  <2>8. SemShape(u, P, size)
    BY <2>1, <2>4, <2>5, <2>6, <2>7 DEF SemOK, SemShape
  <2>9. Members(u) = Members(s) \ {p}
    <3>1. Members(u) = s.held \cup {u.waiters[j] : j \in 1..n - 1}
      BY <2>1, <2>4 DEF Members, Queued
    <3>2. \A i \in 1..n : i = k \/ \E j \in 1..n - 1 : u.waiters[j] = ws[i]
      BY <2>4
    <3>3. \A i \in 1..n : i # k => ws[i] # p
      BY <2>2
    <3>4. {u.waiters[j] : j \in 1..n - 1} \subseteq {ws[i] : i \in 1..n} \ {p}
      BY <2>4, <3>3
    <3>5. {ws[i] : i \in 1..n} \ {p} \subseteq {u.waiters[j] : j \in 1..n - 1}
      BY <2>2, <3>2
    <3> QED
      BY <1>2, <2>3, <3>1, <3>4, <3>5
  <2>10. /\ SemOK(SemNotify(u, size), P, size)
        /\ Members(SemNotify(u, size)) = Members(u)
        /\ u.held \subseteq SemNotify(u, size).held
    BY <2>8, NotifyOK
  <2> QED
    BY <2>1, <2>9, <2>10
<1> QED
  BY <1>1, <1>2
=============================================================================
