---------------------------- MODULE RandomShapes ----------------------------
(***************************************************************************)
(* What random_t of testlib.h builds from its draws: permutations, distinct *)
(* numbers, partitions of a sum, and weighted numbers.  rnd.next(n) is any   *)
(* number below n (RandomNext); sequences are indexed from 1, draws from 0.  *)
(***************************************************************************)
EXTENDS Integers, Sequences, FiniteSets, FiniteSetsExt, Functions, TLC

CONSTANTS Calls,        \* the calls: records of op, size, from, to, min
          PermLimit,    \* distinct permutes no more numbers: 1000000000 in the code
          lim,          \* from this weight on wnext uses a power, not draws
          Precision,    \* a double in [0, 1] is a multiple of 1/Precision
          MaxDraws      \* bound: draws of one call

VARIABLES
  call,         \* the call of the program
  want,         \* the arguments of distinct: size, from, to
  p,            \* perm's vector
  result,       \* the numbers so far
  draws,        \* history: what rnd.next returned
  stage         \* "perm", "set", "weigh", "power", "done" or "failed"
vars == <<call, want, p, result, draws, stage>>

Interval(from, to) == [k \in 1..(to - from + 1) |-> from + k - 1]
SumOf(s) == FoldFunction(+, 0, s)

(* The outcome of entering perm or distinct: a stage and the first vectors. *)
At(st, vector) == [stage |-> st, p |-> vector]
Fails == At("failed", <<>>)

perm(size, first) == IF size < 0 THEN Fails ELSE At("perm", Interval(first, first + size - 1))

(* Drawing with repetitions is expected to take fewer than n draws: the sum of  *)
(* n / (n - i + 1) for i in 1..size is below n.                                  *)
FewDraws(size, n) ==
  LET product == FoldFunction(LAMBDA a, b : a * b, 1, [i \in 1..size |-> n - i + 1])
  IN  SumOf([i \in 1..size |-> product \div (n - i + 1)]) < product

distinct(size, from, to) ==
  LET n == to - from + 1
  IN  IF size = 0 THEN At("set", <<>>)
      ELSE IF from > to \/ size < 0 \/ size > n THEN Fails
      ELSE IF FewDraws(size, n) THEN At("set", <<>>)
      ELSE IF n > PermLimit THEN Fails
      ELSE perm(n, from)

(* partition(size, sum, min_part): the places a septum may take are 1..Places. *)
Places(c) == c.to - c.min * c.size + c.size - 1

(* The arguments with which the call enters distinct. *)
Wanted(c) == IF c.op = "partition" THEN [size |-> c.size - 1, from |-> 1, to |-> Places(c)]
             ELSE [size |-> c.size, from |-> c.from, to |-> c.to]

Entered(c) ==
  CASE c.op = "perm" -> perm(c.size, c.from)
    [] c.op = "distinct" -> distinct(c.size, c.from, c.to)
    [] c.op = "wnext" -> IF c.size <= 0 THEN Fails
                         ELSE At(IF Max({c.to, -c.to}) < lim THEN "weigh" ELSE "power", <<>>)
    [] c.op = "partition" ->
         IF c.size < 0 \/ (c.size = 0 /\ c.to # 0) \/ c.min * c.size > c.to THEN Fails
         ELSE IF c.size = 0 THEN At("done", <<>>)
         ELSE distinct(c.size - 1, 1, Places(c))

Init ==
  /\ call \in Calls
  /\ want = Wanted(call)
  /\ stage = Entered(call).stage /\ p = Entered(call).p
  /\ result = <<>> /\ draws = <<>>

-----------------------------------------------------------------------------
(* The rest of partition, from the distinct numbers d. *)
Parts(d) ==
  LET sum == call.to - call.min * call.size
      septums == SortSeq(<<0>> \o d, <)
      parts == [i \in 1..call.size |->
                  call.min + (IF i < call.size THEN septums[i + 1] - septums[i] - 1
                                               ELSE sum + call.size - 1 - septums[i])]
  IN  IF SumOf(parts) # call.to \/ Min(Range(parts)) < call.min THEN <<>> ELSE parts

Return(numbers) ==
  IF call.op = "partition"
    THEN result' = Parts(numbers) /\ stage' = IF Parts(numbers) = <<>> THEN "failed" ELSE "done"
    ELSE result' = numbers /\ stage' = "done"

(* perm (and shuffle) at i: next(i + 1). *)
Swappable(i) == 0..i

Swap(j) ==
  LET i == Len(draws) + 1
  IN  /\ stage = "perm" /\ i < Len(p) /\ j \in Swappable(i)
      /\ p' = [p EXCEPT ![i + 1] = p[j + 1], ![j + 1] = p[i + 1]]
      /\ draws' = Append(draws, j)
      /\ UNCHANGED <<call, want, result, stage>>

PermReturns ==
  /\ stage = "perm" /\ Len(draws) + 1 >= Len(p)
  /\ Return(IF call.op = "perm" THEN p ELSE SubSeq(p, 1, want.size))
  /\ UNCHANGED <<call, want, p, draws>>

(* distinct draws until it has enough values. *)
Insert(x) ==
  /\ stage = "set" /\ Len(result) < want.size /\ x \in want.from..want.to
  /\ Len(draws) < MaxDraws
  /\ draws' = Append(draws, x)
  /\ result' = IF x \in Range(result) THEN result ELSE Append(result, x)
  /\ UNCHANGED <<call, want, p, stage>>

SetReturns ==
  /\ stage = "set" /\ Len(result) = want.size
  /\ Return(result)
  /\ UNCHANGED <<call, want, p, draws>>

-----------------------------------------------------------------------------
__testlib_crop(value, a, b) == Min({Max({value, a}), b - 1})

(* wnext(n, type), n in size and type in to: type more draws, the largest wins, *)
(* or the smallest for a negative type.                                         *)
Weigh(x) ==
  LET type == call.to
      n == call.size
  IN  /\ stage = "weigh" /\ x \in 0..(n - 1)
      /\ draws' = Append(draws, x)
      /\ result' = IF draws = <<>> THEN <<x>>
                   ELSE IF type > 0 THEN <<Max({result[1], x})>> ELSE <<Min({result[1], x})>>
      /\ stage' = IF Len(draws') = Max({type, -type}) + 1 THEN "done" ELSE "weigh"
      /\ UNCHANGED <<call, want, p>>

(* For a large weight: a root of a double of [0, 1), which may round to 1, or    *)
(* one minus it.                                                                *)
Power(k) ==
  /\ stage = "power" /\ k \in 0..Precision
  /\ result' = <<__testlib_crop((call.size * k) \div Precision, 0, call.size)>>
  /\ stage' = "done"
  /\ UNCHANGED <<call, want, p, draws>>

Next ==
  \/ \E j \in 0..(Len(p) - 1) : Swap(j)
  \/ PermReturns
  \/ \E x \in want.from..want.to : Insert(x)
  \/ SetReturns
  \/ \E x \in 0..(call.size - 1) : Weigh(x)
  \/ \E k \in 0..Precision : Power(k)
Spec == Init /\ [][Next]_vars

-----------------------------------------------------------------------------
(* What a call returns is what its comment promises: a permutation, distinct    *)
(* numbers of the range, parts that are large enough and have the given sum, a  *)
(* number below n.                                                              *)
OutcomeFits ==
  stage = "done" =>
    /\ call.op # "wnext" => Len(result) = call.size
    /\ call.op \in {"perm", "distinct"} => Cardinality(Range(result)) = call.size
    /\ call.op = "perm" => Range(result) \subseteq call.from..(call.from + call.size - 1)
    /\ call.op = "distinct" => Range(result) \subseteq call.from..call.to
    /\ call.op = "partition" => SumOf(result) = call.to /\ \A i \in DOMAIN result : result[i] >= call.min
    /\ call.op = "wnext" => result[1] \in 0..(call.size - 1)

(* The range has n numbers, more than distinct will permute, and drawing size    *)
(* of them one by one is expected to take n draws or more: the reciprocals of the *)
(* numbers n, n - 1, ... of which size are taken add up to 1.                     *)
TooWide(size, n) ==
  LET last == (n - size + 1)..n
      common == FoldFunction(LAMBDA a, b : a * b, 1, [k \in last |-> k])
  IN  n > PermLimit /\ SumOf([k \in last |-> common \div k]) >= common

(* A call fails exactly if nothing fits it, or if distinct would have to permute *)
(* too many numbers, whether it was called for them or by partition; the checks  *)
(* at the end of partition never fail.                                           *)
FailsOnlyIfItMust ==
  LET impossible ==
        \/ call.size < 0
        \/ call.op = "wnext" /\ call.size = 0
        \/ call.op = "distinct" /\ call.size > Max({call.to - call.from + 1, 0})
        \/ call.op = "partition" /\ (call.min * call.size > call.to \/ (call.size = 0 /\ call.to # 0))
      tooWide ==
        \/ call.op = "distinct" /\ TooWide(call.size, call.to - call.from + 1)
        \/ call.op = "partition" /\ call.size > 0 /\ TooWide(call.size - 1, Places(call))
  IN  stage = "failed" <=> impossible \/ tooWide

(* No two sequences of draws give the same permutation, so all permutations are *)
(* equally likely: the draws can be told from the outcome, from the last one on. *)
DrawsOf(perm_, first) ==
  LET n == Len(perm_)
      At_(q, i) == CHOOSE j \in 1..n : q[j] = first + i   \* where the draw for i has put its value
      undone[k \in 0..(n - 1)] ==                         \* the vector before the last k swaps
        IF k = 0 THEN perm_
        ELSE LET q == undone[k - 1]
                 i == n - k
                 j == At_(q, i)
             IN  [q EXCEPT ![i + 1] = q[j], ![j] = q[i + 1]]
  IN  [i \in 1..(n - 1) |-> At_(undone[n - 1 - i], i) - 1]
PermutationsAreEquallyLikely ==
  stage = "done" /\ call.op = "perm" /\ call.size > 0 => draws = DrawsOf(result, call.from)
=============================================================================
