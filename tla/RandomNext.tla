----------------------------- MODULE RandomNext -----------------------------
(***************************************************************************)
(* The generator of random_t in testlib.h: the linear congruential step,    *)
(* nextBits, and the rejection loops of next(int) and next(long long), with  *)
(* the widths (48, 31 and 63 bits in the code) as parameters.                *)
(***************************************************************************)
EXTENDS Integers, FiniteSets, Sequences

CONSTANTS SEED_BITS, INT_BITS,  \* 48 and 31; a long long has 2 * INT_BITS + 1 bits (63)
          multiplier, addend,
          Versions,             \* of the generator: a subset of {0, 1}
          InitialSeed,          \* 3905348978240129619 in the code
          MaxN,                 \* bound: the arguments of next(n)
          RangeEnds,                 \* the ends of the ranges of next(from, to)
          Texts,                \* command lines: sequences of sequences of bytes
          MaxCalls              \* bound: calls of a run

RandomAssumption ==
  /\ INT_BITS \in Nat \ {0} /\ SEED_BITS \in Nat /\ INT_BITS < SEED_BITS /\ SEED_BITS <= 2 * INT_BITS
  /\ {multiplier, addend} \subseteq Nat \ {0} /\ Versions \subseteq {0, 1}
  /\ InitialSeed \in Nat /\ MaxN \in Nat /\ MaxCalls \in Nat /\ RangeEnds \subseteq Int

VARIABLES
  seed,
  version,      \* random_t::version
  call,         \* the call being served: its draws are "int" or "long", its range from..to
  pc,           \* "idle", "drawing" or "failed"
  value,        \* what the last call returned
  calls         \* how many calls there were, for the bound
vars == <<seed, version, call, pc, value, calls>>

Modulus == 2^SEED_BITS
LONG_BITS == 2 * INT_BITS + 1
LONGLONG_MAX == 2^LONG_BITS - 1

Step(s) == (s * multiplier + addend) % Modulus

(* The value of nextBits for at most SEED_BITS bits, in the new state. *)
Bits(s, bits) == s \div 2^(SEED_BITS - bits)

(* nextBits(bits): the state it leaves and its value.  More bits than the seed *)
(* has are put together from two draws; the two halves do not overlap.          *)
nextBits(s, bits) ==
  LET left == Bits(Step(s), INT_BITS) * 2^(INT_BITS + 1)
      right == Bits(Step(Step(s)), IF version = 0 THEN INT_BITS ELSE INT_BITS + 1)
  IN  IF bits <= SEED_BITS THEN [seed |-> Step(s), v |-> Bits(Step(s), bits)]
                           ELSE [seed |-> Step(Step(s)), v |-> left + right]

(* setSeed(argc, argv): a hash of the command line. *)
setSeed(argv) ==
  LET char[i \in 1..Len(argv)] ==       \* the state after argument i
        LET start == IF i = 1 THEN InitialSeed ELSE char[i - 1]
            arg[j \in 0..Len(argv[i])] ==
              IF j = 0 THEN start ELSE (arg[j - 1] * multiplier + argv[i][j] + addend) % Modulus
        IN  (arg[Len(argv[i])] + multiplier \div addend) % Modulus
  IN  IF argv = <<>> THEN InitialSeed % Modulus ELSE char[Len(argv)]

-----------------------------------------------------------------------------
(* Mutant: the last, incomplete block is kept. *)
MutantLimit(max, n) == max

(* Draws from this value on are thrown away. *)
Limit(max, n) == (max \div n) * n

PowersOfTwo == {2^k : k \in 0..INT_BITS}

(* A long long that overflows wraps around. *)
Wrapped(x) == ((x + LONGLONG_MAX + 1) % 2^(LONG_BITS + 1)) - LONGLONG_MAX - 1

Init ==
  /\ \E argv \in Texts : seed = setSeed(argv)
  /\ version \in Versions
  /\ call = [type |-> "int", n |-> 1, from |-> 0, to |-> 0]
  /\ pc = "idle" /\ value = 0 /\ calls = 0

(* A call whose draws are in 0..n-1: n must be positive. *)
Call(type, n, from, to) ==
  /\ pc = "idle" /\ calls < MaxCalls
  /\ call' = [type |-> type, n |-> n, from |-> from, to |-> to]
  /\ pc' = IF n <= 0 THEN "failed" ELSE "drawing"
  /\ calls' = calls + 1
  /\ UNCHANGED <<seed, version, value>>

nextN(type, n) == Call(type, n, 0, n - 1)
nextRange(from, to) == Call("long", Wrapped(to - from + 1), from, to)

Scaled(bits) == (call.n * bits) \div 2^INT_BITS

(* Which draws of next(int n) and next(long long n) are kept, and what they     *)
(* give.  An int that is a power of two keeps every draw.                       *)
Scaling == call.type = "int" /\ call.n \in PowersOfTwo
Width == IF call.type = "int" THEN INT_BITS ELSE LONG_BITS
Kept(bits) == Scaling \/ bits < Limit(2^Width - 1, call.n)
Result(bits) == IF Scaling THEN Scaled(bits) ELSE bits % call.n

Draw ==
  LET d == nextBits(seed, Width)
  IN  /\ pc = "drawing"
      /\ seed' = d.seed
      /\ IF Kept(d.v) THEN pc' = "idle" /\ value' = Result(d.v) + call.from
                      ELSE UNCHANGED <<pc, value>>
      /\ UNCHANGED <<version, call, calls>>

Next ==
  \/ Draw
  \/ \E type \in {"int", "long"}, n \in 0..MaxN : nextN(type, n)
  \/ \E from, to \in RangeEnds : from <= to /\ nextRange(from, to)
Spec == Init /\ [][Next]_vars /\ WF_vars(Draw)

-----------------------------------------------------------------------------
(* "Returns random value in range [from,to]"; a call fails only if its range is *)
(* empty or has more values than a long long can count.                         *)
ValueIsInRange ==
  /\ seed \in 0..(Modulus - 1) /\ pc \in {"idle", "drawing", "failed"}
  /\ pc = "idle" => value \in call.from..call.to
  /\ pc = "failed" => call.to - call.from + 1 \notin 1..LONGLONG_MAX

(* Every value of the range is given by as many of the draws that are kept as   *)
(* any other, if all bits are drawn alike (as those of version 0 are not in a   *)
(* long long).                                                                  *)
Unbiased ==
  pc = "drawing" /\ (call.type = "int" \/ version = 1) =>
    LET kept == {bits \in 0..(2^Width - 1) : Kept(bits)}
        ways(v) == Cardinality({bits \in kept : Result(bits) = v})
    IN  \A v \in 0..(call.n - 1) : ways(v) = ways(0) /\ ways(v) > 0

(* The rejection loop ends from every seed: the generator comes to a value that *)
(* is kept.                                                                     *)
EveryCallReturns == pc = "drawing" ~> pc = "idle"
=============================================================================
