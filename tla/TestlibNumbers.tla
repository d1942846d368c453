--------------------------- MODULE TestlibNumbers ---------------------------
(***************************************************************************)
(* The conversions of testlib.h from a token to a number, and its           *)
(* comparison of doubles.  The ranges of the integer types are constants    *)
(* (TLC runs them scaled down); a conversion answers [ok |-> FALSE] where   *)
(* the code calls quit(_pe).                                                *)
(*                                                                         *)
(* A double is exact: an integer number of units of 10^-FracDigits, or an   *)
(* infinity, or NaN; rounding is not modelled.  Values beyond 10^MaxExp      *)
(* overflow to infinity, and what is smaller than one unit is cut off.       *)
(***************************************************************************)
EXTENDS TestlibChars

CONSTANTS LLONG_MIN, LLONG_MAX, ULLONG_MAX, INT_MIN, INT_MAX,
          MaxNumberLength,      \* 20: the longest token that may be an integer
          MaxStrictLength,      \* 1000: the longest that may be a strict double
          FracDigits, MaxExp,   \* the resolution and the range of a double
          HUGE_UNITS            \* 1E300, in units: beyond it a value counts as infinite

ASSUME NumbersAssumption ==
  /\ LLONG_MIN \in Int /\ LLONG_MAX \in Int /\ ULLONG_MAX \in Nat
  /\ LLONG_MIN < 0 /\ 0 < LLONG_MAX
  /\ INT_MIN \in LLONG_MIN..0 /\ INT_MAX \in 0..LLONG_MAX
  /\ FracDigits \in Nat /\ MaxExp \in Nat /\ HUGE_UNITS \in Nat

PLUS == 43
POINT == 46
EXPONENT == {69, 101}
ZERO == 48

NotANumber == [ok |-> FALSE]
Number(v) == [ok |-> TRUE, v |-> v]

(* The value of a string of decimal digits. *)
DecimalValue(s) ==
  LET value[k \in 0..Len(s)] == IF k = 0 THEN 0 ELSE 10 * value[k - 1] + s[k] - ZERO
  IN  value[Len(s)]

AllDigits(s) == \A i \in 1..Len(s) : s[i] \in Digits
FirstIs(s, C) == s # <<>> /\ s[1] \in C

-----------------------------------------------------------------------------

(* The final test of stringToLongLong. *)
RedundantZeroes(zeroes, v, minus) == (zeroes > 0 /\ (v # 0 \/ minus)) \/ zeroes > 1

(* std::stoll and std::stoull throw when the value does not fit. *)
StollFits(v) == v \in LLONG_MIN..LLONG_MAX
StoullFits(v) == v \in 0..ULLONG_MAX

stringToLongLong(buffer) ==
  LET minus == Len(buffer) > 1 /\ buffer[1] = MINUS
      digits == IF minus THEN DropFirst(buffer, 1) ELSE buffer
      v == IF minus THEN -DecimalValue(digits) ELSE DecimalValue(digits)
      accepted == /\ Len(buffer) \in 1..MaxNumberLength
                  /\ AllDigits(digits)
                  /\ StollFits(v)
                  /\ ~RedundantZeroes(SpanLen(digits, {ZERO}), v, minus)
  IN  IF accepted THEN Number(v) ELSE NotANumber

stringToUnsignedLongLong(buffer) ==
  LET accepted == /\ Len(buffer) \in 1..MaxNumberLength
                  /\ ~(Len(buffer) > 1 /\ buffer[1] = ZERO)
                  /\ AllDigits(buffer)
                  /\ StoullFits(DecimalValue(buffer))
  IN  IF accepted THEN Number(DecimalValue(buffer)) ELSE NotANumber

-----------------------------------------------------------------------------
Finite(u) == [kind |-> "finite", u |-> u]
Infinity(sign) == [kind |-> "inf", u |-> sign]
NaN == [kind |-> "nan", u |-> 0]

Abs(n) == IF n < 0 THEN -n ELSE n
Sign(d) == IF d.u < 0 THEN -1 ELSE IF d.u > 0 THEN 1 ELSE 0

__testlib_isNaN(d) == d.kind = "nan"
__testlib_isInfinite(d) == d.kind = "inf" \/ (d.kind = "finite" /\ Abs(d.u) > HUGE_UNITS)

(* mantissa * 10^shift, in units. *)
Scaled(sign, mantissa, shift) ==
  LET e == shift + FracDigits IN
  CASE mantissa = 0 \/ e < -MaxExp -> Finite(0)
    [] mantissa # 0 /\ shift > MaxExp -> Infinity(sign)
    [] mantissa # 0 /\ shift <= MaxExp /\ e >= 0 -> Finite(sign * mantissa * 10 ^ e)
    [] mantissa # 0 /\ e \in -MaxExp..-1 -> Finite(sign * (mantissa \div 10 ^ (-e)))

(* What sscanf's %lf makes of the whole string: sign, digits with at most    *)
(* one point and at least one digit, and an optional exponent.  ok is FALSE   *)
(* if a suffix is left or nothing matches.                                    *)
ScanDouble(s) ==
  LET Body(t) == IF FirstIs(t, {MINUS, PLUS}) THEN DropFirst(t, 1) ELSE t
      SignOf(t) == IF FirstIs(t, {MINUS}) THEN -1 ELSE 1
      body == Body(s)
      mant == SubSeq(body, 1, SpanNotLen(body, EXPONENT))
      tail == DropFirst(body, Len(mant))
      expo == IF tail = <<>> THEN <<ZERO>> ELSE DropFirst(tail, 1)
      point == SpanNotLen(mant, {POINT})
      whole == SubSeq(mant, 1, point)
      frac == DropFirst(mant, point + 1)
      digits == whole \o frac
  IN  IF /\ AllDigits(digits) /\ digits # <<>>
         /\ AllDigits(Body(expo)) /\ Body(expo) # <<>>
        THEN Number(Scaled(SignOf(s), DecimalValue(digits),
                           SignOf(expo) * DecimalValue(Body(expo)) - Len(frac)))
        ELSE NotANumber

Count(s, C) == Cardinality({i \in 1..Len(s) : s[i] \in C})

stringToDouble(buffer) ==
  IF \/ \E i \in 1..Len(buffer) : buffer[i] \notin Digits \cup EXPONENT \cup {POINT, MINUS, PLUS}
     \/ Count(buffer, Digits) = 0
     \/ Count(buffer, {MINUS}) > 2 \/ Count(buffer, {PLUS}) > 2
     \/ Count(buffer, {POINT}) > 1 \/ Count(buffer, EXPONENT) > 1
    THEN NotANumber
    ELSE ScanDouble(buffer)

RedundantMinus(buffer, d) == buffer[1] = MINUS /\ Sign(d) >= 0

(* stringToStrictDouble, for 0 <= minAfter <= maxAfter digits after the point. *)
stringToStrictDouble(buffer, minAfter, maxAfter) ==
  LET n == Len(buffer)
      inner == {i \in 2..(n - 1) : buffer[i] = POINT}
      pointPos == IF inner = {} THEN 0 ELSE Min(inner)
      after == IF inner = {} THEN 0 ELSE n - pointPos
      firstDigit == Min({i \in 1..n : buffer[i] \in Digits})
      d == ScanDouble(buffer)
      accepted ==
        /\ n \in 1..MaxStrictLength
        /\ buffer[1] \in Digits \cup {MINUS}
        /\ Cardinality(inner) <= 1
        /\ \A i \in 2..(n - 1) : buffer[i] \in Digits \cup {POINT}
        /\ buffer[n] \in Digits
        /\ after \in minAfter..maxAfter
        /\ firstDigit <= 2
        /\ ~(buffer[firstDigit] = ZERO /\ firstDigit < n /\ buffer[firstDigit + 1] \in Digits)
        /\ d.ok
        /\ ~__testlib_isInfinite(d.v)
        /\ ~RedundantMinus(buffer, d.v)
  IN  IF accepted THEN d ELSE NotANumber

-----------------------------------------------------------------------------

(* minv <= result <= maxv, multiplied through by 1 / MAX_DOUBLE_ERROR. *)
WithinRelative(x, y, epsInv) ==
  LET bounds == {x * (epsInv - 1), x * (epsInv + 1)}
  IN  y * epsInv \in Min(bounds)..Max(bounds)

(* doubleCompare(expected, result, 1 / epsInv).  The 1E-15 that the code adds *)
(* to the error bound only absorbs rounding, which is not modelled.           *)
doubleCompare(expected, result, epsInv) ==
  CASE __testlib_isNaN(expected) -> __testlib_isNaN(result)
    [] __testlib_isInfinite(expected) ->
         Sign(result) = Sign(expected) /\ __testlib_isInfinite(result)
    [] ~__testlib_isNaN(expected) /\ ~__testlib_isInfinite(expected) ->
         /\ ~__testlib_isNaN(result) /\ ~__testlib_isInfinite(result)
         /\ \/ Abs(result.u - expected.u) * epsInv <= 10 ^ FracDigits
            \/ WithinRelative(expected.u, result.u, epsInv)

(* doubleDelta(expected, result) <= 1 / epsInv, for finite values; the code's *)
(* threshold of 1E-9 on the expected value is below one unit.                 *)
DeltaAtMost(expected, result, epsInv) ==
  LET absolute == Abs(result.u - expected.u)
  IN  \/ absolute * epsInv <= 10 ^ FracDigits
      \/ expected.u # 0 /\ absolute * epsInv <= Abs(expected.u)
=============================================================================
