------------------------------ MODULE OptValues ------------------------------
(***************************************************************************)
(* The values of a generator's options (testlib.h): an exponent is worked   *)
(* into the numeral by moving its point, then the numeral is read as an      *)
(* integer of type T or as a long double.  A long double is exact here: m    *)
(* divided by 10^k.                                                          *)
(***************************************************************************)
EXTENDS TestlibChars

CONSTANTS T_MIN, T_MAX,         \* the range of the integer type
          MaxPart               \* 20: the longest mantissa and the longest exponent

OptValuesAssumption ==
  T_MIN \in Int /\ T_MAX \in Nat /\ T_MIN <= 0 /\ MaxPart \in Nat

PLUS == 43
POINT == 46
ZERO == 48
EXPONENT == {69, 101}

Rejected == [ok |-> FALSE]      \* __testlib_fail
Accepted(v) == [ok |-> TRUE, v |-> v]

StartsWith(s, c) == s # <<>> /\ s[1] = c
Sign(s) == IF StartsWith(s, MINUS) THEN -1 ELSE 1
Unsigned(s) == IF StartsWith(s, MINUS) THEN DropFirst(s, 1) ELSE s
WithoutPlus(s) == IF StartsWith(s, PLUS) THEN DropFirst(s, 1) ELSE s

(* The value of a string of digits; points are passed over. *)
ValueOf(s) ==
  LET value[k \in 0..Len(s)] ==
        IF k = 0 THEN 0 ELSE IF s[k] = POINT THEN value[k - 1] ELSE 10 * value[k - 1] + s[k] - ZERO
  IN  value[Len(s)]
PointsOf(s) == {i \in 1..Len(s) : s[i] = POINT}

(* What type T makes of v: it wraps around.  Where the type is signed that is   *)
(* undefined, and what the build does.                                          *)
Wrapped(v) == T_MIN + ((v - T_MIN) % (T_MAX - T_MIN + 1))

(* `value': the numeral s read in type T, digit by digit, and then its sign. *)
TypedValue(s) ==
  LET body == Unsigned(s)
      value[k \in 0..Len(body)] ==
        IF k = 0 THEN 0 ELSE Wrapped(10 * value[k - 1] + body[k] - ZERO)
  IN  Wrapped(Sign(s) * value[Len(body)])

(* `value' is compared with the same number in floating point, `about'. *)
Overflows(s) == TypedValue(s) # Sign(s) * ValueOf(Unsigned(s))

(* optValueToIntegral and optValueToLongDouble, of a numeral without exponent. *)
PlainIntegral(s, nonnegative) ==
  IF \/ s = <<>> \/ (nonnegative /\ StartsWith(s, MINUS))
     \/ \E i \in 1..Len(Unsigned(s)) : Unsigned(s)[i] \notin Digits
     \/ Overflows(s)
    THEN Rejected ELSE Accepted(TypedValue(s))

PlainLongDouble(s) ==
  LET body == Unsigned(s)
      points == PointsOf(body)
  IN  IF \/ s = <<>> \/ Cardinality(points) > 1
         \/ \E i \in 1..Len(body) : body[i] \notin Digits \cup {POINT}
        THEN Rejected
        ELSE Accepted([m |-> Sign(s) * ValueOf(body),
                       k |-> IF points = {} THEN 0 ELSE Len(body) - Max(points)])

-----------------------------------------------------------------------------
(* The point moves one place to the right, or a zero is appended. *)
MoveRight(num) ==
  LET sep == PointsOf(num)
      i == Min(sep)
  IN  IF sep = {} THEN Append(num, ZERO)
      ELSE IF i = Len(num) THEN [num EXCEPT ![i] = ZERO]
      ELSE [num EXCEPT ![i] = num[i + 1], ![i + 1] = POINT]

(* One place to the left (of a string without any digit: undefined). *)
MoveLeft(num) ==
  LET sep == PointsOf(num)
      i == Min(sep)
      n == Len(num)
  IN  IF sep = {} THEN SubSeq(num, 1, n - 1) \o <<POINT>> \o SubSeq(num, n, n)
      ELSE IF i = 1 THEN <<POINT, ZERO>> \o DropFirst(num, 1)
      ELSE [num EXCEPT ![i] = num[i - 1], ![i - 1] = POINT]

(* The num of `ne' moves: to the right for a positive ne. *)
Moved(num, ne) ==
  LET n == Max({ne, -ne})
      moved[k \in 0..n] == IF k = 0 THEN num
                           ELSE IF ne > 0 THEN MoveRight(moved[k - 1]) ELSE MoveLeft(moved[k - 1])
  IN  moved[n]

(* Zeros before the number and after its point are dropped, then a last point;  *)
(* a zero is put before a first point.                                           *)
Stripped(num) ==
  LET left == DropFirst(num, SpanLen(num, {ZERO}))
      right == IF PointsOf(left) = {} THEN left
               ELSE LET d == DropLast(left, {ZERO})
                    IN  IF d[Len(d)] = POINT THEN SubSeq(d, 1, Len(d) - 1) ELSE d
  IN  IF right = <<>> \/ StartsWith(right, POINT) THEN <<ZERO>> \o right ELSE right

parseExponentialOptValue(s) ==
  LET es == {i \in 1..Len(s) : s[i] \in EXPONENT}
      pos == Min(es)
      e == WithoutPlus(DropFirst(s, pos))
      ne == PlainIntegral(e, FALSE)
      mantissa == SubSeq(s, 1, pos - 1)
      num == WithoutPlus(mantissa)
  IN  IF es = {} THEN Accepted(s)
      ELSE IF Cardinality(es) > 1 \/ e = <<>> \/ Len(e) > MaxPart THEN Rejected
      ELSE IF ~ne.ok \/ Len(mantissa) > MaxPart \/ ~PlainLongDouble(num).ok THEN Rejected
      ELSE Accepted((IF Sign(num) = -1 THEN <<MINUS>> ELSE <<>>) \o Stripped(Moved(Unsigned(num), ne.v)))

optValueToIntegral(s, nonnegative) ==
  LET plain == parseExponentialOptValue(s)
  IN  IF plain.ok THEN PlainIntegral(plain.v, nonnegative) ELSE Rejected

optValueToLongDouble(s) ==
  LET plain == parseExponentialOptValue(s)
  IN  IF plain.ok THEN PlainLongDouble(plain.v) ELSE Rejected
=============================================================================
