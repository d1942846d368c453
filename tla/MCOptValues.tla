----------------------------- MODULE MCOptValues -----------------------------
(***************************************************************************)
(* Every value over a small alphabet, built one character at a time.        *)
(***************************************************************************)
EXTENDS OptValues

CONSTANT MaxLength      \* bound: characters of a value

VARIABLE s
Init == s = <<>>
(* One digit of exponent. *)
Next == /\ Len(s) < MaxLength
        /\ ~(Len(s) > 1 /\ s[Len(s)] \in Digits /\ \E i \in 1..(Len(s) - 1) : s[i] \in EXPONENT)
        /\ \E c \in {48, 49, 50, MINUS, PLUS, POINT, 101} : s' = Append(s, c)
Spec == Init /\ [][Next]_s

(* The numerals: a sign, digits with at most one point, and an exponent. *)
Es == {i \in 1..Len(s) : s[i] = 101}
Mantissa == IF Es = {} THEN s ELSE SubSeq(s, 1, Min(Es) - 1)
Exponent == IF Es = {} THEN <<ZERO>> ELSE DropFirst(s, Min(Es))
Body(t) == IF t # <<>> /\ t[1] \in {PLUS, MINUS} THEN DropFirst(t, 1) ELSE t
HasDigit(t) == \E i \in 1..Len(t) : t[i] \in Digits
IsNumeral ==
  /\ Cardinality(Es) <= 1 /\ (Es = {} => ~StartsWith(s, PLUS))
  /\ HasDigit(Body(Mantissa)) /\ HasDigit(Body(Exponent))
  /\ \A i \in 1..Len(Body(Mantissa)) : Body(Mantissa)[i] \in Digits \cup {POINT}
  /\ \A i \in 1..Len(Body(Exponent)) : Body(Exponent)[i] \in Digits
  /\ Cardinality(PointsOf(Mantissa)) <= 1
(* The numeral's value is M / 10^K, where K may be negative. *)
M == Sign(Mantissa) * ValueOf(Body(Mantissa))
K == LET points == PointsOf(Mantissa)
     IN  (IF points = {} THEN 0 ELSE Len(Mantissa) - Max(points))
           - Sign(Exponent) * ValueOf(Body(Exponent))

(* An option's numeral is read as the number it denotes, as a long double.     *)
LongDoubleIsExact ==
  LET d == optValueToLongDouble(s)
      q == Min({K, d.v.k})
  IN  IsNumeral => d.ok /\ d.v.m * 10^(K - q) = M * 10^(d.v.k - q)

(* An option's numeral with an exponent is read as an integer exactly if it     *)
(* denotes one and that fits the type; without an exponent it must be written   *)
(* without a point.                                                             *)
IntegralIsExact ==
  LET v == optValueToIntegral(s, FALSE)
      value == IF K >= 0 THEN M \div 10^K ELSE M * 10^(-K)
      integral == K <= 0 \/ M % 10^K = 0
  IN  IsNumeral => /\ v.ok <=> (integral /\ value \in T_MIN..T_MAX /\ (Es = {} => PointsOf(s) = {}))
                   /\ v.ok => v.v = value
==============================================================================
