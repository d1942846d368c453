-------------------------- MODULE MCTestlibNumbers --------------------------
(***************************************************************************)
(* Every token over a small alphabet, built one character at a time, and    *)
(* what the conversions of testlib.h make of it.                            *)
(***************************************************************************)
EXTENDS TestlibNumbers

CONSTANTS TokenLength, EpsInv   \* bounds: the tokens' length; 1 / error bound

VARIABLE tok
Init == tok = <<>>
Next == /\ Len(tok) < TokenLength
        /\ \E c \in {48, 49, 50, 45, 43, 46, 101} : tok' = Append(tok, c)
Spec == Init /\ [][Next]_tok

(* The decimal numeral of a natural number, without leading zeroes. *)
Decimal(n) ==
  LET numeral[k \in 0..n] == IF k < 10 THEN <<ZERO + k>>
                                       ELSE numeral[k \div 10] \o <<ZERO + (k % 10)>>
  IN  numeral[n]
Numeral(v) == IF v < 0 THEN <<MINUS>> \o Decimal(-v) ELSE Decimal(v)

(* The numeral of m * 10^-k with exactly k digits after the point. *)
StrictNumeral(m, k) ==
  LET a == Abs(m) 
      frac == [i \in 1..k |-> ZERO + ((a \div 10 ^ (k - i)) % 10)]
  IN  (IF m < 0 THEN <<MINUS>> ELSE <<>>) \o Decimal(a \div 10 ^ k)
        \o (IF k = 0 THEN <<>> ELSE <<POINT>> \o frac)

-----------------------------------------------------------------------------
(* stringToLongLong accepts a token exactly if it is the one canonical        *)
(* numeral of a number in range, and returns that number: no leading zeroes,  *)
(* no minus zero, no plus, no overflow.                                        *)
LongIsCanonical ==
  LET r == stringToLongLong(tok) IN
  /\ r.ok => r.v \in LLONG_MIN..LLONG_MAX /\ tok = Numeral(r.v)
  /\ \A v \in LLONG_MIN..LLONG_MAX : tok = Numeral(v) => r.ok

(* The same for stringToUnsignedLongLong. *)
UnsignedIsCanonical ==
  LET r == stringToUnsignedLongLong(tok) IN
  /\ r.ok => r.v \in 0..ULLONG_MAX /\ tok = Numeral(r.v)
  /\ \A v \in 0..ULLONG_MAX : tok = Numeral(v) => r.ok

(* stringToStrictDouble accepts a token exactly if it is the fixed-point      *)
(* numeral of a number with an allowed count of digits after the point, and   *)
(* the ordinary stringToDouble reads the same value from it.                   *)
StrictDoubleIsCanonical ==
  /\ \A lo \in 0..1, hi \in 0..2 :
       LET r == stringToStrictDouble(tok, lo, hi) IN
       lo <= hi /\ r.ok =>
         /\ \E k \in lo..hi : tok = StrictNumeral((r.v.u * 10 ^ k) \div 10 ^ FracDigits, k)
         /\ stringToDouble(tok) = r
  /\ Len(tok) <= MaxStrictLength =>
       \A k \in 0..2, m \in -130..130 : tok = StrictNumeral(m, k) =>
         \A lo \in 0..1, hi \in 0..2 : k \in lo..hi => stringToStrictDouble(tok, lo, hi).ok

(* doubleCompare accepts a finite result exactly if the error that            *)
(* doubleDelta reports, the lesser of absolute and relative, is within the    *)
(* bound; and it tells the infinities and NaN from everything else.            *)
CompareIsErrorBound ==
  LET r == stringToDouble(tok) IN
  r.ok => \A y \in {Finite(u) : u \in -150..150} \cup {Infinity(1), Infinity(-1), NaN} :
    doubleCompare(r.v, y, EpsInv) <=>
      IF __testlib_isInfinite(r.v) \/ y.kind # "finite"
        THEN __testlib_isInfinite(r.v) /\ y = Infinity(Sign(r.v))
        ELSE DeltaAtMost(r.v, y, EpsInv)
=============================================================================
