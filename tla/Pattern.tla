------------------------------- MODULE Pattern -------------------------------
(***************************************************************************)
(* The regex-like pattern of testlib.h: its constructor, which parses a      *)
(* string into a tree of character sets with counts, and the greedy match    *)
(* without backtracking inside a repetition.  A pattern is                   *)
(*   [ok, chars, from, to, children];                                        *)
(* ok is FALSE where the constructor calls __testlib_fail ("Illegal          *)
(* pattern").  Positions count from 1.                                       *)
(***************************************************************************)
EXTENDS TestlibChars

CONSTANT INT_MAX_COUNT  \* INT_MAX, the upper count of * and +

SLASH == 92
Illegal == [ok |-> FALSE]
Node(chars, from, to, children) ==
  [ok |-> TRUE, chars |-> chars, from |-> from, to |-> to, children |-> children]

__pattern_isCommandChar(s, pos, value) ==
  LET slashes == Max({k \in 0..(pos - 1) : \A i \in 1..k : s[pos - i] = SLASH})
  IN  pos \in 1..Len(s) /\ slashes % 2 = 0 /\ s[pos] = value

(* The character at pos, a slash quoting the one after it, and the position    *)
(* after it; a slash at the very end quotes the string's terminating NUL.      *)
__pattern_getChar(s, pos) ==
  LET next == IF s[pos] = SLASH THEN pos + 2 ELSE pos + 1
  IN  [c |-> IF next - 1 \in 1..Len(s) THEN s[next - 1] ELSE 0, pos |-> next]

-----------------------------------------------------------------------------
(* sscanf's %d: an optional sign and the digits after it. *)
ScanInt(s) ==
  LET minus == s # <<>> /\ s[1] = MINUS
      body == IF minus \/ (s # <<>> /\ s[1] = 43) THEN DropFirst(s, 1) ELSE s
      n == SpanLen(body, Digits)
      value[k \in 0..n] == IF k = 0 THEN 0 ELSE 10 * value[k - 1] + body[k] - 48
  IN  [ok |-> n > 0, v |-> IF minus THEN -value[n] ELSE value[n]]

(* The parts between braces, from pos to the closing one. *)
RECURSIVE CountParts(_, _, _, _)
CountParts(s, pos, part, parts) ==
  IF pos <= Len(s) /\ ~__pattern_isCommandChar(s, pos, 125)
    THEN IF __pattern_isCommandChar(s, pos, 44)
           THEN CountParts(s, pos + 1, <<>>, Append(parts, part))
           ELSE LET g == __pattern_getChar(s, pos)
                IN  CountParts(s, g.pos, Append(part, g.c), parts)
    ELSE [pos |-> pos, parts |-> IF part = <<>> THEN parts ELSE Append(parts, part)]

(* The count after a character set: [ok, from, to, pos]. *)
__pattern_scanCounts(s, pos) ==
  LET Counts(from, to, p) == [ok |-> TRUE, from |-> from, to |-> to, pos |-> p]
      braces == CountParts(s, pos + 1, <<>>, <<>>)
      parts == braces.parts
      numbers == [i \in 1..Len(parts) |-> ScanInt(parts[i])]
  IN  CASE __pattern_isCommandChar(s, pos, 123) ->
             IF /\ __pattern_isCommandChar(s, braces.pos, 125)
                /\ Len(parts) \in 1..2
                /\ \A i \in 1..Len(parts) : numbers[i].ok
                /\ numbers[1].v <= numbers[Len(parts)].v
               THEN Counts(numbers[1].v, numbers[Len(parts)].v, braces.pos + 1)
               ELSE Illegal
        [] __pattern_isCommandChar(s, pos, 63) -> Counts(0, 1, pos + 1)
        [] __pattern_isCommandChar(s, pos, 42) -> Counts(0, INT_MAX_COUNT, pos + 1)
        [] __pattern_isCommandChar(s, pos, 43) -> Counts(1, INT_MAX_COUNT, pos + 1)
        [] OTHER -> Counts(1, 1, pos)

(* The loop over the inside of [...]; prev is the character not yet added,   *)
(* 0 if there is none.                                                        *)
RECURSIVE SetChars(_, _, _, _)
SetChars(s, pos, prev, acc) ==
  LET added == IF prev = 0 THEN acc ELSE acc \cup {prev} IN
  CASE pos > Len(s) \/ __pattern_isCommandChar(s, pos, 93) ->
         [ok |-> pos <= Len(s), chars |-> added, pos |-> pos + 1]
    [] pos <= Len(s) /\ ~__pattern_isCommandChar(s, pos, 93) ->
         IF __pattern_isCommandChar(s, pos, MINUS) /\ prev # 0
           THEN IF pos + 1 = Len(s) \/ __pattern_isCommandChar(s, pos + 1, 93)
                  THEN SetChars(s, pos + 1, MINUS, added)
                  ELSE LET g == __pattern_getChar(s, pos + 1)
                       IN  IF prev > g.c THEN Illegal
                                         ELSE SetChars(s, g.pos, 0, acc \cup (prev..g.c))
           ELSE LET g == __pattern_getChar(s, pos) IN SetChars(s, g.pos, g.c, added)

(* [^...]: every char(code), code < 255, that is not in the set. *)
Complement(chars) == ((-128)..127 \ {-1}) \ chars

(* The character set at pos, a single character or [...]: [ok, chars, pos]. *)
__pattern_scanCharSet(s, pos) ==
  IF pos > Len(s) THEN Illegal
  ELSE IF __pattern_isCommandChar(s, pos, 91)
    THEN LET negative == __pattern_isCommandChar(s, pos + 1, 94)
             r == SetChars(s, IF negative THEN pos + 2 ELSE pos + 1, 0, {})
         IN  IF r.ok /\ negative THEN [r EXCEPT !.chars = Complement(@)] ELSE r
    ELSE LET g == __pattern_getChar(s, pos) IN [ok |-> TRUE, chars |-> {g.c}, pos |-> g.pos]

-----------------------------------------------------------------------------
(* Where the alternatives of the top level are separated. *)
Seps(s, depth) == {i \in 1..Len(s) : __pattern_isCommandChar(s, i, 124) /\ depth[i] = 0}

Ascending(S) ==
  [k \in 1..Cardinality(S) |-> CHOOSE x \in S : Cardinality({y \in S : y < x}) = k - 1]

(* All spaces that are not quoted are dropped. *)
WithoutSpaces(s) ==
  LET kept[k \in 0..Len(s)] ==
        IF k = 0 THEN <<>>
        ELSE IF __pattern_isCommandChar(s, k, SPACE) THEN kept[k - 1]
        ELSE Append(kept[k - 1], s[k])
  IN  kept[Len(s)]

(* The constructor pattern(src). *)
RECURSIVE Compile(_)
Compile(src) ==
  LET s == WithoutSpaces(src)
      n == Len(s)
      opens(i) == __pattern_isCommandChar(s, i, 40)
      closes(i) == __pattern_isCommandChar(s, i, 41)
      depth == [i \in 0..n |-> Cardinality({j \in 1..i : opens(j)})
                                 - Cardinality({j \in 1..i : closes(j)})]
      seps == Seps(s, depth)
      ends == Ascending(seps \cup {n + 1})
      firstClose == Min({n + 2} \cup {i \in 1..n : closes(i) /\ depth[i] = 0})
      Parent(children) ==
        IF \A i \in 1..Len(children) : children[i].ok THEN Node({}, 0, 0, children) ELSE Illegal
      set == __pattern_scanCharSet(s, 1)
      count == __pattern_scanCounts(s, set.pos)
      tail == IF count.pos > n THEN <<>> ELSE <<Compile(SubSeq(s, count.pos, n))>>
  IN  CASE depth[n] # 0 \/ \E i \in 1..n : depth[i] < 0 /\ ~opens(i) /\ ~closes(i) -> Illegal
        [] OTHER ->
           IF seps = {} /\ firstClose = n /\ opens(1)
             THEN Parent(<<Compile(SubSeq(s, 2, n - 1))>>)
           ELSE IF seps # {}
             THEN Parent([i \in 1..Len(ends) |->
                    Compile(SubSeq(s, IF i = 1 THEN 1 ELSE ends[i - 1] + 1, ends[i] - 1))])
           ELSE IF ~set.ok THEN Illegal
           ELSE IF ~count.ok THEN Illegal
           ELSE IF \E i \in 1..Len(tail) : ~tail[i].ok THEN Illegal
           ELSE Node(set.chars, count.from, count.to, tail)

-----------------------------------------------------------------------------
__pattern_greedyMatch(s, pos, chars) == SpanLen(DropFirst(s, pos - 1), chars)

(* Mutant: the upper count is not applied. *)
MutantTaken(size, to) == size

(* How much of a greedy run of `size' characters a count uses up. *)
TakenOf(size, to) == IF size > to THEN to ELSE size

Enough(size, from) == size >= from

RECURSIVE MatchesFrom(_, _, _)
MatchesFrom(p, s, pos) ==
  LET size == __pattern_greedyMatch(s, pos, p.chars)
      next == IF p.to > 0 THEN pos + TakenOf(size, p.to) ELSE pos
  IN  /\ p.to > 0 => Enough(size, p.from)
      /\ IF p.children = <<>>
           THEN next = Len(s) + 1
           ELSE \E i \in 1..Len(p.children) : MatchesFrom(p.children[i], s, next)

(* pattern::matches(s). *)
matches(p, s) == MatchesFrom(p, s, 1)

(* The counts rnd.next(to - from + 1) + from can give. *)
Drawn(from, to) == from..to

(* Can pattern::next give s from position pos on?  It fails at a node without *)
(* an upper count.                                                             *)
RECURSIVE GeneratesFrom(_, _, _)
GeneratesFrom(p, s, pos) ==
  /\ p.to # INT_MAX_COUNT
  /\ \E count \in IF p.to > 0 THEN Drawn(p.from, p.to) ELSE {0} :
       /\ pos + count <= Len(s) + 1
       /\ \A i \in pos..(pos + count - 1) : s[i] \in p.chars
       /\ IF p.children = <<>>
            THEN pos + count = Len(s) + 1
            ELSE \E i \in 1..Len(p.children) : GeneratesFrom(p.children[i], s, pos + count)
=============================================================================
