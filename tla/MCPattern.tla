------------------------------ MODULE MCPattern ------------------------------
(***************************************************************************)
(* Patterns put together from items whose language is known, written out    *)
(* in the syntax of testlib.h, and matched against every short string.      *)
(* A pattern is a sequence of items and, after it, a group of alternatives. *)
(***************************************************************************)
EXTENDS Pattern

CONSTANT MaxSubject     \* bound: the length of the strings matched

Letters == {97, 98, 42}         \* a, b and *, which must be quoted
Sets == {[text |-> <<97>>, chars |-> {97}],
         [text |-> <<91, 97, 45, 98, 93>>, chars |-> {97, 98}],            \* [a-b]
         [text |-> <<91, 94, 97, 93>>, chars |-> Complement({97})],        \* [^a]
         [text |-> <<32, SLASH, 42>>, chars |-> {42}]}                     \* " \*"
Counts == {[text |-> <<>>, from |-> 1, to |-> 1],
           [text |-> <<63>>, from |-> 0, to |-> 1],
           [text |-> <<42>>, from |-> 0, to |-> INT_MAX_COUNT],
           [text |-> <<43>>, from |-> 1, to |-> INT_MAX_COUNT],
           [text |-> <<123, 49, 44, 50, 125>>, from |-> 1, to |-> 2]}      \* {1,2}
Items == {[text |-> s.text \o c.text, chars |-> s.chars, from |-> c.from, to |-> c.to] :
            s \in Sets, c \in Counts}
Groups == {<<>>} \cup {<<i, j>> : i, j \in {k \in Items : k.to = 1}}

VARIABLES head, group, compiled, subject

Text == LET items == (IF Len(head) > 0 THEN head[1].text ELSE <<>>) \o (IF Len(head) > 1 THEN head[2].text ELSE <<>>)
        IN  IF group = <<>> THEN items
            ELSE items \o <<40>> \o group[1].text \o <<124>> \o group[2].text \o <<41>>

Init == /\ head \in {<<>>} \cup {<<i>> : i \in Items} \cup (Items \X Items)
        /\ group \in Groups
        /\ head # <<>> \/ group # <<>>
        /\ Len(head) + Len(group) <= 3
        /\ compiled = Compile(Text)
        /\ subject = <<>>
Next == /\ Len(subject) < MaxSubject
        /\ \E c \in Letters : subject' = Append(subject, c)
        /\ UNCHANGED <<head, group, compiled>>
Spec == Init /\ [][Next]_<<head, group, compiled, subject>>

(* The language of a sequence of items, by all ways to split the string. *)
RECURSIVE InSequence(_, _)
InSequence(items, s) ==
  IF items = <<>> THEN s = <<>>
  ELSE \E k \in 0..Len(s) :
         /\ k \in items[1].from..items[1].to
         /\ \A i \in 1..k : s[i] \in items[1].chars
         /\ InSequence(Tail(items), DropFirst(s, k))
InLanguage == IF group = <<>> THEN InSequence(head, subject)
              ELSE \E i \in 1..2 : InSequence(Append(head, group[i]), subject)

(* No item's set meets the set of an item after it, so a greedy run cannot    *)
(* take what a later item needs.                                               *)
Unambiguous ==
  /\ \A i, j \in 1..Len(head) : i < j => head[i].chars \cap head[j].chars = {}
  /\ \A i \in 1..Len(head), g \in 1..Len(group) : head[i].chars \cap group[g].chars = {}

-----------------------------------------------------------------------------
(* The constructor accepts every well-formed pattern, and what the greedy     *)
(* matcher accepts is in the language of the pattern.                          *)
GreedyIsSound == compiled.ok /\ (matches(compiled, subject) => InLanguage)

(* The matcher misses a string of the language only in a pattern where one    *)
(* item can take what a later one needs ("[0-9]?1" of the header's comment).   *)
GreedyIsComplete == InLanguage /\ Unambiguous => matches(compiled, subject)

(* pattern::next generates strings of the language only, and all of them if    *)
(* every count has an upper end.                                               *)
GeneratesTheLanguage ==
  LET generated == GeneratesFrom(compiled, subject, 1)
      bounded == \A i \in 1..Len(head) : head[i].to # INT_MAX_COUNT
  IN  /\ generated => InLanguage
      /\ bounded /\ InLanguage => generated
=============================================================================
