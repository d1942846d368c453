---------------------------- MODULE ReaderProofs ----------------------------
(***************************************************************************)
(* Each reader of testlib.h is the stream of characters that InStream takes *)
(* it for, and keeps its books, for files of any length and any bounds.     *)
(*                                                                         *)
(* What a put-back relies on is the same for every reader, and is stated of *)
(* the stream: an EOFC was taken at the end only, and nothing else after    *)
(* it (StreamInv).  What the readers need of their own: the end marks of    *)
(* the buffer are its last slots and stand for an exhausted file, and every *)
(* slot used before the data is paid for by a put-back (BufferedInv); the   *)
(* two stacks of the unbuffered reader agree until feof, and the characters *)
(* taken since the last test case are the last ones read (FileInv); the     *)
(* string below the position is what the caller took (StringInv).           *)
(***************************************************************************)
EXTENDS TestlibReaders, SharedLemmas, TLAPS

Chars == 0..(EOFC - 1)
LineFeeds(t) == Cardinality({i \in 1..Len(t) : t[i] = LF})

EofsAreLast(t) == \A i, j \in 1..Len(t) : i <= j /\ t[i] = EOFC => t[j] = EOFC

StreamInv ==
  /\ StreamRest \in Seq(Chars) /\ taken \in Seq(0..EOFC)
  /\ StreamLine = 1 + LineFeeds(taken)
  /\ last.op = "curChar" => last.c = Stream!Here
  /\ EofsAreLast(taken)
  /\ \A i \in 1..Len(taken) : taken[i] = EOFC => StreamRest = <<>>

\* The buffered reader: what buffer b with end marks e holds between the position
\* p and the size z, and the bytes of file f that fread has not delivered, from g on.
FirstMark(e, p, z) == Min({z} \cup {i \in p..(z - 1) : e[i]})
HeldAt(b, e, p, z) == [i \in 1..(FirstMark(e, p, z) - p) |-> b[p + i - 1]]
RestAt(b, e, p, z, f, g) == HeldAt(b, e, p, z) \o SubSeq(f, g + 1, Len(f))
MarksAt(b, e, p, z) ==
  /\ \A i, j \in p..(z - 1) : i <= j /\ e[i] => e[j]
  /\ \A i \in p..(z - 1) : ~e[i] => b[i] \in Chars
BufOK(b, e, p, z, f, g) ==
  /\ p \in Nat /\ z \in Nat /\ p <= z
  /\ f \in Seq(Chars) /\ g \in Nat /\ g <= Len(f)
  /\ MarksAt(b, e, p, z)
  /\ (\E i \in p..(z - 1) : e[i]) => g = Len(f)
Allocated(b, e, z) ==
  /\ b = [i \in Slots |-> b[i]] /\ e \in [Slots -> BOOLEAN]
  /\ z \in MAX_UNREAD_COUNT..BUFFER_SIZE
SlotsLeft(p, n, k) ==
  n \in 0..MaxUnread /\ k \in 0..MaxEofPeeks /\ p + n + k >= MAX_UNREAD_COUNT
BufferedInv ==
  /\ BufOK(buffer, isEof, bufferPos, bufferSize, file, fetched)
  /\ Allocated(buffer, isEof, bufferSize)
  /\ SlotsLeft(bufferPos, putBack, eofPeeks)
  /\ failed = FALSE
  /\ last.op = "curChar" /\ last.c # EOFC => bufferPos < bufferSize

\* The unbuffered reader: its record, and, before the end was met, the markup: what it
\* keeps of the characters is what was taken, and those taken since the last test
\* case are the last ones read.
ReaderOK(q) ==
  /\ q \in [off : 0..Len(file), feof : BOOLEAN, undo : Seq(Int), read : Seq(Int),
            undoRead : Seq(Int), line : Int]
  /\ ~q.feof => q.undo \in Seq(Chars) /\ q.undoRead = q.undo
MarkupOK(rd, t, fl) ==
  /\ rd \in Seq(Int) /\ t \in Seq(0..EOFC) /\ fl \in 0..Len(t)
  /\ Len(t) - fl <= Len(rd)
  /\ \A k \in 1..(Len(t) - fl) : rd[Len(rd) + 1 - k] = t[Len(t) + 1 - k]
  /\ Unbuffered!Kept(rd, 0..EOFC) = t
FileInv ==
  /\ file \in Seq(Chars) /\ floor \in 0..Len(taken) /\ testCase \in Nat
  /\ ReaderOK(r)
  /\ ~r.feof => /\ \A i \in 1..Len(taken) : taken[i] # EOFC
                /\ MarkupOK(r.read, taken, floor)

StringInv ==
  /\ file \in Seq(Chars) /\ pos = Len(taken) /\ failed = FALSE
  /\ \A i \in 1..Len(taken) : taken[i] = IF i <= Len(file) THEN file[i] ELSE EOFC

ReadersInv ==
  /\ part \in {"buffered", "unbuffered", "string"} /\ StreamInv
  /\ part = "buffered" => BufferedInv
  /\ part = "unbuffered" => FileInv
  /\ part = "string" => StringInv

-----------------------------------------------------------------------------
\* Sequences: one character taken off the front, and put there.

\* q is the character c followed by t.
IsCons(q, c, t) ==
  /\ q \in Seq(Chars) /\ t \in Seq(Chars) /\ c \in Chars
  /\ Len(q) = Len(t) + 1 /\ q[1] = c
  /\ \A i \in 1..Len(t) : q[i + 1] = t[i]

\* So DropFirst takes it off and \o puts it there.
LEMMA ConsIs ==
  ASSUME NEW q, NEW c, NEW t, IsCons(q, c, t)
  PROVE  q # <<>> /\ q[1] = c /\ DropFirst(q, 1) = t /\ <<c>> \o t = q
<1> DEFINE n == Len(t)
           d == SubSeq(q, 2, Len(q))
           p == <<c>> \o t
<1>1. /\ q \in Seq(Chars) /\ t \in Seq(Chars) /\ c \in Chars /\ n \in Nat
      /\ Len(q) = n + 1 /\ q[1] = c
      /\ \A i \in 1..n : q[i + 1] = t[i]
  BY LenProperties DEF IsCons
<1>2. \A i \in 2..(n + 1) : q[i] \in Chars
  BY <1>1, ElementOfSeq
<1> HIDE DEF n
<1>3. d = t
  <2>1. d = SubSeq(q, 2, n + 1)
    BY <1>1
  <2>2. /\ d \in Seq(Chars) /\ Len(d) = IF 2 <= n + 1 THEN (n + 1) - 2 + 1 ELSE 0
        /\ \A i \in 1..((n + 1) - 2 + 1) : d[i] = q[2 + i - 1]
    <3>1. n + 1 \in Int /\ 2 \in Int
      BY <1>1
    <3> QED
      BY <1>2, <2>1, <3>1, SubSeqProperties
  <2> HIDE DEF d
  <2>3. Len(d) = n
    BY <1>1, <2>2
  <2>4. ASSUME NEW i \in 1..n PROVE d[i] = t[i]
    <3>1. d[i] = q[2 + i - 1] /\ 2 + i - 1 = i + 1
      BY <1>1, <2>2
    <3> QED
      BY <1>1, <3>1
  <2> QED
    BY <1>1, <2>2, <2>3, <2>4, SeqEqual DEF n
<1>4. p = q
  <2>1. /\ <<c>> \in Seq(Chars) /\ Len(<<c>>) = 1 /\ <<c>>[1] = c
    BY <1>1
  <2>2. /\ p \in Seq(Chars) /\ Len(p) = 1 + n
        /\ \A i \in 1..1 + n : p[i] = IF i <= 1 THEN <<c>>[i] ELSE t[i - 1]
    BY <1>1, <2>1, ConcatProperties DEF n
  <2> HIDE DEF p
  <2>3. ASSUME NEW i \in 1..(n + 1) PROVE p[i] = q[i]
    <3>1. CASE i = 1
      BY <1>1, <2>1, <2>2, <3>1
    <3>2. CASE i # 1
      <4> DEFINE j == i - 1
      <4>1. j \in 1..n /\ j + 1 = i /\ ~(i <= 1) /\ i \in 1..1 + n
        BY <1>1, <3>2
      <4>2. p[i] = t[j]
        BY <2>2, <4>1
      <4> HIDE DEF j
      <4>3. q[i] = t[j]
        BY <1>1, <4>1
      <4> QED
        BY <4>2, <4>3
    <3> QED
      BY <3>1, <3>2
  <2>4. Len(p) = Len(q)
    BY <1>1, <2>2
  <2> QED
    BY <1>1, <2>2, <2>3, <2>4, SeqEqual
<1>5. q # <<>>
  BY <1>1
<1> QED
  BY <1>1, <1>3, <1>4, <1>5 DEF DropFirst

\* What DropFirst leaves, place by place.
LEMMA DropIs ==
  ASSUME NEW q \in Seq(Chars), NEW k \in Nat, NEW d, d = SubSeq(q, k + 1, Len(q))
  PROVE  /\ Len(q) \in Nat /\ d \in Seq(Chars)
         /\ Len(d) = IF k < Len(q) THEN Len(q) - k ELSE 0
         /\ \A i \in 1..Len(d) : d[i] = q[k + i]
<1> DEFINE n == Len(q)
           m == k + 1
<1>1. n \in Nat /\ \A i \in 1..n : q[i] \in Chars
  BY LenProperties, ElementOfSeq
<1>2. d = SubSeq(q, m, n)
  OBVIOUS
<1> HIDE DEF n
<1>3. m \in Int /\ n \in Int /\ \A i \in m..n : q[i] \in Chars
  BY <1>1
<1> HIDE DEF m
<1>4. /\ d \in Seq(Chars) /\ Len(d) = IF m <= n THEN n - m + 1 ELSE 0
      /\ \A i \in 1..n - m + 1 : d[i] = q[m + i - 1]
  <2> DEFINE f == SubSeq(q, m, n)
  <2>1. /\ f \in Seq(Chars) /\ Len(f) = IF m <= n THEN n - m + 1 ELSE 0
        /\ \A i \in 1..n - m + 1 : f[i] = q[m + i - 1]
    BY <1>3, SubSeqProperties
  <2>2. d = f
    BY <1>2
  <2> HIDE DEF f
  <2> QED BY <2>1, <2>2
<1>5. Len(d) = IF k < n THEN n - k ELSE 0
  BY <1>1, <1>4 DEF m
<1>6. ASSUME NEW i \in 1..Len(d) PROVE d[i] = q[k + i]
  <2>1. i \in 1..n - m + 1 /\ m + i - 1 = k + i
    BY <1>1, <1>5 DEF m
  <2>2. d[i] = q[m + i - 1]
    BY <1>4, <2>1
  <2> QED
    BY <2>1, <2>2
<1> QED
  BY <1>1, <1>4, <1>5, <1>6 DEF n

\* Two of them that differ by one place differ by that character.
LEMMA DropOne ==
  ASSUME NEW q \in Seq(Chars), NEW k \in Nat
  PROVE  /\ SubSeq(q, k + 1, Len(q)) \in Seq(Chars)
         /\ k >= Len(q) => SubSeq(q, k + 1, Len(q)) = <<>>
         /\ k < Len(q) => IsCons(SubSeq(q, k + 1, Len(q)), q[k + 1], SubSeq(q, k + 1 + 1, Len(q)))
<1> DEFINE n == Len(q)
           m == k + 1
           d == SubSeq(q, k + 1, n)
           e == SubSeq(q, m + 1, n)
<1>1. /\ n \in Nat /\ d \in Seq(Chars) /\ Len(d) = IF k < n THEN n - k ELSE 0
      /\ \A i \in 1..Len(d) : d[i] = q[k + i]
  BY DropIs
<1>m. m \in Nat
  OBVIOUS
<1>2. /\ e \in Seq(Chars) /\ Len(e) = IF m < n THEN n - m ELSE 0
      /\ \A i \in 1..Len(e) : e[i] = q[m + i]
  <2> HIDE DEF m
  <2> QED BY <1>m, DropIs
<1>3. d = SubSeq(q, k + 1, Len(q)) /\ e = SubSeq(q, k + 1 + 1, Len(q))
  OBVIOUS
<1> HIDE DEF d, e
<1>4. ASSUME k >= n PROVE d = <<>>
  <2>1. Len(d) = 0
    BY <1>1, <1>4
  <2> QED
    BY <1>1, <2>1, EmptySeq
<1>5. ASSUME k < n PROVE IsCons(d, q[m], e)
  <2>1. m \in 1..n /\ Len(d) = n - k /\ Len(e) = n - m
    BY <1>1, <1>2, <1>5
  <2>2. q[m] \in Chars
    BY <2>1, ElementOfSeq
  <2>3. Len(d) = Len(e) + 1 /\ 1 \in 1..Len(d)
    BY <1>1, <2>1
  <2>4. d[1] = q[m]
    BY <1>1, <2>3
  <2>5. ASSUME NEW i \in 1..Len(e) PROVE d[i + 1] = e[i]
    <3>1. i + 1 \in 1..Len(d) /\ k + (i + 1) = m + i
      BY <1>1, <2>1
    <3>2. d[i + 1] = q[k + (i + 1)]
      BY <1>1, <3>1
    <3>3. e[i] = q[m + i]
      BY <1>2
    <3> QED
      BY <3>1, <3>2, <3>3
  <2> QED
    BY <1>1, <1>2, <2>2, <2>3, <2>4, <2>5 DEF IsCons
<1> QED
  BY <1>1, <1>3, <1>4, <1>5

\* The same with more characters behind.
LEMMA ConsLeft ==
  ASSUME NEW q, NEW c, NEW t, IsCons(q, c, t), NEW u \in Seq(Chars)
  PROVE  IsCons(q \o u, c, t \o u)
<1> DEFINE n == Len(t)
           m == n + 1
           x == q \o u
           y == t \o u
           k == Len(u)
<1>1. /\ q \in Seq(Chars) /\ t \in Seq(Chars) /\ c \in Chars /\ n \in Nat /\ k \in Nat
      /\ Len(q) = m /\ q[1] = c
      /\ \A i \in 1..n : q[i + 1] = t[i]
  BY LenProperties DEF IsCons
<1>2. /\ x \in Seq(Chars) /\ Len(x) = m + k
      /\ \A i \in 1..m + k : x[i] = IF i <= m THEN q[i] ELSE u[i - m]
  <2> HIDE DEF m
  <2> QED BY <1>1, ConcatProperties
<1>3. /\ y \in Seq(Chars) /\ Len(y) = n + k
      /\ \A i \in 1..n + k : y[i] = IF i <= n THEN t[i] ELSE u[i - n]
  BY <1>1, ConcatProperties
<1> HIDE DEF n, k, x, y
<1>4. Len(x) = Len(y) + 1
  BY <1>1, <1>2, <1>3
<1>5. x[1] = c
  <2>1. 1 \in 1..m + k /\ 1 <= m
    BY <1>1
  <2> QED
    BY <1>1, <1>2, <2>1
<1>6. ASSUME NEW i \in 1..Len(y) PROVE x[i + 1] = y[i]
  <2> DEFINE j == i + 1
  <2>1. i \in 1..n + k /\ j \in 1..m + k /\ i \in Int
    BY <1>1, <1>3
  <2>2. CASE i <= n
    <3>1. j <= m /\ i \in 1..n
      BY <1>1, <2>1, <2>2
    <3>2. x[j] = q[j] /\ y[i] = t[i]
      <4> HIDE DEF j, m
      <4> QED BY <1>2, <1>3, <2>1, <2>2, <3>1
    <3> QED
      BY <1>1, <3>1, <3>2
  <2>3. CASE ~(i <= n)
    <3>1. ~(j <= m) /\ j - m = i - n
      BY <1>1, <2>1, <2>3
    <3>2. x[j] = u[j - m] /\ y[i] = u[i - n]
      <4> HIDE DEF j, m
      <4> QED BY <1>2, <1>3, <2>1, <2>3, <3>1
    <3> QED
      BY <3>1, <3>2
  <2> QED
    BY <2>2, <2>3
<1>7. IsCons(x, c, y)
  BY <1>1, <1>2, <1>3, <1>4, <1>5, <1>6 DEF IsCons
<1> QED
  BY <1>7 DEF x, y

\* The instances of the readers and of the stream mean the same characters.
LEMMA SameChars ==
  /\ LF = 10 /\ EOFC = 255
  /\ Stream!LF = 10 /\ Stream!EOFC = 255 /\ \A q, k : Stream!DropFirst(q, k) = DropFirst(q, k)
  /\ Strings!LF = 10 /\ Strings!EOFC = 255 /\ \A q, k : Strings!DropFirst(q, k) = DropFirst(q, k)
  /\ Unbuffered!LF = 10 /\ Unbuffered!EOFC = 255 /\ Unbuffered!EOF = -1
BY DEF LF, EOFC, DropFirst, Stream!LF, Stream!EOFC, Stream!DropFirst, Strings!LF, Strings!EOFC,
       Strings!DropFirst, Unbuffered!LF, Unbuffered!EOFC, Unbuffered!EOF

\* And they count the same lines.
LEMMA SameLines ==
  ASSUME NEW c
  PROVE  /\ LineStep(c) = Stream!LineStep(c) /\ LineBack(c) = Stream!LineStep(c)
         /\ Unbuffered!LineStep(c) = Stream!LineStep(c) /\ Stream!LineStep(c) \in {0, 1}
         /\ Stream!LineStep(EOFC) = 0
BY SameChars DEF LineStep, LineBack, Unbuffered!LineStep, Stream!LineStep

\* A character is put back as itself.
LEMMA ToCharIs ==
  ASSUME NEW c \in Chars
  PROVE  c # EOFC /\ c # -1 /\ ToChar(c) = c /\ Strings!ToChar(c) = c
BY DEF Chars, EOFC, ToChar, Strings!ToChar, Strings!EOFC

\* The line feeds of what was taken.
LEMMA LineFeedsEmpty == LineFeeds(<<>>) = 0
<1>1. {i \in 1..Len(<<>>) : <<>>[i] = LF} = {}
  OBVIOUS
<1> QED
  BY <1>1, FS_EmptySet DEF LineFeeds

\* Appending a character adds one line feed or none.
LEMMA LineFeedsAppend ==
  ASSUME NEW t \in Seq(0..EOFC), NEW c \in 0..EOFC
  PROVE  /\ LineFeeds(t) \in Nat
         /\ LineFeeds(Append(t, c)) = LineFeeds(t) + Stream!LineStep(c)
<1> DEFINE n == Len(t)
           S == {i \in 1..n : t[i] = LF}
           q == Append(t, c)
           Q == {i \in 1..Len(q) : q[i] = LF}
<1>1. n \in Nat /\ Len(q) = n + 1 /\ (\A i \in 1..n : q[i] = t[i]) /\ q[n + 1] = c
  BY AppendProperties
<1>2. IsFiniteSet(S) /\ Cardinality(S) \in Nat
  <2>1. IsFiniteSet(1..n)
    BY <1>1, FS_Interval
  <2> QED
    BY <2>1, FS_Subset, FS_CardinalityType
<1>0. LineFeeds(t) = Cardinality(S) /\ LineFeeds(q) = Cardinality(Q)
  BY DEF LineFeeds
<1> HIDE DEF q, n
<1>3. CASE c = LF
  <2>1. Q = S \cup {n + 1}
    BY <1>1, <1>3
  <2>2. n + 1 \notin S
    BY <1>1
  <2>3. Cardinality(Q) = Cardinality(S) + 1
    <3> HIDE DEF S, Q
    <3> QED BY <1>2, <2>1, <2>2, FS_AddElement
  <2>4. Stream!LineStep(c) = 1
    BY <1>3, SameChars DEF Stream!LineStep
  <2> HIDE DEF S, Q
  <2> QED
    BY <1>0, <1>2, <2>3, <2>4 DEF q
<1>4. CASE c # LF
  <2>1. Q = S
    BY <1>1, <1>4
  <2>2. Stream!LineStep(c) = 0
    BY <1>4, SameChars DEF Stream!LineStep
  <2> HIDE DEF S, Q
  <2> QED
    BY <1>0, <1>2, <2>1, <2>2 DEF q
<1> QED
  BY <1>3, <1>4

-----------------------------------------------------------------------------
\* The stream: what a step of any reader has to show.

StreamStep == StreamInv' /\ Stream!Next

\* A call that only looks.
LEMMA LookOK ==
  ASSUME StreamInv, UNCHANGED <<StreamRest, StreamLine, taken>>,
         \/ last' = [op |-> "curChar", c |-> Stream!Here]
         \/ last' = [op |-> "eof", c |-> IF StreamRest = <<>> THEN 1 ELSE 0]
  PROVE  StreamStep
<1>1. Stream!Next
  BY DEF Stream!Next, Stream!CurChar, Stream!Eof
<1>2. Stream!Here' = Stream!Here
  BY DEF Stream!Here
<1>3. last'.op = "curChar" => last'.c = Stream!Here
  OBVIOUS
<1>4. StreamInv'
  BY <1>2, <1>3 DEF StreamInv, EofsAreLast
<1> QED
  BY <1>1, <1>4 DEF StreamStep

\* The caller's stack with one more character, and with one less.
LEMMA TakenGrows ==
  ASSUME NEW t \in Seq(0..EOFC), NEW c \in 0..EOFC
  PROVE  /\ Len(t) \in Nat /\ Append(t, c) \in Seq(0..EOFC) /\ Len(Append(t, c)) = Len(t) + 1
         /\ \A i \in 1..Len(t) : Append(t, c)[i] = t[i]
         /\ Append(t, c)[Len(t) + 1] = c
<1> DEFINE B == 0..EOFC
<1>1. t \in Seq(B) /\ c \in B
  OBVIOUS
<1> HIDE DEF B
<1>2. /\ Len(t) \in Nat /\ Append(t, c) \in Seq(B) /\ Len(Append(t, c)) = Len(t) + 1
      /\ \A i \in 1..Len(t) : Append(t, c)[i] = t[i]
      /\ Append(t, c)[Len(t) + 1] = c
  BY <1>1, AppendProperties, LenProperties
<1> QED
  BY <1>2 DEF B

\* Popping takes the last line feed with it.
LEMMA TakenShrinks ==
  ASSUME NEW t \in Seq(0..EOFC), t # <<>>, NEW u, u = SubSeq(t, 1, Len(t) - 1)
  PROVE  /\ Len(t) \in Nat /\ Len(t) > 0 /\ t[Len(t)] \in 0..EOFC
         /\ u \in Seq(0..EOFC) /\ Len(u) = Len(t) - 1
         /\ \A i \in 1..Len(u) : u[i] = t[i]
         /\ t = Append(u, t[Len(t)])
         /\ LineFeeds(u) \in Nat /\ LineFeeds(t) = LineFeeds(u) + Stream!LineStep(t[Len(t)])
<1> DEFINE n == Len(t)
           B == 0..EOFC
           c == t[n]
<1>0. t \in Seq(B)
  OBVIOUS
<1> HIDE DEF B
<1>1. t \in Seq(B) /\ n \in Nat /\ n > 0 /\ n \in 1..Len(t)
  BY <1>0, LenProperties, EmptySeq
<1>2. c \in B
  BY <1>1, ElementOfSeq
<1>3. u \in Seq(B) /\ Len(u) = n - 1 /\ \A i \in 1..n - 1 : u[i] = t[i]
  BY <1>1, WithoutLast
<1> HIDE DEF c, n
<1> DEFINE q == Append(u, c)
<1>4. /\ q \in Seq(B) /\ Len(q) = n
      /\ \A i \in 1..n : q[i] = IF i = n THEN c ELSE u[i]
  <2>1. q \in Seq(B) /\ Len(q) = Len(u) + 1 /\ (\A i \in 1..Len(u) : q[i] = u[i]) /\ q[Len(u) + 1] = c
    BY <1>2, <1>3, AppendProperties
  <2> HIDE DEF q
  <2> QED
    BY <1>1, <1>3, <2>1
<1> HIDE DEF q
<1>5. \A i \in 1..n : q[i] = t[i]
  BY <1>1, <1>3, <1>4 DEF c
<1>6. q = t
  BY <1>1, <1>4, <1>5, SeqEqual DEF n
<1>7. LineFeeds(u) \in Nat /\ LineFeeds(Append(u, c)) = LineFeeds(u) + Stream!LineStep(c)
  BY <1>2, <1>3, LineFeedsAppend DEF B
<1> QED
  BY <1>1, <1>2, <1>3, <1>6, <1>7 DEF B, n, c, q

\* A character is taken.
LEMMA TakeCharOK ==
  ASSUME StreamInv, NEW c, IsCons(StreamRest, c, StreamRest'),
         taken' = Append(taken, c), StreamLine' = StreamLine + Stream!LineStep(c),
         \/ last' = [op |-> "nextChar", c |-> c]
         \/ /\ last.op = "curChar" /\ last.c # EOFC
            /\ last' = [op |-> "skipChar", c |-> 0]
  PROVE  StreamStep
<1>1. StreamRest # <<>> /\ StreamRest[1] = c /\ DropFirst(StreamRest, 1) = StreamRest'
  BY ConsIs
<1>2. Stream!Here = c /\ c \in Chars /\ StreamRest' \in Seq(Chars)
  BY <1>1 DEF Stream!Here, IsCons
<1>3. Stream!Consume
  BY <1>1, <1>2, SameChars DEF Stream!Consume
<1>4. Stream!NextChar \/ Stream!SkipChar
  BY <1>2, <1>3, SameChars DEF Stream!NextChar, Stream!SkipChar, StreamInv
<1>5. c \in 0..EOFC /\ c # EOFC
  BY <1>2 DEF Chars, EOFC
<1>6. /\ taken \in Seq(0..EOFC) /\ Len(taken) \in Nat
      /\ taken' \in Seq(0..EOFC) /\ Len(taken') = Len(taken) + 1
      /\ \A i \in 1..Len(taken) : taken'[i] = taken[i]
      /\ taken'[Len(taken) + 1] = c
  BY <1>5, TakenGrows DEF StreamInv
<1>7. \A i \in 1..Len(taken) : taken[i] # EOFC
  BY <1>1 DEF StreamInv
<1>8. \A i \in 1..Len(taken') : taken'[i] # EOFC
  BY <1>5, <1>6, <1>7
<1>9. StreamLine' = 1 + LineFeeds(taken')
  <2>1. LineFeeds(taken) \in Nat /\ LineFeeds(Append(taken, c)) = LineFeeds(taken) + Stream!LineStep(c)
    BY <1>5, <1>6, LineFeedsAppend
  <2>2. StreamLine = 1 + LineFeeds(taken)
    BY DEF StreamInv
  <2>3. Stream!LineStep(c) \in Nat
    BY DEF Stream!LineStep
  <2> QED
    BY <2>1, <2>2, <2>3
<1>10. last'.op # "curChar"
  OBVIOUS
<1>11. StreamInv'
  BY <1>2, <1>6, <1>8, <1>9, <1>10 DEF StreamInv, EofsAreLast
<1> QED
  BY <1>4, <1>11 DEF StreamStep, Stream!Next

\* The end is taken.
LEMMA TakeEofOK ==
  ASSUME StreamInv, StreamRest = <<>>, UNCHANGED <<StreamRest, StreamLine>>,
         taken' = Append(taken, EOFC), last' = [op |-> "nextChar", c |-> EOFC]
  PROVE  StreamStep
<1>1. Stream!Here = EOFC
  BY SameChars DEF Stream!Here
<1>2. Stream!NextChar
  BY <1>1 DEF Stream!NextChar, Stream!Consume
<1>3. EOFC \in 0..EOFC
  BY SameChars
<1>4. /\ taken \in Seq(0..EOFC) /\ Len(taken) \in Nat
      /\ taken' \in Seq(0..EOFC) /\ Len(taken') = Len(taken) + 1
      /\ \A i \in 1..Len(taken) : taken'[i] = taken[i]
      /\ taken'[Len(taken) + 1] = EOFC
  BY <1>3, TakenGrows DEF StreamInv
<1>5. EofsAreLast(taken')
  BY <1>4 DEF StreamInv, EofsAreLast
<1>6. StreamLine' = 1 + LineFeeds(taken')
  <2>1. LineFeeds(taken) \in Nat /\ LineFeeds(Append(taken, EOFC)) = LineFeeds(taken) + Stream!LineStep(EOFC)
    BY <1>3, <1>4, LineFeedsAppend
  <2>2. Stream!LineStep(EOFC) = 0
    BY SameChars DEF Stream!LineStep
  <2> QED
    BY <2>1, <2>2 DEF StreamInv
<1>7. StreamInv'
  BY <1>4, <1>5, <1>6 DEF StreamInv
<1> QED
  BY <1>2, <1>7 DEF StreamStep, Stream!Next

\* What was taken last is put back.
LEMMA PutBackOK ==
  ASSUME StreamInv, NEW c, taken # <<>>, c = taken[Len(taken)],
         taken' = SubSeq(taken, 1, Len(taken) - 1), last' = [op |-> "unreadChar", c |-> c],
         StreamLine' = StreamLine - Stream!LineStep(c),
         IF c = EOFC THEN StreamRest' = StreamRest ELSE IsCons(StreamRest', c, StreamRest)
  PROVE  StreamStep
<1> DEFINE n == Len(taken)
<1>1. /\ taken \in Seq(0..EOFC) /\ n \in Nat /\ n > 0 /\ c \in 0..EOFC
      /\ taken' \in Seq(0..EOFC) /\ Len(taken') = n - 1
      /\ \A i \in 1..Len(taken') : taken'[i] = taken[i]
      /\ LineFeeds(taken') \in Nat /\ LineFeeds(taken) = LineFeeds(taken') + Stream!LineStep(c)
  BY TakenShrinks DEF StreamInv
<1>2. Stream!UnreadChar
  <2>1. StreamRest' = IF c = Stream!EOFC THEN StreamRest ELSE <<c>> \o StreamRest
    BY SameChars, ConsIs
  <2> QED
    BY <2>1 DEF Stream!UnreadChar
<1>3. StreamLine' = 1 + LineFeeds(taken')
  <2>1. StreamLine = 1 + LineFeeds(taken)
    BY DEF StreamInv
  <2>2. Stream!LineStep(c) \in Nat
    BY DEF Stream!LineStep
  <2> QED
    BY <1>1, <2>1, <2>2
<1> HIDE DEF n
<1>4. 1..Len(taken') \subseteq 1..n /\ n \in 1..n /\ (\A i \in 1..Len(taken') : i <= n)
  BY <1>1
<1>10. /\ \A i, j \in 1..n : i <= j /\ taken[i] = EOFC => taken[j] = EOFC
       /\ \A i \in 1..n : taken[i] = EOFC => StreamRest = <<>>
       /\ taken[n] = c
  BY DEF StreamInv, EofsAreLast, n
<1>11. EofsAreLast(taken')
  <2> SUFFICES ASSUME NEW i \in 1..Len(taken'), NEW j \in 1..Len(taken'), i <= j, taken'[i] = EOFC
               PROVE  taken'[j] = EOFC
    BY DEF EofsAreLast
  <2>1. taken'[i] = taken[i] /\ taken'[j] = taken[j] /\ i \in 1..n /\ j \in 1..n
    BY <1>1, <1>4
  <2> QED
    BY <1>10, <2>1
<1>5. StreamRest' \in Seq(Chars) /\ \A i \in 1..Len(taken') : taken'[i] = EOFC => StreamRest' = <<>>
  <2>1. CASE c = EOFC
    <3>1. StreamRest = <<>>
      BY <1>4, <1>10, <2>1
    <3> QED
      BY <2>1, <3>1 DEF StreamInv
  <2>2. CASE c # EOFC
    <3>1. StreamRest' \in Seq(Chars)
      BY <2>2 DEF IsCons
    <3>2. \A i \in 1..Len(taken') : taken'[i] # EOFC
      <4> SUFFICES ASSUME NEW i \in 1..Len(taken'), taken'[i] = EOFC PROVE FALSE
        OBVIOUS
      <4>1. taken'[i] = taken[i] /\ i \in 1..n /\ i <= n
        BY <1>1, <1>4
      <4> QED
        BY <1>4, <1>10, <2>2, <4>1
    <3> QED
      BY <3>1, <3>2
  <2> QED
    BY <2>1, <2>2
<1>6. StreamInv'
  <2>1. last'.op # "curChar"
    OBVIOUS
  <2> QED
    BY <1>1, <1>3, <1>5, <1>11, <2>1 DEF StreamInv
<1> QED
  BY <1>2, <1>6 DEF StreamStep, Stream!Next

-----------------------------------------------------------------------------
\* The string reader.

\* A call of it keeps its invariant and is a call of the stream.
LEMMA StringOK ==
  ASSUME StreamInv, StringInv, part = "string", part' = "string", Strings!Next
  PROVE  StreamStep /\ StringInv'
<1> DEFINE n == Len(taken)
           m == Len(file)
           d == SubSeq(file, pos + 1, m)
<1>1. /\ file \in Seq(Chars) /\ pos = n /\ failed = FALSE /\ taken \in Seq(0..EOFC)
      /\ \A i \in 1..n : taken[i] = IF i <= m THEN file[i] ELSE EOFC
  BY DEF StringInv, StreamInv
<1>2. n \in Nat /\ m \in Nat /\ pos \in Nat
  BY <1>1, LenProperties
<1>3. StreamRest = d /\ StreamLine = 1 + LineFeeds(taken)
  BY DEF StreamRest, StreamLine, Strings!Rest, Strings!DropFirst, LineFeeds
<1>4. StreamRest' = SubSeq(file', pos' + 1, Len(file')) /\ StreamLine' = 1 + LineFeeds(taken')
  BY DEF StreamRest, StreamLine, Strings!Rest, Strings!DropFirst, LineFeeds
<1>5. /\ d \in Seq(Chars)
      /\ pos >= m => d = <<>>
      /\ pos < m => IsCons(d, file[pos + 1], SubSeq(file, pos + 1 + 1, m))
  BY <1>1, <1>2, DropOne
<1>6. Stream!Here = Strings!Here
  <2>1. CASE pos >= m
    BY <1>2, <1>3, <1>5, <2>1, SameChars DEF Stream!Here, Strings!Here
  <2>2. CASE pos < m
    <3>1. d # <<>> /\ d[1] = file[pos + 1]
      BY <1>5, <2>2, ConsIs
    <3> QED
      BY <1>2, <1>3, <2>2, <3>1 DEF Stream!Here, Strings!Here
  <2> QED
    BY <1>2, <2>1, <2>2
<1> HIDE DEF d
<1>7. StreamRest = <<>> <=> pos >= m
  <2>1. CASE pos >= m
    BY <1>3, <1>5, <2>1
  <2>2. CASE pos < m
    <3>1. d # <<>>
      BY <1>5, <2>2, ConsIs
    <3> QED
      BY <1>2, <1>3, <2>2, <3>1
  <2> QED
    BY <1>2, <2>1, <2>2
<1>8. CASE Strings!curChar \/ Strings!eof
  <2>1. UNCHANGED <<file, pos, taken, failed>>
    BY <1>8 DEF Strings!curChar, Strings!eof
  <2>2. UNCHANGED <<StreamRest, StreamLine, taken>>
    BY <1>3, <1>4, <2>1 DEF d
  <2>3. \/ last' = [op |-> "curChar", c |-> Stream!Here]
        \/ last' = [op |-> "eof", c |-> IF StreamRest = <<>> THEN 1 ELSE 0]
    BY <1>6, <1>7, <1>8 DEF Strings!curChar, Strings!eof, Strings!Answer
  <2> QED
    BY <2>1, <2>2, <2>3, LookOK DEF StringInv
<1>9. CASE Strings!nextChar \/ Strings!skipChar
  <2> DEFINE c == Strings!Here
  <2>1. /\ UNCHANGED <<file, failed>> /\ pos' = pos + 1 /\ taken' = Append(taken, c)
        /\ \/ last' = [op |-> "nextChar", c |-> c]
           \/ /\ last.op = "curChar" /\ last.c # EOFC /\ c # EOFC
              /\ last' = [op |-> "skipChar", c |-> 0]
    BY <1>6, <1>9, SameChars DEF Strings!nextChar, Strings!skipChar, Strings!Answer, Strings!Advance, StreamInv
  <2>2. c = IF pos >= m THEN EOFC ELSE file[pos + 1]
    BY SameChars DEF Strings!Here
  <2> HIDE DEF c
  <2>3. StreamStep /\ c \in 0..EOFC
    <3>1. CASE pos >= m
      <4>1. c = EOFC /\ EOFC \in 0..EOFC
        BY <2>2, <3>1, SameChars
      <4>2. StreamRest' = <<>> /\ StreamRest = <<>>
        <5>1. StreamRest' = SubSeq(file, pos' + 1, m) /\ pos' >= m /\ pos' \in Nat
          BY <1>2, <1>4, <2>1, <3>1
        <5>2. SubSeq(file, pos' + 1, m) = <<>>
          BY <1>1, <5>1, DropOne
        <5> QED
          BY <1>7, <3>1, <5>1, <5>2
      <4>3. LineFeeds(taken') = LineFeeds(taken)
        <5>1. LineFeeds(taken') = LineFeeds(taken) + Stream!LineStep(c) /\ LineFeeds(taken) \in Nat
          BY <1>1, <2>1, <4>1, LineFeedsAppend
        <5>2. Stream!LineStep(c) = 0
          BY <4>1, SameChars DEF Stream!LineStep
        <5> QED
          BY <5>1, <5>2
      <4>4. last' = [op |-> "nextChar", c |-> EOFC]
        BY <2>1, <4>1
      <4> QED
        BY <1>3, <1>4, <2>1, <4>1, <4>2, <4>3, <4>4, TakeEofOK
    <3>2. CASE pos < m
      <4>1. c = file[pos + 1]
        BY <1>2, <2>2, <3>2
      <4>2. IsCons(StreamRest, c, StreamRest')
        BY <1>3, <1>4, <1>5, <2>1, <3>2, <4>1
      <4>3. c \in 0..EOFC
        BY <4>2 DEF IsCons, Chars, EOFC
      <4>4. StreamLine' = StreamLine + Stream!LineStep(c)
        <5>1. LineFeeds(taken') = LineFeeds(taken) + Stream!LineStep(c) /\ LineFeeds(taken) \in Nat
          BY <1>1, <2>1, <4>3, LineFeedsAppend
        <5>2. Stream!LineStep(c) \in Nat
          BY DEF Stream!LineStep
        <5> QED
          BY <1>3, <1>4, <5>1, <5>2
      <4> QED
        BY <2>1, <4>2, <4>3, <4>4, TakeCharOK
    <3> QED
      BY <1>2, <3>1, <3>2
  <2>4. StringInv'
    <3>1. /\ Len(taken') = n + 1 /\ (\A i \in 1..n : taken'[i] = taken[i]) /\ taken'[n + 1] = c
      BY <1>1, <2>1, <2>3, TakenGrows
    <3>2. c = IF n + 1 <= m THEN file[n + 1] ELSE EOFC
      BY <1>1, <1>2, <2>2
    <3>3. \A i \in 1..Len(taken') : taken'[i] = IF i <= m THEN file[i] ELSE EOFC
      <4> SUFFICES ASSUME NEW i \in 1..Len(taken') PROVE taken'[i] = IF i <= m THEN file[i] ELSE EOFC
        OBVIOUS
      <4> HIDE DEF n, m
      <4>1. i \in 1..n \/ i = n + 1
        BY <1>2, <3>1
      <4> QED
        BY <1>1, <3>1, <3>2, <4>1
    <3> QED
      BY <1>1, <2>1, <3>1, <3>3 DEF StringInv
  <2> QED
    BY <2>3, <2>4
<1>10. CASE Strings!unreadChar
  <2> DEFINE c == taken[n]
             p == pos - 1
  <2>1. /\ taken # <<>> /\ taken' = SubSeq(taken, 1, Len(taken) - 1)
        /\ last' = [op |-> "unreadChar", c |-> c]
        /\ failed' = (pos = 0) /\ pos' = (IF pos = 0 THEN pos ELSE pos - 1)
        /\ file' = Strings!Written(c)
    BY <1>10 DEF Strings!unreadChar, Strings!Answer
  <2>2. /\ n > 0 /\ c \in 0..EOFC /\ Len(taken') = n - 1
        /\ \A i \in 1..Len(taken') : taken'[i] = taken[i]
        /\ LineFeeds(taken') \in Nat /\ LineFeeds(taken) = LineFeeds(taken') + Stream!LineStep(c)
    BY <1>1, <2>1, TakenShrinks
  <2>3. c = IF pos <= m THEN file[pos] ELSE EOFC
    BY <1>1, <1>2, <2>2
  <2>4. pos' = p /\ p \in Nat /\ p + 1 = pos /\ p + 1 + 1 = pos + 1 /\ failed' = FALSE
    <3>1. pos > 0 /\ pos \in Nat
      BY <1>1, <1>2, <2>2
    <3>2. pos' = p
      BY <2>1, <3>1
    <3>3. (pos = 0) = FALSE
      BY <3>1
    <3>4. failed' = FALSE
      BY <2>1, <3>3, Zenon
    <3> QED
      BY <3>1, <3>2, <3>4
  <2>5. file' = file
    <3>1. CASE pos <= m
      <4>1. pos \in 1..m /\ c = file[pos]
        BY <1>1, <1>2, <2>2, <2>3, <3>1
      <4>2. c \in Chars
        BY <1>1, <4>1, ElementOfSeq
      <4>3. Strings!ToChar(c) = c
        BY <4>2, ToCharIs
      <4>4. file' = [file EXCEPT ![pos] = file[pos]]
        BY <2>1, <4>1, <4>3 DEF Strings!Written
      <4>5. file = [i \in 1..m |-> file[i]]
        BY <1>1, LenProperties
      <4> QED
        BY <4>4, <4>5
    <3>2. CASE ~(pos <= m)
      BY <1>2, <2>1, <3>2 DEF Strings!Written
    <3> QED
      BY <3>1, <3>2
  <2> HIDE DEF c, p
  <2>6. StreamRest' = SubSeq(file, p + 1, m)
    BY <1>4, <2>4, <2>5
  <2>7. IF c = EOFC THEN StreamRest' = StreamRest ELSE IsCons(StreamRest', c, StreamRest)
    <3>1. CASE pos <= m
      <4>1. p < m /\ file[p + 1] = c
        BY <1>2, <2>3, <2>4, <3>1
      <4>2. IsCons(StreamRest', c, SubSeq(file, p + 1 + 1, m))
        BY <1>1, <2>4, <2>6, <4>1, DropOne
      <4>3. SubSeq(file, p + 1 + 1, m) = StreamRest
        BY <1>3, <2>4 DEF d
      <4>4. c # EOFC
        BY <4>2 DEF IsCons, Chars, EOFC
      <4> QED
        BY <4>2, <4>3, <4>4
    <3>2. CASE ~(pos <= m)
      <4>1. c = EOFC /\ pos >= m /\ p >= m
        BY <1>2, <2>3, <2>4, <3>2
      <4>2. StreamRest = <<>>
        BY <1>7, <4>1
      <4>3. StreamRest' = <<>>
        BY <1>1, <2>4, <2>6, <4>1, DropOne
      <4> QED
        BY <4>1, <4>2, <4>3
    <3> QED
      BY <3>1, <3>2
  <2>8. StreamLine' = StreamLine - Stream!LineStep(c)
    <3>1. Stream!LineStep(c) \in Nat
      BY DEF Stream!LineStep
    <3> QED
      BY <1>3, <1>4, <2>2, <3>1
  <2>9. StreamStep
    BY <2>1, <2>7, <2>8, PutBackOK DEF c
  <2>10. StringInv'
    <3>1. \A i \in 1..Len(taken') : taken'[i] = IF i <= m THEN file[i] ELSE EOFC
      <4> SUFFICES ASSUME NEW i \in 1..Len(taken') PROVE taken'[i] = IF i <= m THEN file[i] ELSE EOFC
        OBVIOUS
      <4> HIDE DEF n, m
      <4>1. i \in 1..n /\ taken'[i] = taken[i]
        BY <1>2, <2>2
      <4> QED
        BY <1>1, <4>1
    <3>2. pos' = Len(taken')
      BY <1>1, <1>2, <2>2, <2>4
    <3> QED
      BY <1>1, <2>4, <2>5, <3>1, <3>2 DEF StringInv
  <2> QED
    BY <2>9, <2>10
<1> QED
  BY <1>8, <1>9, <1>10 DEF Strings!Next

-----------------------------------------------------------------------------
\* The buffered reader.

\* Min is the least element.
LEMMA MinIs ==
  ASSUME NEW T, T \subseteq Nat, NEW n \in T, \A m \in T : n <= m
  PROVE  Min(T) = n
<1> DEFINE Q(x) == x \in T /\ \A y \in T : x <= y
<1>1. Q(n)
  OBVIOUS
<1>2. \A x : Q(x) => x = n
  OBVIOUS
<1>3. Min(T) = CHOOSE x : Q(x)
  BY DEF Min
<1> HIDE DEF Q
<1> QED
  BY <1>1, <1>2, <1>3, Zenon

\* The first mark: no slot before it is marked, and it is or the buffer ends there.
LEMMA FirstMarkIs ==
  ASSUME NEW e, NEW p \in Nat, NEW z \in Nat, p <= z
  PROVE  LET n == FirstMark(e, p, z) IN
         n \in p..z /\ (\A i \in p..(n - 1) : ~e[i]) /\ (n = z \/ e[n])
<1> DEFINE T == {z} \cup {i \in p..(z - 1) : e[i]}
<1>1. T \subseteq Nat /\ z \in T
  OBVIOUS
<1>2. PICK n \in T : \A m \in T : n <= m
  <2> HIDE DEF T
  <2> QED BY <1>1, LeastNumber
<1>3. Min(T) = n
  <2> HIDE DEF T
  <2> QED BY <1>1, <1>2, MinIs
<1>4. n \in p..z /\ (n = z \/ e[n])
  OBVIOUS
<1>5. ASSUME NEW i \in p..(n - 1), e[i] PROVE FALSE
  <2>1. i \in p..(z - 1) /\ i < n
    BY <1>4
  <2>2. i \in T
    BY <1>5, <2>1
  <2> QED
    BY <1>2, <2>1, <2>2
<1> QED
  BY <1>3, <1>4, <1>5 DEF FirstMark

\* And it is the only such slot.
LEMMA FirstMarkOnly ==
  ASSUME NEW e, NEW p \in Nat, NEW z \in Nat, NEW n \in p..z,
         \A i \in p..(n - 1) : ~e[i], n = z \/ e[n]
  PROVE  FirstMark(e, p, z) = n
<1> DEFINE T == {z} \cup {i \in p..(z - 1) : e[i]}
<1>1. T \subseteq Nat /\ n \in T
  OBVIOUS
<1>2. ASSUME NEW m \in T PROVE n <= m
  <2>1. CASE m = z
    BY <2>1
  <2>2. CASE m # z
    <3>1. m \in p..(z - 1) /\ e[m]
      BY <2>2
    <3>2. ~(m \in p..(n - 1))
      BY <3>1
    <3> QED
      BY <3>1, <3>2
  <2> QED
    BY <2>1, <2>2
<1>3. Min(T) = n
  <2> HIDE DEF T
  <2> QED BY <1>1, <1>2, MinIs
<1> QED
  BY <1>3 DEF FirstMark

\* What is held is a sequence of characters.
LEMMA HeldIs ==
  ASSUME NEW b, NEW e, NEW p \in Nat, NEW z \in Nat, p <= z, MarksAt(b, e, p, z)
  PROVE  LET h == HeldAt(b, e, p, z)
             k == FirstMark(e, p, z) - p IN
         /\ k \in 0..(z - p) /\ h \in Seq(Chars) /\ Len(h) = k
         /\ \A i \in 1..k : h[i] = b[p + i - 1]
<1> DEFINE n == FirstMark(e, p, z)
           k == n - p
           h == HeldAt(b, e, p, z)
<1>1. n \in p..z /\ (\A i \in p..(n - 1) : ~e[i])
  BY FirstMarkIs
<1> HIDE DEF n
<1>2. k \in 0..(z - p) /\ k \in Nat
  BY <1>1
<1>3. h = [i \in 1..k |-> b[p + i - 1]]
  BY DEF HeldAt, n
<1>4. ASSUME NEW i \in 1..k PROVE b[p + i - 1] \in Chars
  <2> DEFINE j == p + i - 1
  <2>1. j \in p..(n - 1) /\ j \in p..(z - 1)
    BY <1>1
  <2> HIDE DEF j
  <2>2. b[j] \in Chars
    BY <1>1, <2>1 DEF MarksAt
  <2> QED
    BY <2>2 DEF j
<1> HIDE DEF k
<1>5. h \in [1..k -> Chars]
  BY <1>3, <1>4
<1>6. h \in Seq(Chars) /\ Len(h) = k
  <2> HIDE DEF h
  <2>1. h \in Seq(Chars)
    BY <1>2, <1>5, SeqDef
  <2>2. DOMAIN h = 1..k /\ DOMAIN h = 1..Len(h) /\ Len(h) \in Nat
    BY <1>5, <2>1, LenProperties
  <2>3. Len(h) = k
    BY <1>2, <2>2
  <2> QED
    BY <2>1, <2>3
<1> QED
  BY <1>2, <1>3, <1>6 DEF k, n, h

\* Where the reading goes on at an unmarked slot, its character is the first held.
LEMMA HeldFirst ==
  ASSUME NEW b, NEW e, NEW p \in Nat, NEW z \in Nat, p < z, MarksAt(b, e, p, z), ~e[p]
  PROVE  /\ MarksAt(b, e, p + 1, z)
         /\ IsCons(HeldAt(b, e, p, z), b[p], HeldAt(b, e, p + 1, z))
<1> DEFINE m == p + 1
           n == FirstMark(e, p, z)
           k == n - p
           l == n - m
           h == HeldAt(b, e, p, z)
           t == HeldAt(b, e, m, z)
<1>1. m \in Nat /\ m <= z /\ p <= z /\ \A i : i \in m..(z - 1) => i \in p..(z - 1)
  OBVIOUS
<1>2. MarksAt(b, e, m, z)
  BY <1>1 DEF MarksAt
<1>3. n \in p..z /\ (\A i \in p..(n - 1) : ~e[i]) /\ (n = z \/ e[n])
  BY <1>1, FirstMarkIs
<1>4. FirstMark(e, m, z) = n
  <2> HIDE DEF n
  <2>1. n # p
    BY <1>3
  <2>2. n \in m..z /\ \A i \in m..(n - 1) : ~e[i]
    BY <1>1, <1>3, <2>1
  <2> HIDE DEF m
  <2> QED BY <1>1, <1>3, <2>2, FirstMarkOnly
<1>5. /\ k \in 0..(z - p) /\ h \in Seq(Chars) /\ Len(h) = k
      /\ \A i \in 1..k : h[i] = b[p + i - 1]
  BY <1>1, HeldIs
<1>6. /\ l \in 0..(z - m) /\ t \in Seq(Chars) /\ Len(t) = l
      /\ \A i \in 1..l : t[i] = b[m + i - 1]
  <2> HIDE DEF m, n
  <2> QED BY <1>1, <1>2, <1>4, HeldIs
<1>7. p \in p..(z - 1)
  OBVIOUS
<1> HIDE DEF n, h, t
<1>8. b[p] \in Chars
  BY <1>7 DEF MarksAt
<1>9. Len(h) = Len(t) + 1 /\ 1 \in 1..k /\ p + 1 - 1 = p /\ l \in Nat /\ k = l + 1
  BY <1>3, <1>5, <1>6
<1>10. h[1] = b[p]
  BY <1>5, <1>9
<1>11. ASSUME NEW i \in 1..l PROVE h[i + 1] = t[i]
  <2>1. i + 1 \in 1..k /\ p + (i + 1) - 1 = m + i - 1
    BY <1>9
  <2>2. h[i + 1] = b[p + (i + 1) - 1]
    BY <1>5, <2>1
  <2>3. t[i] = b[m + i - 1]
    BY <1>6
  <2> QED
    BY <2>1, <2>2, <2>3
<1>12. IsCons(h, b[p], t)
  BY <1>5, <1>6, <1>8, <1>9, <1>10, <1>11 DEF IsCons
<1> QED
  BY <1>2, <1>12 DEF h, t

\* Only the slots that are still to be read matter.
Agree(b, e, b2, e2, p, z) == \A i \in p..(z - 1) : b2[i] = b[i] /\ (e2[i] <=> e[i])

\* So two buffers that agree on them hold the same.
LEMMA HeldAgree ==
  ASSUME NEW b, NEW e, NEW p \in Nat, NEW z \in Nat, p <= z, MarksAt(b, e, p, z),
         NEW b2, NEW e2, Agree(b, e, b2, e2, p, z)
  PROVE  MarksAt(b2, e2, p, z) /\ HeldAt(b2, e2, p, z) = HeldAt(b, e, p, z)
<1> DEFINE n == FirstMark(e, p, z)
           k == n - p
           h == HeldAt(b, e, p, z)
           t == HeldAt(b2, e2, p, z)
<1>0. \A i \in p..(z - 1) : b2[i] = b[i] /\ (e2[i] <=> e[i])
  BY DEF Agree
<1>1. MarksAt(b2, e2, p, z)
  BY <1>0 DEF MarksAt
<1>2. n \in p..z /\ (\A i \in p..(n - 1) : ~e[i]) /\ (n = z \/ e[n])
  BY FirstMarkIs
<1>3. FirstMark(e2, p, z) = n
  <2> HIDE DEF n
  <2>1. (\A i \in p..(n - 1) : ~e2[i]) /\ (n = z \/ e2[n])
    BY <1>0, <1>2
  <2> QED BY <1>2, <2>1, FirstMarkOnly
<1>4. /\ k \in 0..(z - p) /\ h \in Seq(Chars) /\ Len(h) = k
      /\ \A i \in 1..k : h[i] = b[p + i - 1]
  BY HeldIs
<1>5. /\ t \in Seq(Chars) /\ Len(t) = k
      /\ \A i \in 1..k : t[i] = b2[p + i - 1]
  BY <1>1, <1>3, HeldIs
<1> HIDE DEF k, h, t
<1>6. ASSUME NEW i \in 1..k PROVE t[i] = h[i]
  <2> DEFINE j == p + i - 1
  <2>1. j \in p..(z - 1)
    BY <1>4
  <2>2. t[i] = b2[j] /\ h[i] = b[j]
    BY <1>4, <1>5
  <2> HIDE DEF j
  <2> QED BY <1>0, <2>1, <2>2
<1>7. t = h
  BY <1>4, <1>5, <1>6, SeqEqual
<1> QED
  BY <1>1, <1>7 DEF h, t

\* Nothing is left exactly when nothing is held and the file is exhausted.
LEMMA RestIs ==
  ASSUME NEW b, NEW e, NEW p, NEW z, NEW f, NEW g, BufOK(b, e, p, z, f, g)
  PROVE  /\ RestAt(b, e, p, z, f, g) \in Seq(Chars)
         /\ RestAt(b, e, p, z, f, g) = <<>> <=> g = Len(f) /\ (p = z \/ e[p])
<1> DEFINE h == HeldAt(b, e, p, z)
           u == SubSeq(f, g + 1, Len(f))
           m == Len(f)
           n == FirstMark(e, p, z)
           k == n - p
           w == h \o u
<1>1. p \in Nat /\ z \in Nat /\ p <= z /\ f \in Seq(Chars) /\ g \in Nat /\ g <= m
      /\ MarksAt(b, e, p, z) /\ ((\E i \in p..(z - 1) : e[i]) => g = m)
  BY DEF BufOK
<1>2. k \in 0..(z - p) /\ h \in Seq(Chars) /\ Len(h) = k
  BY <1>1, HeldIs
<1>3. m \in Nat /\ u \in Seq(Chars) /\ Len(u) = IF g < m THEN m - g ELSE 0
  BY <1>1, DropIs
<1>4. n \in p..z /\ (\A i \in p..(n - 1) : ~e[i]) /\ (n = z \/ e[n])
  BY <1>1, FirstMarkIs
<1> HIDE DEF h, u, n, m
<1>5. w \in Seq(Chars) /\ Len(w) = k + Len(u)
  BY <1>2, <1>3, ConcatProperties
<1>6. w = <<>> <=> Len(w) = 0
  BY <1>5, EmptySeq
<1> HIDE DEF w
<1>7. Len(w) = 0 <=> g = m /\ n = p
  BY <1>1, <1>2, <1>3, <1>4, <1>5
<1>8. n = p <=> p = z \/ e[p]
  <2>1. n # p => p \in p..(n - 1) /\ p # z
    BY <1>1, <1>4
  <2> QED
    BY <1>4, <2>1
<1> QED
  BY <1>5, <1>6, <1>7, <1>8 DEF w, h, u, m, RestAt

\* A character is read from its slot.
LEMMA RestFirst ==
  ASSUME NEW b, NEW e, NEW p, NEW z, NEW f, NEW g, BufOK(b, e, p, z, f, g), p < z, ~e[p]
  PROVE  /\ BufOK(b, e, p + 1, z, f, g)
         /\ IsCons(RestAt(b, e, p, z, f, g), b[p], RestAt(b, e, p + 1, z, f, g))
<1>1. p \in Nat /\ z \in Nat /\ f \in Seq(Chars) /\ g \in Nat /\ g <= Len(f)
      /\ MarksAt(b, e, p, z) /\ ((\E i \in p..(z - 1) : e[i]) => g = Len(f))
  BY DEF BufOK
<1>2. MarksAt(b, e, p + 1, z) /\ IsCons(HeldAt(b, e, p, z), b[p], HeldAt(b, e, p + 1, z))
  BY <1>1, HeldFirst
<1>3. SubSeq(f, g + 1, Len(f)) \in Seq(Chars)
  BY <1>1, DropIs
<1>4. IsCons(RestAt(b, e, p, z, f, g), b[p], RestAt(b, e, p + 1, z, f, g))
  BY <1>2, <1>3, ConsLeft DEF RestAt
<1>5. p + 1 \in Nat /\ p + 1 <= z /\ \A i \in (p + 1)..(z - 1) : i \in p..(z - 1)
  BY <1>1
<1> QED
  BY <1>1, <1>2, <1>4, <1>5 DEF BufOK

\* A character is put back into the slot before.
LEMMA RestBack ==
  ASSUME NEW b, NEW e, NEW p, NEW q \in Nat, NEW z, NEW f, NEW g, p = q + 1,
         BufOK(b, e, p, z, f, g), NEW b2, NEW e2, b2[q] \in Chars, ~e2[q],
         Agree(b, e, b2, e2, p, z)
  PROVE  /\ BufOK(b2, e2, q, z, f, g)
         /\ IsCons(RestAt(b2, e2, q, z, f, g), b2[q], RestAt(b, e, p, z, f, g))
<1>1. p \in Nat /\ z \in Nat /\ p <= z /\ f \in Seq(Chars) /\ g \in Nat /\ g <= Len(f)
      /\ MarksAt(b, e, p, z) /\ ((\E i \in p..(z - 1) : e[i]) => g = Len(f))
  BY DEF BufOK
<1>2. MarksAt(b2, e2, p, z) /\ HeldAt(b2, e2, p, z) = HeldAt(b, e, p, z)
  BY <1>1, HeldAgree
<1>3. \A i \in q..(z - 1) : i = q \/ i \in p..(z - 1)
  BY <1>1
<1>4. MarksAt(b2, e2, q, z)
  <2>1. ASSUME NEW i \in q..(z - 1), NEW j \in q..(z - 1), i <= j, e2[i] PROVE e2[j]
    <3>1. i # q
      BY <2>1
    <3>2. i \in p..(z - 1) /\ j # q
      BY <1>1, <1>3, <2>1, <3>1
    <3> QED
      BY <1>2, <1>3, <2>1, <3>2 DEF MarksAt
  <2>2. ASSUME NEW i \in q..(z - 1), ~e2[i] PROVE b2[i] \in Chars
    BY <1>2, <1>3, <2>2 DEF MarksAt
  <2> QED
    BY <2>1, <2>2 DEF MarksAt
<1>5. (\E i \in q..(z - 1) : e2[i]) => g = Len(f)
  BY <1>1, <1>3 DEF Agree
<1>6. q <= z /\ q < z
  BY <1>1
<1>7. BufOK(b2, e2, q, z, f, g)
  BY <1>1, <1>4, <1>5, <1>6 DEF BufOK
<1>8. IsCons(RestAt(b2, e2, q, z, f, g), b2[q], RestAt(b2, e2, p, z, f, g))
  BY <1>6, <1>7, RestFirst
<1> QED
  BY <1>2, <1>7, <1>8 DEF RestAt

\* The end is put back into the slot before.
LEMMA RestMark ==
  ASSUME NEW b, NEW e, NEW p, NEW q \in Nat, NEW z, NEW f, NEW g, p = q + 1,
         BufOK(b, e, p, z, f, g), RestAt(b, e, p, z, f, g) = <<>>, NEW b2, NEW e2, e2[q],
         \A i \in p..(z - 1) : e2[i] <=> e[i]
  PROVE  BufOK(b2, e2, q, z, f, g) /\ RestAt(b2, e2, q, z, f, g) = <<>>
<1>1. p \in Nat /\ z \in Nat /\ p <= z /\ f \in Seq(Chars) /\ g \in Nat /\ g <= Len(f)
      /\ MarksAt(b, e, p, z)
  BY DEF BufOK
<1>2. g = Len(f) /\ (p = z \/ e[p])
  BY RestIs
<1>3. \A i \in q..(z - 1) : e2[i]
  <2> SUFFICES ASSUME NEW i \in q..(z - 1), i # q PROVE e2[i]
    OBVIOUS
  <2>1. i \in p..(z - 1) /\ p \in p..(z - 1) /\ p <= i
    BY <1>1
  <2>2. e[i]
    BY <1>1, <1>2, <2>1 DEF MarksAt
  <2> QED
    BY <2>1, <2>2
<1>4. MarksAt(b2, e2, q, z)
  BY <1>3 DEF MarksAt
<1>5. BufOK(b2, e2, q, z, f, g)
  BY <1>1, <1>2, <1>4 DEF BufOK
<1> QED
  BY <1>2, <1>5, RestIs

\* The k bytes of f after the first g, in the slots from m on.
Fresh(b, e, m, k, f, g) == \A i \in m..(m + k - 1) : b[i] = f[g + i - m + 1] /\ ~e[i]

\* A refill with them changes nothing for the caller.
LEMMA RestRefill ==
  ASSUME NEW b, NEW e, NEW p, NEW f, NEW g, BufOK(b, e, p, p, f, g),
         NEW b2, NEW e2, NEW m \in Nat, NEW k \in Nat, g + k <= Len(f),
         Fresh(b2, e2, m, k, f, g)
  PROVE  /\ BufOK(b2, e2, m, m + k, f, g + k)
         /\ RestAt(b2, e2, m, m + k, f, g + k) = RestAt(b, e, p, p, f, g)
<1> DEFINE n == Len(f)
           z == m + k
           y == g + k
           h == HeldAt(b2, e2, m, z)
           u == SubSeq(f, y + 1, n)
           v == SubSeq(f, g + 1, n)
           h0 == HeldAt(b, e, p, p)
<1>1. p \in Nat /\ f \in Seq(Chars) /\ g \in Nat /\ g <= n /\ MarksAt(b, e, p, p)
  BY DEF BufOK
<1>2. n \in Nat /\ (\A i \in 1..n : f[i] \in Chars) /\ y \in Nat /\ z \in Nat /\ y <= n /\ m <= z
  BY <1>1, LenProperties, ElementOfSeq
<1>3. ASSUME NEW i \in m..(z - 1) PROVE ~e2[i] /\ b2[i] = f[g + i - m + 1] /\ b2[i] \in Chars
  <2> DEFINE j == g + i - m + 1
  <2>1. j \in 1..n
    BY <1>1, <1>2
  <2>2. ~e2[i] /\ b2[i] = f[j]
    BY DEF Fresh
  <2> HIDE DEF j, n
  <2>3. b2[i] \in Chars
    BY <1>2, <2>1, <2>2
  <2> QED
    BY <2>2, <2>3 DEF j
<1>4. MarksAt(b2, e2, m, z)
  BY <1>3 DEF MarksAt
<1>5. BufOK(b2, e2, m, z, f, y)
  BY <1>1, <1>2, <1>3, <1>4 DEF BufOK
<1>6. FirstMark(e2, m, z) = z
  <2>1. z \in m..z
    BY <1>2
  <2> HIDE DEF z
  <2> QED BY <1>2, <1>3, <2>1, FirstMarkOnly
<1>7. /\ h \in Seq(Chars) /\ Len(h) = k /\ \A i \in 1..k : h[i] = b2[m + i - 1]
  <2>1. z - m = k
    OBVIOUS
  <2> HIDE DEF z
  <2> QED BY <1>2, <1>4, <1>6, <2>1, HeldIs
<1>8. h0 \in Seq(Chars) /\ Len(h0) = 0
  <2>0. p \in p..p /\ (\A i \in p..(p - 1) : ~e[i]) /\ p <= p /\ p - p = 0
    BY <1>1
  <2>1. FirstMark(e, p, p) = p
    BY <1>1, <2>0, FirstMarkOnly
  <2> QED
    BY <1>1, <2>0, <2>1, HeldIs
<1>9. h0 = <<>>
  <2> HIDE DEF h0
  <2> QED BY <1>8, EmptySeq
<1>10. v \in Seq(Chars) /\ Len(v) = n - g /\ \A i \in 1..(n - g) : v[i] = f[g + i]
  BY <1>1, <1>2, DropIs
<1>11. u \in Seq(Chars) /\ Len(u) = n - y /\ \A i \in 1..(n - y) : u[i] = f[y + i]
  <2> HIDE DEF y
  <2> QED BY <1>1, <1>2, DropIs
<1>12. h0 \o v = v
  <2> HIDE DEF v, h0
  <2> QED BY <1>9, <1>10, ConcatEmptySeq
<1> DEFINE w == h \o u
<1>13. /\ w \in Seq(Chars) /\ Len(w) = k + (n - y)
       /\ \A i \in 1..k + (n - y) : w[i] = IF i <= k THEN h[i] ELSE u[i - k]
  <2> HIDE DEF h, u, y, n
  <2>1. /\ w \in Seq(Chars) /\ Len(w) = k + Len(u)
        /\ \A i \in 1..k + Len(u) : w[i] = IF i <= k THEN h[i] ELSE u[i - k]
    <3>1. h \in Seq(Chars) /\ u \in Seq(Chars) /\ Len(h) = k
      BY <1>7, <1>11
    <3>2. /\ w \in Seq(Chars) /\ Len(w) = Len(h) + Len(u)
          /\ \A i \in 1..Len(h) + Len(u) : w[i] = IF i <= Len(h) THEN h[i] ELSE u[i - Len(h)]
      BY <3>1, ConcatProperties
    <3> HIDE DEF w
    <3> QED BY <3>1, <3>2
  <2> HIDE DEF w
  <2> QED BY <1>11, <2>1
<1>14. w = v
  <2> HIDE DEF w, v, h, u, n
  <2>1. Len(w) = Len(v) /\ Len(v) = n - g /\ k + (n - y) = n - g
    BY <1>1, <1>2, <1>10, <1>13
  <2>2. ASSUME NEW i \in 1..(n - g) PROVE w[i] = v[i]
    <3>1. i \in 1..k + (n - y) /\ v[i] = f[g + i]
      BY <1>10, <2>1
    <3>2. CASE i <= k
      <4> DEFINE j == m + i - 1
      <4>1. i \in 1..k /\ j \in m..(z - 1) /\ g + j - m + 1 = g + i
        BY <1>1, <3>2
      <4>2. w[i] = h[i] /\ h[i] = b2[j]
        BY <1>7, <1>13, <3>1, <3>2, <4>1
      <4> HIDE DEF j, z
      <4>3. b2[j] = f[g + j - m + 1]
        BY <1>3, <4>1
      <4> QED
        BY <3>1, <4>1, <4>2, <4>3
    <3>3. CASE ~(i <= k)
      <4> DEFINE j == i - k
      <4>1. j \in 1..(n - y) /\ y + j = g + i
        <5>1. n \in Nat /\ g \in Nat /\ k \in Nat /\ i \in 1..(n - g)
          BY <1>1, <1>2
        <5> QED
          BY <5>1, <3>3
      <4>2. w[i] = u[j]
        BY <1>13, <3>1, <3>3
      <4> HIDE DEF j, y
      <4>3. u[j] = f[y + j]
        BY <1>11, <4>1
      <4> QED
        BY <3>1, <4>1, <4>2, <4>3
    <3> QED
      BY <3>2, <3>3
  <2> QED
    BY <1>10, <1>13, <2>1, <2>2, SeqEqual
<1> QED
  BY <1>5, <1>12, <1>14 DEF RestAt

\* refill() leaves a buffer from which the caller reads the same characters, and
\* whose next slot answers with the next of them or with the end.
Refilled(b) ==
  /\ BufOK(b.buf, b.eof, b.pos, b.size, file, b.got) /\ Allocated(b.buf, b.eof, b.size)
  /\ RestAt(b.buf, b.eof, b.pos, b.size, file, b.got) = Rest
  /\ SlotsLeft(b.pos, putBack, eofPeeks)
  /\ IF b.ok THEN b.pos < b.size ELSE b.pos = b.size /\ b.got = Len(file)

\* The rest of the file is what the buffer and the file hold.
LEMMA RestIsRestAt ==
  /\ Rest = RestAt(buffer, isEof, bufferPos, bufferSize, file, fetched)
  /\ Rest' = RestAt(buffer', isEof', bufferPos', bufferSize', file', fetched')
BY DEF Rest, Held, RestAt, HeldAt, FirstMark

\* refill().
LEMMA RefillOK ==
  ASSUME BufferedInv
  PROVE  Refilled(refill)
<1> DEFINE room == BUFFER_SIZE - MAX_UNREAD_COUNT
           n == Len(file)
           left == n - fetched
           k == Min({room, left})
           M == MAX_UNREAD_COUNT
           fresh == M..(M + k - 1)
           b2 == [i \in Slots |-> IF i \in fresh THEN file[fetched + i - M + 1] ELSE buffer[i]]
           e2 == [i \in Slots |-> MarkAfter(i, fresh)]
<1>1. /\ BufOK(buffer, isEof, bufferPos, bufferSize, file, fetched)
      /\ Allocated(buffer, isEof, bufferSize) /\ SlotsLeft(bufferPos, putBack, eofPeeks)
  BY DEF BufferedInv
<1>2. /\ bufferPos \in Nat /\ bufferSize \in Nat /\ bufferPos <= bufferSize
      /\ fetched \in Nat /\ n \in Nat /\ fetched <= n
  BY <1>1, LenProperties DEF BufOK
<1>3. M \in Nat /\ room \in Nat /\ room > 0 /\ left \in Nat
  BY <1>2, BufferAssumption
<1>4. k \in Nat /\ k <= room /\ k <= left /\ (k = room \/ k = left)
  <2> HIDE DEF room, left
  <2>1. CASE room <= left
    <3>1. k = room
      BY <1>3, <2>1, MinIs
    <3> QED
      BY <1>3, <2>1, <3>1
  <2>2. CASE ~(room <= left)
    <3>1. k = left
      BY <1>3, <2>2, MinIs
    <3> QED
      BY <1>3, <2>2, <3>1
  <2> QED
    BY <2>1, <2>2
<1> HIDE DEF k
<1>5. CASE bufferPos < bufferSize
  <2> DEFINE b == [ok |-> TRUE, buf |-> buffer, eof |-> isEof, pos |-> bufferPos,
                   size |-> bufferSize, got |-> fetched]
  <2>1. refill = b
    BY <1>5 DEF refill
  <2>2. /\ b.ok = TRUE /\ b.buf = buffer /\ b.eof = isEof /\ b.pos = bufferPos
        /\ b.size = bufferSize /\ b.got = fetched
    OBVIOUS
  <2> HIDE DEF b
  <2>3. Refilled(b)
    BY <1>1, <1>5, <2>2, RestIsRestAt DEF Refilled
  <2> QED
    BY <2>1, <2>3
<1>6. CASE ~(bufferPos < bufferSize)
  <2> DEFINE b == [ok |-> k > 0, buf |-> b2, eof |-> e2, pos |-> M,
                   size |-> M + k, got |-> fetched + k]
  <2>1. refill = b
    BY <1>6 DEF refill, RefillPos, k
  <2>2. /\ b.ok = (k > 0) /\ b.buf = b2 /\ b.eof = e2 /\ b.pos = M
        /\ b.size = M + k /\ b.got = fetched + k
    OBVIOUS
  <2>3. bufferPos = bufferSize
    BY <1>2, <1>6
  <2>4. Allocated(b2, e2, M + k)
    <3>1. M + k \in M..BUFFER_SIZE
      BY <1>3, <1>4, BufferAssumption
    <3>2. e2 \in [Slots -> BOOLEAN]
      BY DEF MarkAfter
    <3>3. b2 = [i \in Slots |-> b2[i]]
      OBVIOUS
    <3> QED
      BY <3>1, <3>2, <3>3 DEF Allocated
  <2>5. Fresh(b2, e2, M, k, file, fetched)
    <3> SUFFICES ASSUME NEW i \in M..(M + k - 1)
                 PROVE  b2[i] = file[fetched + i - M + 1] /\ ~e2[i]
      BY DEF Fresh
    <3>1. i \in Slots
      BY <1>3, <1>4, BufferAssumption DEF Slots
    <3>2. i \in fresh
      OBVIOUS
    <3>3. ~MarkAfter(i, fresh)
      BY <3>2 DEF MarkAfter
    <3> QED
      BY <3>1, <3>2, <3>3
  <2> HIDE DEF b, b2, e2
  <2>6. /\ BufOK(b2, e2, M, M + k, file, fetched + k)
        /\ RestAt(b2, e2, M, M + k, file, fetched + k) = Rest
    <3>1. fetched + k <= n
      BY <1>2, <1>4
    <3>2. BufOK(buffer, isEof, bufferPos, bufferPos, file, fetched)
      BY <1>1, <2>3
    <3> HIDE DEF M
    <3> QED
      BY <1>3, <1>4, <2>3, <2>5, <3>1, <3>2, RestRefill, RestIsRestAt
  <2>7. SlotsLeft(M, putBack, eofPeeks)
    BY <1>1, BufferAssumption DEF SlotsLeft
  <2>8. IF b.ok THEN M < M + k ELSE M = M + k /\ fetched + k = n
    <3>1. CASE k > 0
      <4>1. M < M + k
        BY <1>3, <1>4, <3>1
      <4>2. b.ok = TRUE
        BY <2>2, <3>1, Zenon
      <4> QED
        BY <4>1, <4>2, Zenon
    <3>2. CASE ~(k > 0)
      <4>1. k = 0 /\ left = 0
        BY <1>3, <1>4, <3>2
      <4>2. M = M + k /\ fetched + k = n
        BY <1>2, <1>3, <4>1
      <4>3. b.ok = FALSE
        <5>1. (k > 0) = FALSE
          BY <3>2
        <5> QED
          BY <2>2, <5>1, Zenon
      <4> QED
        BY <4>2, <4>3, Zenon
    <3> QED
      BY <3>1, <3>2
  <2>9. Refilled(b)
    BY <2>2, <2>4, <2>6, <2>7, <2>8 DEF Refilled
  <2> QED
    BY <2>1, <2>9
<1> QED
  BY <1>5, <1>6

\* The slot read answers with the next character, or with EOFC at the end.
LEMMA CharAtOK ==
  ASSUME NEW b, Refilled(b)
  PROVE  /\ (Rest = <<>> /\ CharAt(b) = EOFC)
            \/ (/\ b.pos < b.size /\ ~b.eof[b.pos] /\ CharAt(b) = b.buf[b.pos]
                /\ BufOK(b.buf, b.eof, b.pos + 1, b.size, file, b.got)
                /\ IsCons(Rest, CharAt(b), RestAt(b.buf, b.eof, b.pos + 1, b.size, file, b.got)))
<1>1. /\ BufOK(b.buf, b.eof, b.pos, b.size, file, b.got)
      /\ RestAt(b.buf, b.eof, b.pos, b.size, file, b.got) = Rest
      /\ IF b.ok THEN b.pos < b.size ELSE b.pos = b.size /\ b.got = Len(file)
  BY DEF Refilled
<1>2. CASE ~b.ok
  <2>1. Rest = <<>>
    BY <1>1, <1>2, RestIs
  <2> QED
    BY <1>2, <2>1 DEF CharAt
<1>3. CASE b.ok /\ b.eof[b.pos]
  <2>1. b.pos \in b.pos..(b.size - 1)
    BY <1>1, <1>3 DEF BufOK
  <2>2. b.got = Len(file)
    BY <1>1, <1>3, <2>1 DEF BufOK
  <2>3. Rest = <<>>
    BY <1>1, <1>3, <2>2, RestIs
  <2> QED
    BY <1>3, <2>3 DEF CharAt
<1>4. CASE b.ok /\ ~b.eof[b.pos]
  <2>1. CharAt(b) = b.buf[b.pos]
    BY <1>4 DEF CharAt
  <2> QED
    BY <1>1, <1>4, <2>1, RestFirst
<1> QED
  BY <1>2, <1>3, <1>4

\* Where the caller stands: the variables beside the buffer's.
LEMMA BufferedView ==
  ASSUME part = "buffered", part' = "buffered"
  PROVE  /\ StreamRest = Rest /\ StreamRest' = Rest'
         /\ StreamLine = line /\ StreamLine' = line'
BY DEF StreamRest, StreamLine

\* A refilled buffer kept, with the reading to go on where it stands.
LEMMA InstallOK ==
  ASSUME NEW b, NEW p, Install(b, p), NEW n, NEW k, putBack' = n, eofPeeks' = k,
         BufOK(b.buf, b.eof, p, b.size, file, b.got), Allocated(b.buf, b.eof, b.size),
         SlotsLeft(p, n, k), failed' = FALSE,
         last'.op = "curChar" /\ last'.c # EOFC => p < b.size
  PROVE  /\ BufferedInv' /\ Rest' = RestAt(b.buf, b.eof, p, b.size, file, b.got)
<1>1. /\ buffer' = b.buf /\ isEof' = b.eof /\ bufferPos' = p /\ bufferSize' = b.size
      /\ fetched' = b.got /\ file' = file
  BY DEF Install
<1>2. /\ BufOK(buffer', isEof', bufferPos', bufferSize', file', fetched')
      /\ Allocated(buffer', isEof', bufferSize') /\ SlotsLeft(bufferPos', putBack', eofPeeks')
  BY <1>1
<1>3. BufferedInv'
  BY <1>1, <1>2 DEF BufferedInv, BufOK, Allocated, SlotsLeft, MarksAt, Slots
<1> QED
  BY <1>1, <1>3, RestIsRestAt

\* curChar() and eof() look at the slot.
LEMMA BufferedLookOK ==
  ASSUME StreamInv, BufferedInv, part = "buffered", part' = "buffered", curChar \/ eof
  PROVE  StreamStep /\ BufferedInv'
<1> DEFINE b == refill
           c == CharAt(b)
<1>1. /\ Install(b, b.pos) /\ UNCHANGED <<line, taken, putBack, eofPeeks, failed>>
      /\ \/ last' = [op |-> "curChar", c |-> c]
         \/ last' = [op |-> "eof", c |-> IF c = EOFC THEN 1 ELSE 0]
  BY DEF curChar, eof, Answer
<1>2. Refilled(b)
  BY RefillOK
<1>3. (Rest = <<>> /\ c = EOFC) \/ (b.pos < b.size /\ \E t : IsCons(Rest, c, t))
  BY <1>2, CharAtOK
<1> HIDE DEF b, c
<1>4. c = Stream!Here /\ (Rest = <<>> <=> c = EOFC) /\ (c # EOFC => b.pos < b.size)
  <2>1. CASE Rest = <<>> /\ c = EOFC
    BY <2>1, BufferedView, SameChars DEF Stream!Here
  <2>2. CASE b.pos < b.size /\ \E t : IsCons(Rest, c, t)
    <3>1. Rest # <<>> /\ Rest[1] = c /\ c \in Chars
      BY <2>2, ConsIs DEF IsCons
    <3> QED
      BY <2>2, <3>1, BufferedView, ToCharIs DEF Stream!Here
  <2> QED
    BY <1>3, <2>1, <2>2
<1>5. BufferedInv' /\ Rest' = Rest
  <2>1. last'.op = "curChar" => last'.c = c
    BY <1>1
  <2>2. failed' = FALSE /\ putBack' = putBack /\ eofPeeks' = eofPeeks
    BY <1>1 DEF BufferedInv
  <2>3. BufferedInv' /\ Rest' = RestAt(b.buf, b.eof, b.pos, b.size, file, b.got)
    BY <1>1, <1>2, <1>4, <2>1, <2>2, InstallOK DEF Refilled
  <2> QED
    BY <1>2, <2>3 DEF Refilled
<1>6. UNCHANGED <<StreamRest, StreamLine, taken>>
  BY <1>1, <1>5, BufferedView
<1>7. \/ last' = [op |-> "curChar", c |-> Stream!Here]
      \/ last' = [op |-> "eof", c |-> IF StreamRest = <<>> THEN 1 ELSE 0]
  BY <1>1, <1>4, BufferedView
<1> QED
  BY <1>5, <1>6, <1>7, LookOK

\* A character read leaves a slot behind, whether it was put back before or not.
LEMMA SlotRead ==
  ASSUME NEW p \in Nat, NEW n, NEW k, SlotsLeft(p, n, k)
  PROVE  SlotsLeft(p + 1, IF n > 0 THEN n - 1 ELSE 0, k)
BY BufferAssumption DEF SlotsLeft

\* nextChar() takes what the slot holds.
LEMMA BufferedNextOK ==
  ASSUME StreamInv, BufferedInv, part = "buffered", part' = "buffered", nextChar
  PROVE  StreamStep /\ BufferedInv'
<1> DEFINE b == refill
           c == CharAt(b)
<1>1. /\ Install(b, b.pos + Advance(c)) /\ UNCHANGED <<eofPeeks, failed>>
      /\ line' = line + LineStep(c) /\ taken' = Append(taken, c)
      /\ IF c = EOFC THEN UNCHANGED putBack ELSE Read
      /\ last' = [op |-> "nextChar", c |-> c]
  BY DEF nextChar, Answer
<1>2. Refilled(b)
  BY RefillOK
<1>3. \/ Rest = <<>> /\ c = EOFC
      \/ /\ BufOK(b.buf, b.eof, b.pos + 1, b.size, file, b.got)
         /\ IsCons(Rest, c, RestAt(b.buf, b.eof, b.pos + 1, b.size, file, b.got))
  BY <1>2, CharAtOK
<1> HIDE DEF b, c
<1>4. failed' = FALSE /\ eofPeeks' = eofPeeks /\ last'.op # "curChar"
  BY <1>1 DEF BufferedInv
<1>5. b.pos \in Nat
  BY <1>2 DEF Refilled, BufOK
<1>6. StreamLine \in Nat
  <2>1. LineFeeds(taken) \in Nat
    BY SameChars, LineFeedsAppend DEF StreamInv
  <2> QED
    BY <2>1 DEF StreamInv
<1>7. CASE Rest = <<>> /\ c = EOFC
  <2>1. b.pos + Advance(c) = b.pos
    BY <1>5, <1>7 DEF Advance
  <2>2. putBack' = putBack
    BY <1>1, <1>7
  <2>3. BufferedInv' /\ Rest' = RestAt(b.buf, b.eof, b.pos, b.size, file, b.got)
    BY <1>1, <1>2, <1>4, <2>1, <2>2, InstallOK DEF Refilled
  <2>4. Rest' = Rest
    BY <1>2, <2>3 DEF Refilled
  <2>5. UNCHANGED <<StreamRest, StreamLine>> /\ StreamRest = <<>>
    BY <1>1, <1>6, <1>7, <2>4, BufferedView, SameLines
  <2> QED
    BY <1>1, <1>7, <2>3, <2>5, TakeEofOK
<1>8. CASE /\ BufOK(b.buf, b.eof, b.pos + 1, b.size, file, b.got)
           /\ IsCons(Rest, c, RestAt(b.buf, b.eof, b.pos + 1, b.size, file, b.got))
  <2>1. c # EOFC
    BY <1>8, ToCharIs DEF IsCons
  <2>2. b.pos + Advance(c) = b.pos + 1
    BY <2>1 DEF Advance
  <2>3. putBack' = IF putBack > 0 THEN putBack - 1 ELSE 0
    BY <1>1, <2>1 DEF Read
  <2>4. SlotsLeft(b.pos + 1, putBack', eofPeeks)
    BY <1>2, <1>5, <2>3, SlotRead DEF Refilled
  <2>5. BufferedInv' /\ Rest' = RestAt(b.buf, b.eof, b.pos + 1, b.size, file, b.got)
    BY <1>1, <1>2, <1>4, <1>8, <2>2, <2>4, InstallOK DEF Refilled
  <2>6. IsCons(StreamRest, c, StreamRest') /\ StreamLine' = StreamLine + Stream!LineStep(c)
    BY <1>1, <1>8, <2>5, BufferedView, SameLines
  <2> QED
    BY <1>1, <2>5, <2>6, TakeCharOK
<1> QED
  BY <1>3, <1>7, <1>8

\* skipChar() needs no refill: the caller has just looked at the slot.
LEMMA BufferedSkipOK ==
  ASSUME StreamInv, BufferedInv, part = "buffered", part' = "buffered", skipChar
  PROVE  StreamStep /\ BufferedInv'
<1> DEFINE c == last.c
           p == bufferPos + 1
           R == RestAt(buffer, isEof, p, bufferSize, file, fetched)
<1>1. /\ last.op = "curChar" /\ c # EOFC
      /\ bufferPos' = p /\ line' = line + LineStep(buffer[bufferPos])
      /\ taken' = Append(taken, c) /\ last' = [op |-> "skipChar", c |-> 0]
      /\ putBack' = (IF putBack > 0 THEN putBack - 1 ELSE 0)
      /\ UNCHANGED <<file, fetched, buffer, isEof, bufferSize, eofPeeks, failed>>
  BY DEF skipChar, Answer, Read
<1>2. /\ BufOK(buffer, isEof, bufferPos, bufferSize, file, fetched)
      /\ Allocated(buffer, isEof, bufferSize) /\ SlotsLeft(bufferPos, putBack, eofPeeks)
      /\ failed = FALSE /\ bufferPos < bufferSize
  BY <1>1 DEF BufferedInv
<1>3. bufferPos \in Nat /\ bufferPos \in bufferPos..(bufferSize - 1)
  BY <1>2 DEF BufOK
<1>4. c = Stream!Here
  BY <1>1 DEF StreamInv
<1> HIDE DEF c, p
<1>5. Rest # <<>>
  BY <1>1, <1>4, BufferedView, SameChars DEF Stream!Here
<1>6. ~isEof[bufferPos]
  <2>1. isEof[bufferPos] => fetched = Len(file)
    BY <1>2, <1>3 DEF BufOK
  <2> QED
    BY <1>2, <1>5, <2>1, RestIs, RestIsRestAt
<1>7. BufOK(buffer, isEof, p, bufferSize, file, fetched) /\ IsCons(Rest, buffer[bufferPos], R)
  BY <1>2, <1>6, RestFirst, RestIsRestAt DEF p
<1>8. buffer[bufferPos] = c
  BY <1>4, <1>5, <1>7, BufferedView, ConsIs DEF Stream!Here
<1>9. SlotsLeft(p, putBack', eofPeeks)
  BY <1>1, <1>2, <1>3, SlotRead DEF p
<1>10. Rest' = R
  BY <1>1, RestIsRestAt
<1> HIDE DEF R
<1>11. last'.op # "curChar"
  BY <1>1
<1>12. BufferedInv'
  <2>1. /\ BufOK(buffer', isEof', bufferPos', bufferSize', file', fetched')
        /\ Allocated(buffer', isEof', bufferSize') /\ SlotsLeft(bufferPos', putBack', eofPeeks')
        /\ failed' = FALSE
    BY <1>1, <1>2, <1>7, <1>9
  <2> QED
    BY <1>11, <2>1 DEF BufferedInv, BufOK, Allocated, SlotsLeft, MarksAt, Slots
<1>13. IsCons(StreamRest, c, StreamRest') /\ StreamLine' = StreamLine + Stream!LineStep(c)
  BY <1>1, <1>7, <1>8, <1>10, BufferedView, SameLines
<1>14. /\ last.op = "curChar" /\ last.c # EOFC
       /\ last' = [op |-> "skipChar", c |-> 0] /\ taken' = Append(taken, c)
  BY <1>1 DEF c
<1>15. StreamStep
  BY <1>13, <1>14, TakeCharOK
<1> QED
  BY <1>12, <1>15

\* unreadChar() finds a slot, and the caller's character is in it.
LEMMA BufferedUnreadOK ==
  ASSUME StreamInv, BufferedInv, part = "buffered", part' = "buffered", unreadChar
  PROVE  StreamStep /\ BufferedInv'
<1> DEFINE c == taken[Len(taken)]
           p == bufferPos - 1
           z == bufferSize
<1>1. /\ taken # <<>> /\ taken' = SubSeq(taken, 1, Len(taken) - 1)
      /\ last' = [op |-> "unreadChar", c |-> c]
      /\ UNCHANGED <<file, fetched, bufferSize>> /\ bufferPos' = p
  BY DEF unreadChar, Answer
<1>2. /\ IF c = EOFC
           THEN eofPeeks < MaxEofPeeks /\ eofPeeks' = eofPeeks + 1 /\ putBack' = putBack
           ELSE putBack < MaxUnread /\ putBack' = putBack + 1 /\ eofPeeks' = eofPeeks
      /\ failed' = (p < 0)
      /\ isEof' = IF p < 0 THEN isEof ELSE [isEof EXCEPT ![p] = (c = EOFC)]
      /\ buffer' = IF p < 0 THEN buffer ELSE [buffer EXCEPT ![p] = ToChar(c)]
      /\ line' = IF p < 0 THEN line ELSE line - LineBack(c)
  BY DEF unreadChar
<1>3. /\ BufOK(buffer, isEof, bufferPos, z, file, fetched)
      /\ Allocated(buffer, isEof, z) /\ SlotsLeft(bufferPos, putBack, eofPeeks)
  BY DEF BufferedInv
<1>4. /\ taken \in Seq(0..EOFC) /\ Len(taken) \in Nat /\ Len(taken) > 0 /\ c \in 0..EOFC
  BY <1>1, TakenShrinks DEF StreamInv
<1>5. c = EOFC => StreamRest = <<>>
  <2>1. Len(taken) \in 1..Len(taken)
    BY <1>4
  <2> QED
    BY <2>1 DEF StreamInv
<1> HIDE DEF c
<1>6. /\ bufferPos \in Nat /\ z \in Nat /\ z <= BUFFER_SIZE /\ bufferPos <= z
      /\ bufferPos + putBack + eofPeeks >= MAX_UNREAD_COUNT
      /\ putBack \in 0..MaxUnread /\ eofPeeks \in 0..MaxEofPeeks
  BY <1>3, BufferAssumption DEF BufOK, Allocated, SlotsLeft
<1>7. p \in Nat /\ bufferPos = p + 1 /\ p \in Slots /\ ~(p < 0)
  <2>1. putBack + eofPeeks < MAX_UNREAD_COUNT
    BY <1>2, <1>6, BufferAssumption
  <2>2. bufferPos > 0
    BY <1>6, <2>1, BufferAssumption
  <2> QED
    BY <1>6, <2>2, BufferAssumption DEF Slots
<1>8. SlotsLeft(p, putBack', eofPeeks')
  BY <1>2, <1>6, <1>7, BufferAssumption DEF SlotsLeft
<1> HIDE DEF p
<1>9. /\ isEof' = [isEof EXCEPT ![p] = (c = EOFC)] /\ buffer' = [buffer EXCEPT ![p] = ToChar(c)]
      /\ line' = line - LineBack(c)
  BY <1>2, <1>7
<1>10. failed' = FALSE
  <2>1. (p < 0) = FALSE
    BY <1>7
  <2> QED
    BY <1>2, <2>1, Zenon
<1>11. Allocated(buffer', isEof', z)
  BY <1>3, <1>9 DEF Allocated
<1>12. /\ \A i \in Slots : i # p => buffer'[i] = buffer[i] /\ isEof'[i] = isEof[i]
       /\ buffer'[p] = ToChar(c) /\ isEof'[p] = (c = EOFC)
  BY <1>3, <1>7, <1>9 DEF Allocated
<1>13. ASSUME NEW i \in bufferPos..(z - 1) PROVE buffer'[i] = buffer[i] /\ isEof'[i] = isEof[i]
  <2>1. i \in Slots /\ i # p
    BY <1>6, <1>7, BufferAssumption DEF Slots
  <2> QED
    BY <1>12, <2>1
<1>14. /\ BufOK(buffer', isEof', p, z, file, fetched)
       /\ IF c = EOFC THEN Rest' = Rest ELSE IsCons(Rest', c, Rest)
  <2>1. Rest' = RestAt(buffer', isEof', p, z, file, fetched)
    BY <1>1, RestIsRestAt
  <2>2. CASE c = EOFC
    <3>1. Rest = <<>>
      BY <1>5, <2>2, BufferedView
    <3>2. isEof'[p]
      BY <1>12, <2>2
    <3>3. \A i \in bufferPos..(z - 1) : isEof'[i] <=> isEof[i]
      BY <1>13
    <3>4. /\ BufOK(buffer', isEof', p, z, file, fetched)
          /\ RestAt(buffer', isEof', p, z, file, fetched) = <<>>
      BY <1>3, <1>7, <3>1, <3>2, <3>3, RestMark, RestIsRestAt
    <3> QED
      BY <2>1, <2>2, <3>1, <3>4
  <2>3. CASE c # EOFC
    <3>1. c \in Chars
      BY <1>4, <2>3 DEF Chars, EOFC
    <3>2. buffer'[p] = c /\ ~isEof'[p]
      BY <1>12, <2>3, <3>1, ToCharIs
    <3>3. Agree(buffer, isEof, buffer', isEof', bufferPos, z)
      BY <1>13 DEF Agree
    <3>4. /\ BufOK(buffer', isEof', p, z, file, fetched)
          /\ IsCons(RestAt(buffer', isEof', p, z, file, fetched), c, Rest)
      BY <1>3, <1>7, <3>1, <3>2, <3>3, RestBack, RestIsRestAt
    <3> QED
      BY <2>1, <2>3, <3>4
  <2> QED
    BY <2>2, <2>3
<1>15. BufferedInv'
  <2>1. /\ BufOK(buffer', isEof', bufferPos', bufferSize', file', fetched')
        /\ Allocated(buffer', isEof', bufferSize') /\ SlotsLeft(bufferPos', putBack', eofPeeks')
    BY <1>1, <1>8, <1>11, <1>14
  <2>2. last'.op # "curChar"
    BY <1>1
  <2> QED
    BY <1>10, <2>1, <2>2 DEF BufferedInv, BufOK, Allocated, SlotsLeft, MarksAt, Slots
<1>16. /\ IF c = EOFC THEN StreamRest' = StreamRest ELSE IsCons(StreamRest', c, StreamRest)
       /\ StreamLine' = StreamLine - Stream!LineStep(c)
  BY <1>9, <1>14, BufferedView, SameLines
<1>17. StreamStep
  BY <1>1, <1>16, PutBackOK DEF c
<1> QED
  BY <1>15, <1>17

-----------------------------------------------------------------------------
\* The unbuffered reader: the markup, and the stack of characters put back.

KeptStep(before, x, C) == IF x \in C THEN Append(before, x) ELSE before
IsKept(f, q, C) ==
  f = [k \in 0..Len(q) |-> IF k = 0 THEN <<>> ELSE KeptStep(f[k - 1], q[k], C)]
KeptBy(f, q, E, C) ==
  /\ f \in [0..Len(q) -> Seq(E)] /\ f[0] = <<>>
  /\ \A k \in 1..Len(q) : f[k] = KeptStep(f[k - 1], q[k], C)
  /\ Unbuffered!Kept(q, C) = f[Len(q)]

\* Kept is the last value of a function that meets its equation.
LEMMA KeptIs ==
  ASSUME NEW q, NEW C
  PROVE  Unbuffered!Kept(q, C) = (CHOOSE f : IsKept(f, q, C))[Len(q)]
BY DEF Unbuffered!Kept, IsKept, KeptStep

\* There is one such function, of sequences.
LEMMA KeptDef ==
  ASSUME NEW E, NEW q \in Seq(E), NEW C
  PROVE  \E f : KeptBy(f, q, E, C)
<1> DEFINE n == Len(q)
           S == Seq(E)
           st == [k \in 1..n |-> [before \in S |-> KeptStep(before, q[k], C)]]
           F == CHOOSE f : IsKept(f, q, C)
<1>1. n \in Nat /\ \A k \in 1..n : q[k] \in E
  BY LenProperties, ElementOfSeq
<1>2. <<>> \in S
  BY EmptySeq
<1>3. st \in [1..n -> [S -> S]]
  <2>1. ASSUME NEW x \in E, NEW before \in S PROVE KeptStep(before, x, C) \in S
    BY AppendProperties DEF KeptStep
  <2> HIDE DEF n, S
  <2> QED BY <1>1, <2>1
<1>4. PICK g : IsRun(g, <<>>, st, n, S)
  <2> HIDE DEF n, S, st
  <2> QED BY <1>1, <1>2, <1>3, RunExists
<1>5. IsKept(g, q, C)
  <2>1. \A k \in 1..n : g[k] = KeptStep(g[k - 1], q[k], C)
    <3> SUFFICES ASSUME NEW k \in 1..n PROVE g[k] = KeptStep(g[k - 1], q[k], C)
      OBVIOUS
    <3>0. k - 1 \in 0..n
      BY <1>1
    <3>1. g[k] = st[k][g[k - 1]] /\ g[k - 1] \in S
      <4> HIDE DEF st, n, S
      <4> QED BY <3>0, <1>4 DEF IsRun
    <3> HIDE DEF n, S
    <3> QED BY <3>1
  <2>2. g \in [0..n -> S] /\ g[0] = <<>>
    BY <1>4 DEF IsRun
  <2> HIDE DEF S
  <2> QED BY <2>1, <2>2, <1>1 DEF IsKept
<1>6. IsKept(F, q, C)
  BY <1>5, Zenon
<1> HIDE DEF F, S
<1>7. F = [k \in 0..n |-> IF k = 0 THEN <<>> ELSE KeptStep(F[k - 1], q[k], C)]
  BY <1>6 DEF IsKept
<1>8. \A k \in 1..n : F[k] = KeptStep(F[k - 1], q[k], C)
  <2> SUFFICES ASSUME NEW k \in 1..n PROVE F[k] = KeptStep(F[k - 1], q[k], C)
    OBVIOUS
  <2>1. k \in 0..n /\ k # 0
    BY <1>1
  <2> HIDE DEF n
  <2> QED BY <1>7, <2>1
<1>9. F = [k \in 0..n |-> F[k]] /\ F[0] = <<>>
  BY <1>1, <1>7
<1>10. IsRun(F, <<>>, st, n, S)
  <2>1. \A k \in 1..n : F[k - 1] \in S => F[k] = st[k][F[k - 1]]
    <3> HIDE DEF n
    <3> QED BY <1>8
  <2> HIDE DEF n, st
  <2> QED BY <1>1, <1>2, <1>3, <1>9, <2>1, RunIsTyped
<1>11. F \in [0..n -> S]
  BY <1>10 DEF IsRun
<1>12. KeptBy(F, q, E, C)
  BY <1>8, <1>9, <1>11, KeptIs DEF F, S, KeptBy
<1> QED BY <1>12, Zenon

\* Kept, element by element.
LEMMA KeptEmpty ==
  ASSUME NEW C
  PROVE  Unbuffered!Kept(<<>>, C) = <<>>
<1> DEFINE q == <<>>
<1>1. q \in Seq({}) /\ Len(q) = 0
  BY EmptySeq
<1> HIDE DEF q
<1>2. PICK f : KeptBy(f, q, {}, C)
  BY <1>1, KeptDef, Zenon
<1> QED
  BY <1>1, <1>2 DEF q, KeptBy

\* An element more.
LEMMA KeptAppend ==
  ASSUME NEW E, NEW q \in Seq(E), NEW x \in E, NEW C
  PROVE  /\ Unbuffered!Kept(q, C) \in Seq(E)
         /\ Unbuffered!Kept(Append(q, x), C) = KeptStep(Unbuffered!Kept(q, C), x, C)
<1> DEFINE n == Len(q)
           w == Append(q, x)
           m == n + 1
<1>1. n \in Nat /\ w \in Seq(E) /\ Len(w) = m /\ (\A k \in 1..n : w[k] = q[k]) /\ w[m] = x
  BY LenProperties, AppendProperties
<1>f. PICK f : KeptBy(f, q, E, C)
  BY KeptDef, Zenon
<1>2. /\ f \in [0..n -> Seq(E)] /\ f[0] = <<>>
      /\ \A k \in 1..n : f[k] = KeptStep(f[k - 1], q[k], C)
      /\ Unbuffered!Kept(q, C) = f[n]
  BY <1>f, Zenon DEF KeptBy
<1>g. PICK g : KeptBy(g, w, E, C)
  <2> HIDE DEF w
  <2> QED BY <1>1, KeptDef, Zenon
<1>3. /\ g[0] = <<>>
      /\ \A k \in 1..m : g[k] = KeptStep(g[k - 1], w[k], C)
      /\ Unbuffered!Kept(w, C) = g[m]
  <2> HIDE DEF w, m, n
  <2> QED BY <1>1, <1>g DEF KeptBy
<1> HIDE DEF w, n
<1> DEFINE T == {k \in Nat : k <= n => g[k] = f[k]}
<1>4. 0 \in T
  BY <1>2, <1>3
<1>5. ASSUME NEW k \in Nat, k \in T PROVE k + 1 \in T
  <2> SUFFICES ASSUME k + 1 <= n PROVE g[k + 1] = f[k + 1]
    OBVIOUS
  <2> DEFINE j == k + 1
  <2>1. j \in 1..n /\ j \in 1..m /\ j - 1 = k /\ g[k] = f[k]
    BY <1>1, <1>5
  <2> HIDE DEF j, m
  <2>2. g[j] = KeptStep(g[k], w[j], C) /\ f[j] = KeptStep(f[k], q[j], C) /\ w[j] = q[j]
    BY <1>1, <1>2, <1>3, <2>1
  <2> QED BY <2>1, <2>2 DEF j
<1> HIDE DEF T
<1>6. n \in T
  BY <1>1, <1>4, <1>5, SetInduction
<1>7. g[n] = f[n]
  BY <1>1, <1>6 DEF T
<1>8. m \in 1..m /\ m - 1 = n /\ n \in 0..n
  BY <1>1
<1> HIDE DEF m
<1>9. g[m] = KeptStep(g[n], x, C)
  BY <1>1, <1>3, <1>8
<1> QED
  BY <1>2, <1>3, <1>7, <1>8, <1>9 DEF w

\* An element more, at the end.
LEMMA LastOfAppend ==
  ASSUME NEW E, NEW q \in Seq(E), NEW x \in E, NEW w, w = Append(q, x)
  PROVE  /\ Len(q) \in Nat /\ w \in Seq(E) /\ Len(w) = Len(q) + 1 /\ w[Len(w)] = x
         /\ w # <<>> /\ SubSeq(w, 1, Len(w) - 1) = q
         /\ \A k \in 1..Len(q) : w[Len(w) - k] = q[Len(q) + 1 - k]
<1> DEFINE n == Len(q)
           m == Len(w)
           v == SubSeq(w, 1, m - 1)
<1>1. n \in Nat /\ w \in Seq(E) /\ m = n + 1 /\ (\A k \in 1..n : w[k] = q[k]) /\ w[n + 1] = x
  <2> DEFINE u == Append(q, x)
  <2>1. Len(q) \in Nat /\ u \in Seq(E) /\ Len(u) = n + 1 /\ (\A k \in 1..n : u[k] = q[k]) /\ u[n + 1] = x
    BY LenProperties, AppendProperties
  <2>2. w = u
    OBVIOUS
  <2> HIDE DEF u
  <2> QED BY <2>1, <2>2
<1>2. w # <<>>
  BY <1>1, EmptySeq
<1>3. v \in Seq(E) /\ Len(v) = m - 1 /\ \A i \in 1..m - 1 : v[i] = w[i]
  BY <1>1, <1>2, WithoutLast
<1> HIDE DEF n, m, v
<1>4. v = q
  <2>0. m - 1 = n
    BY <1>1
  <2>1. Len(v) = n /\ \A i \in 1..n : v[i] = q[i]
    BY <1>1, <1>3, <2>0
  <2> QED BY <1>3, <2>1, SeqEqual DEF n
<1>5. ASSUME NEW k \in 1..n PROVE w[m - k] = q[n + 1 - k]
  <2> DEFINE j == m - k
  <2>1. j \in 1..n /\ n + 1 - k = j
    BY <1>1
  <2> HIDE DEF j
  <2>2. w[j] = q[j]
    BY <1>1, <2>1
  <2> QED
    BY <2>1, <2>2 DEF j
<1>6. w[m] = x
  BY <1>1
<1> QED
  BY <1>1, <1>2, <1>4, <1>5, <1>6 DEF n, m, v

\* The same facts of a sequence and what is left of it without its last element.
LEMMA LastIsAppended ==
  ASSUME NEW E, NEW w \in Seq(E), w # <<>>, NEW q, q = SubSeq(w, 1, Len(w) - 1)
  PROVE  q \in Seq(E) /\ w[Len(w)] \in E /\ w = Append(q, w[Len(w)])
<1> DEFINE m == Len(w)
           x == w[m]
           u == Append(q, x)
           v == SubSeq(w, 1, m - 1)
<1>1. m \in Nat /\ m > 0 /\ m \in 1..Len(w)
  BY LenProperties, EmptySeq
<1>2. x \in E
  BY <1>1, ElementOfSeq
<1>3. v \in Seq(E) /\ Len(v) = m - 1 /\ \A i \in 1..m - 1 : v[i] = w[i]
  BY WithoutLast
<1>4. q = v
  OBVIOUS
<1> HIDE DEF v, m, x
<1>5. q \in Seq(E) /\ Len(q) = m - 1 /\ \A i \in 1..m - 1 : q[i] = w[i]
  BY <1>3, <1>4
<1>6. u \in Seq(E) /\ Len(u) = Len(q) + 1 /\ (\A i \in 1..Len(q) : u[i] = q[i]) /\ u[Len(q) + 1] = x
  BY <1>2, <1>5, AppendProperties
<1> HIDE DEF u
<1>7. Len(u) = m /\ Len(w) = m
  BY <1>1, <1>5, <1>6 DEF m
<1>8. ASSUME NEW i \in 1..m PROVE u[i] = w[i]
  <2>1. CASE i = m
    BY <1>1, <1>5, <1>6, <2>1 DEF x
  <2>2. CASE i # m
    <3>1. i \in 1..m - 1
      BY <1>1, <2>2
    <3> QED
      BY <1>5, <1>6, <3>1
  <2> QED
    BY <2>1, <2>2
<1>9. u = w
  BY <1>6, <1>7, <1>8, SeqEqual
<1> QED
  BY <1>2, <1>5, <1>9 DEF u, x, m

\* The markup at the start.
LEMMA MarkupEmpty == MarkupOK(<<>>, <<>>, 0)
<1>1. Unbuffered!Kept(<<>>, 0..EOFC) = <<>>
  BY KeptEmpty
<1>2. <<>> \in Seq(Int) /\ <<>> \in Seq(0..EOFC) /\ Len(<<>>) = 0
  OBVIOUS
<1> QED
  BY <1>1, <1>2 DEF MarkupOK

\* A character is taken, and read.
LEMMA MarkupTake ==
  ASSUME NEW rd, NEW t, NEW fl, MarkupOK(rd, t, fl), NEW c \in 0..EOFC
  PROVE  MarkupOK(Append(rd, c), Append(t, c), fl)
<1> DEFINE I == Int
           B == 0..EOFC
           n == Len(rd)
           m == Len(t)
           w == Append(rd, c)
           u == Append(t, c)
           x == Len(w)
           y == Len(u)
<1>1. /\ rd \in Seq(I) /\ t \in Seq(B) /\ fl \in 0..m /\ m - fl <= n
      /\ \A k \in 1..(m - fl) : rd[n + 1 - k] = t[m + 1 - k]
      /\ Unbuffered!Kept(rd, B) = t
  BY DEF MarkupOK
<1>2. c \in I /\ c \in B
  BY SameChars
<1> HIDE DEF I, B
<1>3. /\ n \in Nat /\ w \in Seq(I) /\ x = n + 1 /\ w[x] = c
      /\ \A k \in 1..n : w[x - k] = rd[n + 1 - k]
  BY <1>1, <1>2, LastOfAppend
<1>4. /\ m \in Nat /\ u \in Seq(B) /\ y = m + 1 /\ u[y] = c
      /\ \A k \in 1..m : u[y - k] = t[m + 1 - k]
  BY <1>1, <1>2, LastOfAppend
<1>5. Unbuffered!Kept(w, B) = u
  <2>1. Unbuffered!Kept(w, B) = KeptStep(t, c, B)
    BY <1>1, <1>2, KeptAppend
  <2> QED
    BY <1>2, <2>1 DEF KeptStep
<1> HIDE DEF n, m, w, u, x, y
<1>6. fl \in 0..y /\ y - fl <= x
  BY <1>1, <1>3, <1>4
<1>7. ASSUME NEW k \in 1..(y - fl) PROVE w[x + 1 - k] = u[y + 1 - k]
  <2>1. CASE k = 1
    <3>1. x + 1 - k = x /\ y + 1 - k = y
      BY <1>3, <1>4, <2>1
    <3> QED
      BY <1>3, <1>4, <3>1
  <2>2. CASE k # 1
    <3> DEFINE j == k - 1
    <3>1. j \in 1..(m - fl) /\ j \in 1..n /\ j \in 1..m /\ x + 1 - k = x - j /\ y + 1 - k = y - j
      BY <1>1, <1>3, <1>4, <2>2
    <3> HIDE DEF j
    <3>2. w[x - j] = rd[n + 1 - j] /\ u[y - j] = t[m + 1 - j] /\ rd[n + 1 - j] = t[m + 1 - j]
      BY <1>1, <1>3, <1>4, <3>1
    <3> QED
      BY <3>1, <3>2
  <2> QED
    BY <2>1, <2>2
<1>8. w \in Seq(Int) /\ u \in Seq(0..EOFC) /\ Unbuffered!Kept(w, 0..EOFC) = u
  BY <1>3, <1>4, <1>5 DEF I, B
<1> QED
  BY <1>6, <1>7, <1>8 DEF MarkupOK, w, u, x, y

\* The last one taken since the last test case is put back: it is the last one read.
LEMMA MarkupBack ==
  ASSUME NEW rd, NEW t, NEW fl, MarkupOK(rd, t, fl), Len(t) > fl
  PROVE  /\ rd # <<>> /\ t # <<>> /\ rd[Len(rd)] = t[Len(t)]
         /\ MarkupOK(SubSeq(rd, 1, Len(rd) - 1), SubSeq(t, 1, Len(t) - 1), fl)
<1> DEFINE I == Int
           B == 0..EOFC
           x == Len(rd)
           y == Len(t)
           c == t[y]
           w == SubSeq(rd, 1, x - 1)
           u == SubSeq(t, 1, y - 1)
           n == Len(w)
           m == Len(u)
<1>1. /\ rd \in Seq(I) /\ t \in Seq(B) /\ fl \in 0..y /\ y - fl <= x
      /\ \A k \in 1..(y - fl) : rd[x + 1 - k] = t[y + 1 - k]
      /\ Unbuffered!Kept(rd, B) = t
  BY DEF MarkupOK
<1> HIDE DEF I, B
<1>2. x \in Nat /\ y \in Nat
  BY <1>1, LenProperties
<1>3. x > 0 /\ y > 0 /\ 1 \in 1..(y - fl) /\ x + 1 - 1 = x /\ y + 1 - 1 = y
  BY <1>1, <1>2
<1>4. rd # <<>> /\ t # <<>> /\ rd[x] = c
  BY <1>1, <1>3, EmptySeq
<1>5. w \in Seq(I) /\ c \in I /\ rd = Append(w, c)
  BY <1>1, <1>4, LastIsAppended
<1>6. u \in Seq(B) /\ c \in B /\ t = Append(u, c)
  BY <1>1, <1>4, LastIsAppended
<1> HIDE DEF w, u, c
<1>7. n \in Nat /\ x = n + 1 /\ \A k \in 1..n : rd[x - k] = w[n + 1 - k]
  BY <1>5, LastOfAppend
<1>8. m \in Nat /\ y = m + 1 /\ \A k \in 1..m : t[y - k] = u[m + 1 - k]
  BY <1>6, LastOfAppend
<1>9. Unbuffered!Kept(w, B) = u
  <2> DEFINE v == Unbuffered!Kept(w, B)
  <2>1. v \in Seq(I) /\ t = KeptStep(v, c, B)
    BY <1>1, <1>5, KeptAppend
  <2> HIDE DEF v
  <2>2. t = Append(v, c)
    BY <1>6, <2>1 DEF KeptStep
  <2>3. SubSeq(t, 1, Len(t) - 1) = v
    BY <1>5, <2>1, <2>2, LastOfAppend
  <2> QED
    BY <2>3 DEF u, v
<1> HIDE DEF n, m, x, y
<1>10. fl \in 0..m /\ m - fl <= n
  BY <1>1, <1>3, <1>7, <1>8
<1>11. ASSUME NEW k \in 1..(m - fl) PROVE w[n + 1 - k] = u[m + 1 - k]
  <2> DEFINE j == k + 1
  <2>1. j \in 1..(y - fl) /\ k \in 1..n /\ k \in 1..m /\ x - k = x + 1 - j /\ y - k = y + 1 - j
    BY <1>1, <1>7, <1>8, <1>10
  <2> HIDE DEF j
  <2>2. rd[x - k] = w[n + 1 - k] /\ t[y - k] = u[m + 1 - k] /\ rd[x + 1 - j] = t[y + 1 - j]
    BY <1>1, <1>7, <1>8, <2>1
  <2> QED
    BY <2>1, <2>2
<1>12. w \in Seq(Int) /\ u \in Seq(0..EOFC) /\ Unbuffered!Kept(w, 0..EOFC) = u
  BY <1>5, <1>6, <1>9 DEF I, B
<1>13. MarkupOK(w, u, fl)
  BY <1>10, <1>11, <1>12 DEF MarkupOK, n, m
<1> QED
  BY <1>4, <1>13 DEF w, u, x, y, c

\* A test case is marked.
LEMMA MarkupCase ==
  ASSUME NEW rd, NEW t, NEW fl, MarkupOK(rd, t, fl), NEW x \in Int, x \notin 0..EOFC
  PROVE  MarkupOK(Append(rd, x), t, Len(t))
<1> DEFINE I == Int
           w == Append(rd, x)
           m == Len(t)
<1>1. rd \in Seq(I) /\ t \in Seq(0..EOFC) /\ x \in I /\ Unbuffered!Kept(rd, 0..EOFC) = t
  BY DEF MarkupOK
<1> HIDE DEF I
<1>2. w \in Seq(I) /\ Len(rd) \in Nat /\ Len(w) = Len(rd) + 1
  BY <1>1, LastOfAppend
<1>3. Unbuffered!Kept(w, 0..EOFC) = t
  <2>1. Unbuffered!Kept(w, 0..EOFC) = KeptStep(t, x, 0..EOFC)
    BY <1>1, KeptAppend
  <2> QED
    BY <2>1 DEF KeptStep
<1>4. m \in Nat
  <2> DEFINE B == 0..EOFC
  <2>1. t \in Seq(B)
    BY <1>1
  <2> HIDE DEF B
  <2> QED BY <2>1, LenProperties
<1> HIDE DEF w, m
<1>5. m \in 0..m /\ m - m <= Len(w) /\ \A k \in 1..(m - m) : w[Len(w) + 1 - k] = t[m + 1 - k]
  BY <1>2, <1>4
<1> QED
  BY <1>1, <1>2, <1>3, <1>5 DEF MarkupOK, w, m, I

\* What the reader q has still to read of the file f.
Back(u) == [i \in 1..Len(u) |-> u[Len(u) + 1 - i]]
RestOf(q, f) == IF q.feof THEN <<>> ELSE Back(q.undo) \o SubSeq(f, q.off + 1, Len(f))

\* The stack, last first.
LEMMA BackIs ==
  ASSUME NEW u \in Seq(Chars)
  PROVE  /\ Len(u) \in Nat /\ Back(u) \in Seq(Chars) /\ Len(Back(u)) = Len(u)
         /\ \A i \in 1..Len(u) : Back(u)[i] = u[Len(u) + 1 - i]
<1> DEFINE n == Len(u)
           h == Back(u)
<1>1. n \in Nat /\ \A i \in 1..n : u[i] \in Chars
  BY LenProperties, ElementOfSeq
<1> HIDE DEF n
<1>2. h = [i \in 1..n |-> u[n + 1 - i]]
  BY DEF Back, n
<1>3. ASSUME NEW i \in 1..n PROVE u[n + 1 - i] \in Chars
  <2> DEFINE j == n + 1 - i
  <2>1. j \in 1..n
    BY <1>1
  <2> HIDE DEF j
  <2>2. u[j] \in Chars
    BY <1>1, <2>1
  <2> QED BY <2>2 DEF j
<1>4. h \in [1..n -> Chars]
  BY <1>2, <1>3
<1>5. \A i \in 1..n : h[i] = u[n + 1 - i]
  BY <1>2
<1> HIDE DEF h
<1>6. h \in Seq(Chars)
  BY <1>1, <1>4, SeqDef
<1>7. DOMAIN h = 1..n /\ DOMAIN h = 1..Len(h) /\ Len(h) \in Nat
  BY <1>4, <1>6, LenProperties
<1>8. Len(h) = n
  BY <1>1, <1>7
<1> QED
  BY <1>1, <1>5, <1>6, <1>8 DEF h, n

\* One more on the stack is one more to read.
LEMMA BackAppend ==
  ASSUME NEW u \in Seq(Chars), NEW c \in Chars, NEW w, w = Append(u, c)
  PROVE  IsCons(Back(w), c, Back(u))
<1> DEFINE n == Len(u)
           m == Len(w)
           h == Back(w)
           t == Back(u)
<1>1. /\ n \in Nat /\ w \in Seq(Chars) /\ m = n + 1 /\ w[m] = c
      /\ \A k \in 1..n : w[m - k] = u[n + 1 - k]
  BY LastOfAppend
<1>2. h \in Seq(Chars) /\ Len(h) = m /\ \A i \in 1..m : h[i] = w[m + 1 - i]
  BY <1>1, BackIs
<1>3. t \in Seq(Chars) /\ Len(t) = n /\ \A i \in 1..n : t[i] = u[n + 1 - i]
  BY BackIs
<1> HIDE DEF n, m, h, t
<1>4. h[1] = c
  <2>1. 1 \in 1..m /\ m + 1 - 1 = m
    BY <1>1
  <2> QED BY <1>1, <1>2, <2>1
<1>5. ASSUME NEW i \in 1..n PROVE h[i + 1] = t[i]
  <2> DEFINE j == i + 1
  <2>1. j \in 1..m /\ m + 1 - j = m - i
    BY <1>1
  <2> HIDE DEF j
  <2>2. h[j] = w[m + 1 - j] /\ w[m - i] = u[n + 1 - i] /\ t[i] = u[n + 1 - i]
    BY <1>1, <1>2, <1>3, <2>1
  <2> QED BY <2>1, <2>2 DEF j
<1>6. IsCons(h, c, t)
  BY <1>1, <1>2, <1>3, <1>4, <1>5 DEF IsCons
<1> QED
  BY <1>6 DEF h, t

\* What the reader reads next: the top of the stack, the next byte of the file, or
\* the end.
LEMMA RestOfIs ==
  ASSUME NEW f \in Seq(Chars), NEW u \in Seq(Chars), NEW o \in 0..Len(f)
  PROVE  /\ Len(f) \in Nat
         /\ u = <<>> /\ o = Len(f) => Back(u) \o SubSeq(f, o + 1, Len(f)) = <<>>
         /\ u = <<>> /\ o # Len(f) =>
              IsCons(Back(u) \o SubSeq(f, o + 1, Len(f)), f[o + 1],
                   Back(u) \o SubSeq(f, o + 1 + 1, Len(f)))
         /\ \A c \in Chars : IsCons(Back(Append(u, c)) \o SubSeq(f, o + 1, Len(f)), c,
                                  Back(u) \o SubSeq(f, o + 1, Len(f)))
<1> DEFINE n == Len(f)
           p == o + 1
           d == SubSeq(f, o + 1, n)
           e == SubSeq(f, p + 1, n)
           h == Back(u)
<1>1. n \in Nat /\ o \in Nat /\ o <= n /\ p \in Nat
  BY LenProperties
<1>2. /\ d \in Seq(Chars) /\ (o >= n => d = <<>>) /\ (o < n => IsCons(d, f[p], e))
  BY <1>1, DropOne
<1>3. h \in Seq(Chars) /\ Len(h) = Len(u)
  BY BackIs
<1>4. e \in Seq(Chars)
  <2> HIDE DEF p
  <2> QED BY <1>1, DropIs
<1> HIDE DEF h, d, e, p
<1>5. ASSUME u = <<>> PROVE h \o d = d /\ h \o e = e
  <2>1. h = <<>>
    BY <1>3, <1>5, EmptySeq
  <2> QED
    BY <1>2, <1>4, <2>1, ConcatEmptySeq
<1>6. ASSUME u = <<>>, o = n PROVE h \o d = <<>>
  BY <1>1, <1>2, <1>5, <1>6
<1>7. ASSUME u = <<>>, o # n PROVE IsCons(h \o d, f[p], h \o e)
  <2>1. o < n
    BY <1>1, <1>7
  <2>2. IsCons(d, f[p], e)
    BY <1>2, <2>1
  <2>3. h \o d = d /\ h \o e = e
    BY <1>5, <1>7
  <2> QED
    BY <2>2, <2>3
<1>8. ASSUME NEW c \in Chars PROVE IsCons(Back(Append(u, c)) \o d, c, h \o d)
  <2>1. IsCons(Back(Append(u, c)), c, h)
    BY BackAppend DEF h
  <2> QED
    BY <1>2, <2>1, ConsLeft
<1> QED
  BY <1>1, <1>6, <1>7, <1>8 DEF h, d, e, p

\* The reader's record, by its fields.
Rdr(o, e, u, rd, ur, l) ==
  [off |-> o, feof |-> e, undo |-> u, read |-> rd, undoRead |-> ur, line |-> l]

\* Every reader is one.
LEMMA IsRdr ==
  ASSUME NEW A, NEW B, NEW C, NEW D, NEW E, NEW F,
         NEW q \in [off : A, feof : B, undo : C, read : D, undoRead : E, line : F]
  PROVE  q = Rdr(q.off, q.feof, q.undo, q.read, q.undoRead, q.line)
BY DEF Rdr

\* Its fields.
LEMMA RdrFields ==
  ASSUME NEW o, NEW e, NEW u, NEW rd, NEW ur, NEW l
  PROVE  LET q == Rdr(o, e, u, rd, ur, l) IN
         q.off = o /\ q.feof = e /\ q.undo = u /\ q.read = rd /\ q.undoRead = ur /\ q.line = l
BY DEF Rdr

\* Two of its fields changed.
SetUndo(q, x, y) == [q EXCEPT !.undo = x, !.undoRead = y]
SetFile(q, x, y) == [q EXCEPT !.off = x, !.feof = y]
SetRead(q, x, y) == [q EXCEPT !.read = x, !.line = y]
SetMarks(q, x, y) == [q EXCEPT !.undoRead = x, !.read = y]
SetBack(q, x, y) == [q EXCEPT !.undo = x, !.line = y]

\* What it is then.
LEMMA RdrExcept ==
  ASSUME NEW o, NEW e, NEW u, NEW rd, NEW ur, NEW l, NEW x, NEW y, NEW q, q = Rdr(o, e, u, rd, ur, l)
  PROVE  /\ SetUndo(q, x, y) = Rdr(o, e, x, rd, y, l)
         /\ SetFile(q, x, y) = Rdr(x, y, u, rd, ur, l)
         /\ SetRead(q, x, y) = Rdr(o, e, u, x, ur, y)
         /\ SetMarks(q, x, y) = Rdr(o, e, u, y, x, l)
         /\ SetBack(q, x, y) = Rdr(o, e, x, rd, ur, y)
<1>0. DOMAIN q = {"off", "feof", "undo", "read", "undoRead", "line"}
  BY DEF Rdr
<1>1. SetUndo(q, x, y) = Rdr(o, e, x, rd, y, l)
  <2>1. SetUndo(q, x, y) =
          [f \in DOMAIN q |-> IF f = "undo" THEN x ELSE IF f = "undoRead" THEN y ELSE q[f]]
    BY DEF SetUndo
  <2> QED
    BY <1>0, <2>1 DEF Rdr
<1>2. SetFile(q, x, y) = Rdr(x, y, u, rd, ur, l)
  <2>1. SetFile(q, x, y) =
          [f \in DOMAIN q |-> IF f = "off" THEN x ELSE IF f = "feof" THEN y ELSE q[f]]
    BY DEF SetFile
  <2> QED
    BY <1>0, <2>1 DEF Rdr
<1>3. SetRead(q, x, y) = Rdr(o, e, u, x, ur, y)
  <2>1. SetRead(q, x, y) =
          [f \in DOMAIN q |-> IF f = "read" THEN x ELSE IF f = "line" THEN y ELSE q[f]]
    BY DEF SetRead
  <2> QED
    BY <1>0, <2>1 DEF Rdr
<1>4. SetMarks(q, x, y) = Rdr(o, e, u, y, x, l)
  <2>1. SetMarks(q, x, y) =
          [f \in DOMAIN q |-> IF f = "undoRead" THEN x ELSE IF f = "read" THEN y ELSE q[f]]
    BY DEF SetMarks
  <2> QED
    BY <1>0, <2>1 DEF Rdr
<1>5. SetBack(q, x, y) = Rdr(o, e, x, rd, ur, y)
  <2>1. SetBack(q, x, y) =
          [f \in DOMAIN q |-> IF f = "undo" THEN x ELSE IF f = "line" THEN y ELSE q[f]]
    BY DEF SetBack
  <2> QED
    BY <1>0, <2>1 DEF Rdr
<1> QED
  BY <1>1, <1>2, <1>3, <1>4, <1>5

\* What getc() returns.
Got(g, c, v) == g = [c |-> c, r |-> v]

\* getc() from the stack.
LEMMA GetcUndo ==
  ASSUME NEW o, NEW e, NEW u, NEW rd, NEW l, NEW c, NEW v, u # <<>>,
         c = u[Len(u)], v = SubSeq(u, 1, Len(u) - 1), NEW q, q = Rdr(o, e, u, rd, u, l)
  PROVE  Got(Unbuffered!getc(q), c, Rdr(o, e, v, Append(rd, c), v, l + Unbuffered!LineStep(c)))
<1> DEFINE p == SetUndo(q, v, v)
           w == SetRead(p, Append(rd, c), l + Unbuffered!LineStep(c))
<1>1. q.undo = u /\ q.undoRead = u
  BY RdrFields
<1>2. p = Rdr(o, e, v, rd, v, l)
  BY RdrExcept
<1>3. p.read = rd /\ p.line = l
  BY <1>2, RdrFields
<1>4. w = Rdr(o, e, v, Append(rd, c), v, l + Unbuffered!LineStep(c))
  <2> HIDE DEF p
  <2> QED BY <1>2, RdrExcept
<1>5. Unbuffered!getc(q) = [c |-> c, r |-> w]
  BY <1>1, <1>3 DEF Unbuffered!getc, Unbuffered!Top, Unbuffered!Pop, SetUndo, SetRead
<1> QED
  BY <1>4, <1>5 DEF Got

\* Four of its fields changed.
LEMMA FileAndRead ==
  ASSUME NEW o, NEW e, NEW u, NEW rd, NEW ur, NEW l, NEW x, NEW y, NEW a, NEW b,
         NEW q, q = Rdr(o, e, u, rd, ur, l), NEW h, h = SetFile(q, x, y)
  PROVE  h.read = rd /\ h.line = l /\ SetRead(h, a, b) = Rdr(x, y, u, a, ur, b)
<1>1. h = Rdr(x, y, u, rd, ur, l)
  BY RdrExcept
<1> QED
  BY <1>1, RdrFields, RdrExcept

\* getc() from the file.
LEMMA GetcFile ==
  ASSUME NEW o, NEW e, NEW u, NEW rd, NEW l, u = <<>>, o # Len(file), NEW c, c = file[o + 1],
         e = FALSE, NEW q, q = Rdr(o, e, u, rd, u, l)
  PROVE  Got(Unbuffered!getc(q), c, Rdr(o + 1, e, u, Append(rd, c), u, l + Unbuffered!LineStep(c)))
<1> DEFINE h == SetFile(q, o + 1, e)
           w == SetRead(h, Append(rd, c), l + Unbuffered!LineStep(c))
<1>1. q.undo = u /\ q.off = o /\ q.feof = e
  BY RdrFields
<1>2. /\ h.read = rd /\ h.line = l
      /\ w = Rdr(o + 1, e, u, Append(rd, c), u, l + Unbuffered!LineStep(c))
  BY FileAndRead
<1>3. Unbuffered!getc(q) = [c |-> c, r |-> w]
  BY <1>1, <1>2 DEF Unbuffered!getc, SetFile, SetRead
<1> QED
  BY <1>2, <1>3 DEF Got

\* getc() at the end of the file.
LEMMA GetcEnd ==
  ASSUME NEW o, NEW e, NEW u, NEW rd, NEW l, u = <<>>, o = Len(file), NEW c, c = Unbuffered!EOF,
         NEW x, NEW q, q = Rdr(o, e, u, rd, u, l)
  PROVE  x = TRUE =>
           Got(Unbuffered!getc(q), c, Rdr(o, x, u, Append(rd, c), u, l + Unbuffered!LineStep(c)))
<1> DEFINE h == SetFile(q, o, x)
           w == SetRead(h, Append(rd, c), l + Unbuffered!LineStep(c))
<1>1. q.undo = u /\ q.off = o
  BY RdrFields
<1>2. /\ h.read = rd /\ h.line = l
      /\ w = Rdr(o, x, u, Append(rd, c), u, l + Unbuffered!LineStep(c))
  BY FileAndRead
<1>3. x = TRUE => Unbuffered!getc(q) = [c |-> c, r |-> w]
  BY <1>1, <1>2 DEF Unbuffered!getc, SetFile, SetRead
<1> QED
  BY <1>2, <1>3 DEF Got

\* ungetc(), with the markup's last entry or without any.
LEMMA UngetcIs ==
  ASSUME NEW o, NEW e, NEW u, NEW rd, NEW ur, NEW l, NEW c, NEW v, NEW w,
         IF rd = <<>> THEN v = rd /\ w = ur
         ELSE v = SubSeq(rd, 1, Len(rd) - 1) /\ w = Append(ur, rd[Len(rd)]),
         NEW q, q = Rdr(o, e, u, rd, ur, l)
  PROVE  Unbuffered!ungetc(q, c) = Rdr(o, e, Append(u, c), v, w, l - Unbuffered!LineStep(c))
<1> DEFINE p == Unbuffered!UnreadMarks(q)
<1>1. q.undo = u /\ q.undoRead = ur /\ q.read = rd /\ q.line = l
  BY RdrFields
<1>2. p = Rdr(o, e, u, v, w, l)
  <2>1. CASE rd = <<>>
    BY <1>1, <2>1 DEF Unbuffered!UnreadMarks
  <2>2. CASE rd # <<>>
    <3>1. SetMarks(q, w, v) = Rdr(o, e, u, v, w, l)
      BY RdrExcept
    <3>2. v = SubSeq(rd, 1, Len(rd) - 1) /\ w = Append(ur, rd[Len(rd)])
      BY <2>2
    <3> QED
      BY <1>1, <2>2, <3>1, <3>2 DEF Unbuffered!UnreadMarks, Unbuffered!Top, Unbuffered!Pop, SetMarks
  <2> QED
    BY <2>1, <2>2
<1> HIDE DEF p
<1>3. p.undo = u /\ p.line = l
  BY <1>2, RdrFields
<1>4. SetBack(p, Append(u, c), l - Unbuffered!LineStep(c))
        = Rdr(o, e, Append(u, c), v, w, l - Unbuffered!LineStep(c))
  BY <1>2, RdrExcept
<1> QED
  BY <1>3, <1>4 DEF Unbuffered!ungetc, p, SetBack

\* A reader's record from its fields.
LEMMA ReaderIs ==
  ASSUME NEW o \in 0..Len(file), NEW e \in BOOLEAN, NEW u \in Seq(Int), NEW rd \in Seq(Int),
         NEW ur \in Seq(Int), NEW l \in Int, e = FALSE => u \in Seq(Chars) /\ ur = u
  PROVE  ReaderOK(Rdr(o, e, u, rd, ur, l))
<1> DEFINE q == Rdr(o, e, u, rd, ur, l)
           I == Seq(Int)
           O == 0..Len(file)
           N == Int
<1>1. o \in O /\ u \in I /\ rd \in I /\ ur \in I /\ l \in N
  OBVIOUS
<1> HIDE DEF I, O, N
<1>2. q \in [off : O, feof : BOOLEAN, undo : I, read : I, undoRead : I, line : N]
  BY <1>1 DEF Rdr
<1>3. q.feof = e /\ q.undo = u /\ q.undoRead = ur
  BY RdrFields
<1> HIDE DEF q
<1>4. ~q.feof => q.undo \in Seq(Chars) /\ q.undoRead = q.undo
  BY <1>3
<1> QED
  BY <1>2, <1>4 DEF ReaderOK, q, I, O, N

\* And the fields from the record.
LEMMA ReaderHas ==
  ASSUME NEW q, ReaderOK(q)
  PROVE  /\ q = Rdr(q.off, q.feof, q.undo, q.read, q.undoRead, q.line)
         /\ q.off \in 0..Len(file) /\ q.feof \in BOOLEAN /\ q.undo \in Seq(Int)
         /\ q.read \in Seq(Int) /\ q.undoRead \in Seq(Int) /\ q.line \in Int
         /\ ~q.feof => q.undo \in Seq(Chars) /\ q.undoRead = q.undo
<1> DEFINE I == Seq(Int)
           O == 0..Len(file)
           N == Int
<1>1. /\ q \in [off : O, feof : BOOLEAN, undo : I, read : I, undoRead : I, line : N]
      /\ ~q.feof => q.undo \in Seq(Chars) /\ q.undoRead = q.undo
  BY DEF ReaderOK
<1> HIDE DEF I, O, N
<1>2. q = Rdr(q.off, q.feof, q.undo, q.read, q.undoRead, q.line)
  BY <1>1, IsRdr
<1>3. q.off \in O /\ q.feof \in BOOLEAN /\ q.undo \in I /\ q.read \in I /\ q.undoRead \in I /\ q.line \in N
  BY <1>1
<1> QED
  BY <1>1, <1>2, <1>3 DEF I, O, N

\* Characters are numbers, and so are sequences of them.
LEMMA CharsAreInts ==
  ASSUME NEW c \in Chars, NEW u \in Seq(Chars), NEW w \in Seq(Int), NEW n \in Int
  PROVE  /\ c \in Int /\ u \in Seq(Int) /\ Append(w, n) \in Seq(Int) /\ Append(w, c) \in Seq(Int)
<1> DEFINE I == Int
<1>1. Chars \subseteq I /\ w \in Seq(I) /\ n \in I
  BY DEF Chars, EOFC
<1> HIDE DEF I
<1>2. u \in Seq(I)
  BY <1>1, SeqMonotonic
<1>3. Append(w, n) \in Seq(I) /\ Append(w, c) \in Seq(I)
  BY <1>1, AppendProperties
<1> QED
  BY <1>1, <1>2, <1>3 DEF I

\* getc() at the end, and before it.
AtEnd(q, g) ==
  RestOf(q, file) = <<>> /\ g.c = -1 /\ g.r.feof = TRUE /\ g.r.line = q.line
OneMore(q, g) ==
  /\ IsCons(RestOf(q, file), g.c, RestOf(g.r, file)) /\ g.r.feof = FALSE
  /\ g.r.read = Append(q.read, g.c) /\ g.r.line = q.line + Stream!LineStep(g.c)

\* getc() from the stack takes the next character.
LEMMA GetcUndoOK ==
  ASSUME file \in Seq(Chars), NEW q, ReaderOK(q), ~q.feof, q.undo # <<>>
  PROVE  LET g == Unbuffered!getc(q) IN ReaderOK(g.r) /\ OneMore(q, g)
<1> DEFINE g == Unbuffered!getc(q)
           n == Len(file)
           o == q.off
           e == q.feof
           l == q.line
           y == q.undo
           rd == q.read
           c == y[Len(y)]
           u == SubSeq(y, 1, Len(y) - 1)
           k == l + Unbuffered!LineStep(c)
           w == Append(rd, c)
           v == Rdr(o, e, u, w, u, k)
<1>1. /\ q = Rdr(o, e, y, rd, y, l) /\ e = FALSE /\ y \in Seq(Chars)
      /\ o \in 0..n /\ l \in Int /\ rd \in Seq(Int) /\ y # <<>>
  BY ReaderHas
<1> HIDE DEF o, e, l, n, y, rd
<1>2. u \in Seq(Chars) /\ c \in Chars /\ y = Append(u, c)
  BY <1>1, LastIsAppended
<1>3. Got(g, c, v)
  <2>1. c = y[Len(y)] /\ u = SubSeq(y, 1, Len(y) - 1)
    OBVIOUS
  <2> HIDE DEF c, u
  <2> HIDE DEF g, v
  <2>2. q = Rdr(o, e, y, rd, y, l) /\ y # <<>>
    BY <1>1
  <2> QED BY <2>1, <2>2, GetcUndo DEF g, v, w, k
<1> HIDE DEF g, u, c
<1>4. k \in Int /\ u \in Seq(Int) /\ w \in Seq(Int)
  <2>1. Unbuffered!LineStep(c) \in {0, 1}
    BY SameLines
  <2>2. k \in Int
    BY <1>1, <2>1
  <2> QED
    BY <1>1, <1>2, <2>2, CharsAreInts
<1> HIDE DEF k, w
<1>5. v.off = o /\ v.feof = e /\ v.undo = u /\ v.read = w /\ v.line = k
  BY RdrFields
<1>6. ReaderOK(v)
  BY <1>1, <1>2, <1>4, ReaderIs DEF n
<1> HIDE DEF v
<1>7. g.c = c /\ g.r = v
  BY <1>3 DEF Got
<1>8. IsCons(RestOf(q, file), c, RestOf(v, file))
  <2>1. /\ RestOf(q, file) = Back(Append(u, c)) \o SubSeq(file, o + 1, n)
        /\ RestOf(v, file) = Back(u) \o SubSeq(file, o + 1, n)
    BY <1>1, <1>2, <1>5 DEF RestOf, o, e, n, y
  <2> QED
    BY <1>1, <1>2, <2>1, RestOfIs DEF n
<1>9. v.feof = FALSE /\ v.read = Append(q.read, c) /\ v.line = q.line + Stream!LineStep(c)
  BY <1>1, <1>5, SameLines DEF k, l, w, rd
<1> QED
  BY <1>6, <1>7, <1>8, <1>9 DEF OneMore, g

\* And from the file.
LEMMA GetcFileOK ==
  ASSUME file \in Seq(Chars), NEW q, ReaderOK(q), ~q.feof, q.undo = <<>>, q.off # Len(file)
  PROVE  LET g == Unbuffered!getc(q) IN ReaderOK(g.r) /\ OneMore(q, g)
<1> DEFINE g == Unbuffered!getc(q)
           n == Len(file)
           o == q.off
           p == o + 1
           e == q.feof
           u == q.undo
           l == q.line
           rd == q.read
           c == file[p]
           k == l + Unbuffered!LineStep(c)
           w == Append(rd, c)
           v == Rdr(p, e, u, w, u, k)
<1>1. /\ q = Rdr(o, e, u, rd, u, l) /\ e = FALSE /\ u \in Seq(Chars) /\ u \in Seq(Int)
      /\ o \in 0..n /\ l \in Int /\ rd \in Seq(Int)
  BY ReaderHas
<1>2. n \in Nat
  BY LenProperties
<1>3. p \in 1..n /\ p \in 0..n
  BY <1>1, <1>2
<1>4. c \in Chars
  BY <1>3, ElementOfSeq
<1>5. u = <<>> /\ o # Len(file)
  OBVIOUS
<1> HIDE DEF o, e, l, u, rd
<1>6. Got(g, c, v)
  <2>1. c = file[o + 1]
    OBVIOUS
  <2> HIDE DEF c
  <2>2. q = Rdr(o, e, u, rd, u, l) /\ e = FALSE
    BY <1>1
  <2> QED BY <1>5, <2>1, <2>2, GetcFile DEF g, v, w, k, p
<1> HIDE DEF g, c, p, n
<1>7. k \in Int /\ w \in Seq(Int)
  <2>1. Unbuffered!LineStep(c) \in {0, 1}
    BY SameLines
  <2>2. k \in Int
    BY <1>1, <2>1
  <2> QED
    BY <1>1, <1>4, <2>2, CharsAreInts
<1> HIDE DEF k, w
<1>8. v.off = p /\ v.feof = e /\ v.undo = u /\ v.read = w /\ v.line = k
  BY RdrFields
<1>9. ReaderOK(v)
  BY <1>1, <1>3, <1>7, ReaderIs DEF n
<1> HIDE DEF v
<1>10. g.c = c /\ g.r = v
  BY <1>6 DEF Got
<1>11. IsCons(RestOf(q, file), c, RestOf(v, file))
  <2>1. /\ RestOf(q, file) = Back(u) \o SubSeq(file, o + 1, Len(file))
        /\ RestOf(v, file) = Back(u) \o SubSeq(file, o + 1 + 1, Len(file))
    BY <1>1, <1>8 DEF RestOf, o, e, p, u
  <2>2. c = file[o + 1]
    BY DEF c, p
  <2> QED
    BY <1>1, <1>5, <2>1, <2>2, RestOfIs DEF n
<1>12. v.feof = FALSE /\ v.read = Append(q.read, c) /\ v.line = q.line + Stream!LineStep(c)
  BY <1>1, <1>8, SameLines DEF k, l, w, rd
<1> QED
  BY <1>9, <1>10, <1>11, <1>12 DEF OneMore, g

\* At the end it sets feof.
LEMMA GetcEndOK ==
  ASSUME file \in Seq(Chars), NEW q, ReaderOK(q), ~q.feof, q.undo = <<>>, q.off = Len(file)
  PROVE  LET g == Unbuffered!getc(q) IN ReaderOK(g.r) /\ AtEnd(q, g)
<1> DEFINE g == Unbuffered!getc(q)
           n == Len(file)
           o == q.off
           e == q.feof
           u == q.undo
           l == q.line
           rd == q.read
           c == -1
           w == Append(rd, c)
           x == TRUE
           v == Rdr(o, x, u, w, u, l)
<1>1. /\ q = Rdr(o, e, u, rd, u, l) /\ e = FALSE /\ u \in Seq(Chars) /\ u \in Seq(Int)
      /\ o \in 0..n /\ l \in Int /\ rd \in Seq(Int)
  BY ReaderHas
<1>2. u = <<>> /\ o = Len(file) /\ c = Unbuffered!EOF /\ c \in Int /\ x = TRUE /\ x \in BOOLEAN
  BY SameChars
<1>3. l + Unbuffered!LineStep(c) = l
  <2>1. Unbuffered!LineStep(c) = 0
    BY SameChars DEF Unbuffered!LineStep
  <2> QED
    BY <1>1, <2>1
<1> HIDE DEF o, e, l, u, c, x, rd
<1>4. Got(g, c, v)
  <2> DEFINE k == l + Unbuffered!LineStep(c)
  <2>1. Got(g, c, Rdr(o, x, u, w, u, k))
    <3>1. q = Rdr(o, e, u, rd, u, l)
      BY <1>1
    <3> QED BY <1>2, <3>1, GetcEnd DEF g, w, k
  <2>2. k = l
    BY <1>3
  <2> HIDE DEF k
  <2> QED BY <2>1, <2>2
<1> HIDE DEF g, n
<1>5. w \in Seq(Int)
  <2> DEFINE I == Int
  <2>1. c \in I /\ rd \in Seq(I)
    BY <1>1, <1>2
  <2> HIDE DEF I
  <2>2. w \in Seq(I)
    BY <2>1, LastOfAppend
  <2> QED
    BY <2>2 DEF I
<1> HIDE DEF w
<1>6. v.feof = x /\ v.line = l
  BY RdrFields
<1>7. ReaderOK(v)
  <2>1. x = FALSE => u \in Seq(Chars) /\ u = u
    BY <1>1
  <2> QED BY <1>1, <1>2, <1>5, <2>1, ReaderIs DEF n
<1> HIDE DEF v
<1>8. g.c = c /\ g.r = v
  BY <1>4 DEF Got
<1>9. RestOf(q, file) = <<>>
  <2>1. RestOf(q, file) = Back(u) \o SubSeq(file, o + 1, Len(file))
    BY <1>1 DEF RestOf, o, e, u
  <2> QED
    BY <1>1, <1>2, <2>1, RestOfIs DEF n
<1> QED
  BY <1>2, <1>6, <1>7, <1>8, <1>9 DEF AtEnd, g, l, c

\* getc() takes the next character, or the end.
LEMMA GetcOK ==
  ASSUME file \in Seq(Chars), NEW q, ReaderOK(q), ~q.feof
  PROVE  LET g == Unbuffered!getc(q) IN ReaderOK(g.r) /\ (AtEnd(q, g) \/ OneMore(q, g))
BY GetcUndoOK, GetcFileOK, GetcEndOK

\* ungetc() of the last character read puts it before the others.
LEMMA UngetcOK ==
  ASSUME file \in Seq(Chars), NEW q, ReaderOK(q), ~q.feof, NEW c \in Chars,
         q.read # <<>>, q.read[Len(q.read)] = c
  PROVE  LET v == Unbuffered!ungetc(q, c) IN
         /\ ReaderOK(v) /\ v.feof = FALSE /\ v.line = q.line - Stream!LineStep(c)
         /\ v.read = SubSeq(q.read, 1, Len(q.read) - 1)
         /\ IsCons(RestOf(v, file), c, RestOf(q, file))
<1> DEFINE v == Unbuffered!ungetc(q, c)
           n == Len(file)
           o == q.off
           e == q.feof
           l == q.line
           y == q.undo
           rd == q.read
           w == SubSeq(rd, 1, Len(rd) - 1)
           u == Append(y, c)
           k == l - Unbuffered!LineStep(c)
           z == Rdr(o, e, u, w, u, k)
<1>1. /\ q = Rdr(o, e, y, rd, y, l) /\ e = FALSE /\ y \in Seq(Chars)
      /\ o \in 0..n /\ l \in Int /\ rd \in Seq(Int) /\ rd # <<>> /\ rd[Len(rd)] = c
  BY ReaderHas
<1> HIDE DEF o, e, l, n, y, rd
<1>2. v = z
  <2>1. IF rd = <<>> THEN w = rd /\ u = y
        ELSE w = SubSeq(rd, 1, Len(rd) - 1) /\ u = Append(y, rd[Len(rd)])
    BY <1>1
  <2>2. q = Rdr(o, e, y, rd, y, l)
    BY <1>1
  <2>3. Append(y, c) = u
    OBVIOUS
  <2> HIDE DEF w, u
  <2>4. v = Rdr(o, e, Append(y, c), w, u, k)
    <3> HIDE DEF k
    <3> QED BY <2>1, <2>2, UngetcIs DEF k
  <2> HIDE DEF v
  <2> QED BY <2>3, <2>4
<1>3. w \in Seq(Int)
  <2> DEFINE I == Int
  <2>1. rd \in Seq(I) /\ rd # <<>>
    BY <1>1
  <2> HIDE DEF I
  <2>2. w \in Seq(I)
    BY <2>1, LastIsAppended
  <2> QED
    BY <2>2 DEF I
<1>4. u \in Seq(Chars)
  BY <1>1, LastOfAppend
<1> HIDE DEF w, u
<1>5. u \in Seq(Int) /\ k \in Int
  <2>1. Unbuffered!LineStep(c) \in {0, 1}
    BY SameLines
  <2>2. k \in Int
    BY <1>1, <2>1
  <2> QED
    BY <1>1, <1>4, <2>2, CharsAreInts
<1> HIDE DEF v, k
<1>6. z.off = o /\ z.feof = e /\ z.undo = u /\ z.read = w /\ z.line = k
  BY RdrFields
<1>7. ReaderOK(z)
  BY <1>1, <1>3, <1>4, <1>5, ReaderIs DEF n
<1> HIDE DEF z
<1>8. IsCons(RestOf(z, file), c, RestOf(q, file))
  <2>1. /\ RestOf(z, file) = Back(Append(y, c)) \o SubSeq(file, o + 1, n)
        /\ RestOf(q, file) = Back(y) \o SubSeq(file, o + 1, n)
    BY <1>1, <1>6 DEF RestOf, o, e, n, y, u
  <2> QED
    BY <1>1, <2>1, RestOfIs DEF n
<1>9. /\ z.feof = FALSE /\ z.read = SubSeq(q.read, 1, Len(q.read) - 1)
      /\ z.line = q.line - Stream!LineStep(c)
  BY <1>1, <1>6, SameLines DEF k, l, w, rd
<1> QED
  BY <1>2, <1>7, <1>8, <1>9 DEF v

\* Once the end was met, ungetc() changes nothing for the caller.
LEMMA UngetcEnd ==
  ASSUME NEW q, ReaderOK(q), q.feof, NEW c \in Int, Stream!LineStep(c) = 0
  PROVE  LET v == Unbuffered!ungetc(q, c) IN
         ReaderOK(v) /\ v.feof = TRUE /\ v.line = q.line
<1> DEFINE v == Unbuffered!ungetc(q, c)
           n == Len(file)
           o == q.off
           e == q.feof
           l == q.line
           y == q.undo
           rd == q.read
           ur == q.undoRead
           w == IF rd = <<>> THEN rd ELSE SubSeq(rd, 1, Len(rd) - 1)
           x == IF rd = <<>> THEN ur ELSE Append(ur, rd[Len(rd)])
           u == Append(y, c)
           z == Rdr(o, e, u, w, x, l)
<1>1. /\ q = Rdr(o, e, y, rd, ur, l) /\ e = TRUE /\ e \in BOOLEAN /\ y \in Seq(Int)
      /\ o \in 0..n /\ l \in Int /\ rd \in Seq(Int) /\ ur \in Seq(Int)
  BY ReaderHas
<1> HIDE DEF o, e, l, n, y, rd, ur
<1>2. l - Unbuffered!LineStep(c) = l
  BY <1>1, SameLines
<1>3. v = z
  <2> DEFINE k == l - Unbuffered!LineStep(c)
  <2>1. IF rd = <<>> THEN w = rd /\ x = ur
        ELSE w = SubSeq(rd, 1, Len(rd) - 1) /\ x = Append(ur, rd[Len(rd)])
    OBVIOUS
  <2>2. q = Rdr(o, e, y, rd, ur, l)
    BY <1>1
  <2> HIDE DEF w, x
  <2>3. v = Rdr(o, e, u, w, x, k)
    BY <2>1, <2>2, UngetcIs
  <2>4. k = l
    BY <1>2
  <2> HIDE DEF k, v, u
  <2> QED BY <2>3, <2>4
<1>4. w \in Seq(Int) /\ x \in Seq(Int) /\ u \in Seq(Int)
  <2> DEFINE I == Int
  <2>1. rd \in Seq(I) /\ ur \in Seq(I) /\ y \in Seq(I) /\ c \in I
    BY <1>1
  <2> HIDE DEF I
  <2>2. u \in Seq(I)
    BY <2>1, AppendProperties
  <2>3. CASE rd = <<>>
    BY <2>1, <2>2, <2>3 DEF I
  <2>4. CASE rd # <<>>
    <3>1. SubSeq(rd, 1, Len(rd) - 1) \in Seq(I) /\ rd[Len(rd)] \in I
      BY <2>1, <2>4, LastIsAppended
    <3>2. Append(ur, rd[Len(rd)]) \in Seq(I)
      BY <2>1, <3>1, AppendProperties
    <3> QED
      BY <2>2, <2>4, <3>1, <3>2 DEF I
  <2> QED
    BY <2>3, <2>4
<1> HIDE DEF u, w, x, v
<1>5. z.feof = e /\ z.line = l
  BY RdrFields
<1>6. ReaderOK(z)
  <2>1. e = FALSE => u \in Seq(Chars) /\ x = u
    BY <1>1
  <2>2. e \in BOOLEAN /\ o \in 0..n /\ l \in Int
    BY <1>1
  <2> QED
    BY <1>4, <2>1, <2>2, ReaderIs DEF n
<1> HIDE DEF z
<1> QED
  BY <1>1, <1>3, <1>5, <1>6 DEF v, l

\* Where the caller stands.
LEMMA FileView ==
  ASSUME part = "unbuffered", part' = "unbuffered"
  PROVE  /\ StreamRest = RestOf(r, file) /\ StreamRest' = RestOf(r', file')
         /\ StreamLine = r.line /\ StreamLine' = r'.line
BY DEF StreamRest, StreamLine, RestOf, Back, Unbuffered!Rest, Unbuffered!PutBack

\* What a call has to leave.
LEMMA FileInvOK ==
  ASSUME file \in Seq(Chars), file' = file, ReaderOK(r'), floor' \in 0..Len(taken'),
         testCase' \in Nat,
         ~r'.feof => /\ \A i \in 1..Len(taken') : taken'[i] # EOFC
                     /\ MarkupOK(r'.read, taken', floor')
  PROVE  FileInv'
<1>1. ReaderOK(r)'
  BY DEF ReaderOK
<1> QED
  BY <1>1 DEF FileInv

\* The next character, as getc() gets it.
LEMMA NextCharIs ==
  ASSUME StreamInv, FileInv, part = "unbuffered", part' = "unbuffered", ~r.feof
  PROVE  LET g == Unbuffered!getc(r) IN
         /\ ReaderOK(g.r)
         /\ \/ AtEnd(r, g) /\ Unbuffered!postprocessGetc(g.c) = EOFC /\ Stream!Here = EOFC
            \/ /\ OneMore(r, g) /\ g.c \in Chars /\ g.c # EOFC /\ RestOf(r, file) # <<>>
               /\ Unbuffered!postprocessGetc(g.c) = g.c /\ Stream!Here = g.c
<1> DEFINE g == Unbuffered!getc(r)
<1>1. ReaderOK(g.r) /\ (AtEnd(r, g) \/ OneMore(r, g))
  BY GetcOK DEF FileInv
<1> HIDE DEF g
<1>2. CASE AtEnd(r, g)
  <2>1. RestOf(r, file) = <<>> /\ g.c = -1
    BY <1>2 DEF AtEnd
  <2>2. Unbuffered!postprocessGetc(g.c) = EOFC
    BY <2>1, SameChars DEF Unbuffered!postprocessGetc
  <2>3. Stream!Here = EOFC
    BY <2>1, FileView, SameChars DEF Stream!Here
  <2> QED
    BY <1>1, <1>2, <2>2, <2>3 DEF g
<1>3. CASE OneMore(r, g)
  <2>1. IsCons(RestOf(r, file), g.c, RestOf(g.r, file))
    BY <1>3 DEF OneMore
  <2>2. g.c \in Chars /\ RestOf(r, file) # <<>> /\ RestOf(r, file)[1] = g.c
    BY <2>1, ConsIs DEF IsCons
  <2>3. g.c # EOFC /\ g.c # -1
    BY <2>2, ToCharIs
  <2>4. Unbuffered!postprocessGetc(g.c) = g.c
    BY <2>3, SameChars DEF Unbuffered!postprocessGetc
  <2>5. Stream!Here = g.c
    BY <2>2, FileView DEF Stream!Here
  <2> QED
    BY <1>1, <1>3, <2>2, <2>3, <2>4, <2>5 DEF g
<1> QED
  BY <1>1, <1>2, <1>3

\* A character looked at and put back leaves the reader as it was for the caller.
LEMMA LookedAt ==
  ASSUME file \in Seq(Chars), ReaderOK(r), ~r.feof, NEW g, ReaderOK(g.r), OneMore(r, g),
         g.c \in Chars
  PROVE  LET v == Unbuffered!ungetc(g.r, g.c) IN
         /\ ReaderOK(v) /\ v.feof = FALSE /\ v.line = r.line /\ v.read = r.read
         /\ RestOf(v, file) = RestOf(r, file)
<1> DEFINE c == g.c
           q == g.r
           v == Unbuffered!ungetc(q, c)
           k == Stream!LineStep(c)
<1>1. /\ IsCons(RestOf(r, file), c, RestOf(q, file)) /\ q.feof = FALSE
      /\ q.read = Append(r.read, c) /\ q.line = r.line + k
  BY DEF OneMore
<1>2. r.read \in Seq(Int) /\ r.line \in Int /\ c \in Int /\ k \in {0, 1} /\ c \in Chars
  BY ReaderHas, CharsAreInts, SameLines, EmptySeq
<1> HIDE DEF c, k
<1>3. q.read # <<>> /\ q.read[Len(q.read)] = c /\ SubSeq(q.read, 1, Len(q.read) - 1) = r.read
  <2> DEFINE I == Int
  <2>1. r.read \in Seq(I) /\ c \in I
    BY <1>2
  <2> HIDE DEF I
  <2> QED BY <1>1, <2>1, LastOfAppend
<1> HIDE DEF q
<1>4. ReaderOK(q) /\ ~q.feof
  BY <1>1 DEF q
<1>5. /\ ReaderOK(v) /\ v.feof = FALSE /\ v.line = q.line - k
      /\ v.read = SubSeq(q.read, 1, Len(q.read) - 1)
      /\ IsCons(RestOf(v, file), c, RestOf(q, file))
  BY <1>2, <1>3, <1>4, UngetcOK DEF k
<1> HIDE DEF v
<1>6. v.line = r.line
  BY <1>1, <1>2, <1>5
<1>7. RestOf(v, file) = RestOf(r, file)
  <2> DEFINE x == RestOf(v, file)
             y == RestOf(r, file)
             z == RestOf(q, file)
  <2>1. IsCons(x, c, z)
    BY <1>5
  <2>2. IsCons(y, c, z)
    BY <1>1
  <2> HIDE DEF x, y, z
  <2>3. <<c>> \o z = x
    BY <2>1, ConsIs
  <2>4. <<c>> \o z = y
    BY <2>2, ConsIs
  <2>5. x = y
    BY <2>3, <2>4
  <2> QED
    BY <2>5 DEF x, y
<1> QED
  BY <1>3, <1>5, <1>6, <1>7 DEF v, q, c

\* curChar() and eof() look.
LEMMA FileLookOK ==
  ASSUME StreamInv, FileInv, part = "unbuffered", part' = "unbuffered",
         Unbuffered!curChar \/ Unbuffered!eof
  PROVE  StreamStep /\ FileInv'
<1> DEFINE g == Unbuffered!getc(r)
           S == \/ last' = [op |-> "curChar", c |-> Stream!Here]
                \/ last' = [op |-> "eof", c |-> IF StreamRest = <<>> THEN 1 ELSE 0]
<1>1. UNCHANGED <<file, taken, testCase, floor>>
  BY DEF Unbuffered!curChar, Unbuffered!eof
<1>2. /\ file \in Seq(Chars) /\ floor \in 0..Len(taken) /\ testCase \in Nat /\ ReaderOK(r)
      /\ ~r.feof => /\ \A i \in 1..Len(taken) : taken[i] # EOFC
                    /\ MarkupOK(r.read, taken, floor)
  BY DEF FileInv
<1>3. /\ ReaderOK(r') /\ r'.line = r.line /\ RestOf(r', file) = RestOf(r, file)
      /\ (~r'.feof => ~r.feof /\ r'.read = r.read) /\ S
  <2>1. CASE r.feof
    <3>1. r' = r /\ \/ last' = [op |-> "curChar", c |-> EOFC]
                    \/ last' = [op |-> "eof", c |-> 1]
      BY <2>1, SameChars DEF Unbuffered!curChar, Unbuffered!eof, Unbuffered!Answer, Unbuffered!AfterEof,
         Unbuffered!postprocessGetc
    <3>2. RestOf(r, file) = <<>>
      BY <2>1 DEF RestOf
    <3>3. StreamRest = <<>> /\ Stream!Here = EOFC
      BY <3>2, FileView, SameChars DEF Stream!Here
    <3> QED
      BY <1>2, <3>1, <3>3
  <2>2. CASE ~r.feof
    <3>1. /\ ReaderOK(g.r)
          /\ \/ AtEnd(r, g) /\ Unbuffered!postprocessGetc(g.c) = EOFC /\ Stream!Here = EOFC
             \/ /\ OneMore(r, g) /\ g.c \in Chars /\ g.c # EOFC /\ RestOf(r, file) # <<>>
                /\ Unbuffered!postprocessGetc(g.c) = g.c /\ Stream!Here = g.c
      BY <2>2, NextCharIs
    <3> DEFINE d == Unbuffered!postprocessGetc(g.c)
    <3>2. \/ /\ last' = [op |-> "curChar", c |-> d]
             /\ r' = Unbuffered!ungetc(g.r, g.c)
          \/ /\ last' = [op |-> "eof", c |-> IF d = EOFC THEN 1 ELSE 0]
             /\ r' = IF d = EOFC THEN g.r ELSE Unbuffered!ungetc(g.r, g.c)
      BY <2>2, SameChars DEF Unbuffered!curChar, Unbuffered!eof, Unbuffered!Answer, Unbuffered!AfterEof
    <3> HIDE DEF g, d
    <3>3. CASE AtEnd(r, g) /\ d = EOFC /\ Stream!Here = EOFC
      <4>1. RestOf(r, file) = <<>> /\ g.c = -1 /\ g.r.feof = TRUE /\ g.r.line = r.line
        BY <3>3 DEF AtEnd
      <4>2. ReaderOK(r') /\ r'.feof = TRUE /\ r'.line = r.line
        <5>1. g.c \in Int /\ Stream!LineStep(g.c) = 0
          BY <4>1, SameChars DEF Stream!LineStep
        <5>2. LET v == Unbuffered!ungetc(g.r, g.c) IN
              ReaderOK(v) /\ v.feof = TRUE /\ v.line = g.r.line
          BY <3>1, <4>1, <5>1, UngetcEnd
        <5>3. r' = g.r \/ r' = Unbuffered!ungetc(g.r, g.c)
          BY <3>2
        <5> QED
          BY <3>1, <4>1, <5>2, <5>3
      <4>3. RestOf(r', file) = <<>>
        BY <4>2 DEF RestOf
      <4>4. S
        <5>1. StreamRest = <<>>
          BY <4>1, FileView
        <5> QED
          BY <3>2, <3>3, <5>1
      <4> QED
        BY <4>1, <4>2, <4>3, <4>4
    <3>4. CASE /\ OneMore(r, g) /\ g.c \in Chars /\ g.c # EOFC /\ RestOf(r, file) # <<>>
               /\ d = g.c /\ Stream!Here = g.c
      <4>1. r' = Unbuffered!ungetc(g.r, g.c)
        BY <3>2, <3>4
      <4>2. /\ ReaderOK(r') /\ r'.feof = FALSE /\ r'.line = r.line /\ r'.read = r.read
            /\ RestOf(r', file) = RestOf(r, file)
        BY <1>2, <2>2, <3>1, <3>4, <4>1, LookedAt
      <4>3. S
        <5>1. StreamRest # <<>>
          BY <3>4, FileView
        <5> QED
          BY <3>2, <3>4, <5>1
      <4> QED
        BY <2>2, <4>2, <4>3
    <3> QED
      BY <3>1, <3>3, <3>4 DEF d
  <2> QED
    BY <2>1, <2>2
<1>4. FileInv'
  BY <1>1, <1>2, <1>3, FileInvOK
<1>5. UNCHANGED <<StreamRest, StreamLine, taken>>
  BY <1>1, <1>3, FileView
<1> QED
  BY <1>3, <1>4, <1>5, LookOK

\* nextChar() and skipChar() take.
LEMMA FileTakeOK ==
  ASSUME StreamInv, FileInv, part = "unbuffered", part' = "unbuffered",
         Unbuffered!nextChar \/ Unbuffered!skipChar
  PROVE  StreamStep /\ FileInv'
<1> DEFINE g == Unbuffered!getc(r)
           B == 0..EOFC
           Kind(c) == \/ last' = [op |-> "nextChar", c |-> c]
                      \/ /\ last.op = "curChar" /\ last.c # EOFC
                         /\ last' = [op |-> "skipChar", c |-> 0]
<1>1. UNCHANGED <<file, testCase, floor>>
  BY DEF Unbuffered!nextChar, Unbuffered!skipChar
<1>2. /\ file \in Seq(Chars) /\ floor \in 0..Len(taken) /\ testCase \in Nat /\ ReaderOK(r)
      /\ ~r.feof => /\ \A i \in 1..Len(taken) : taken[i] # EOFC
                    /\ MarkupOK(r.read, taken, floor)
  BY DEF FileInv
<1>3. taken \in Seq(B) /\ (last.op = "curChar" => last.c = Stream!Here) /\ EOFC \in B
  BY SameChars DEF StreamInv
<1>4. ASSUME NEW c \in B, taken' = Append(taken, c)
      PROVE  /\ floor' \in 0..Len(taken')
             /\ c # EOFC /\ (\A i \in 1..Len(taken) : taken[i] # EOFC)
                  => \A i \in 1..Len(taken') : taken'[i] # EOFC
  <2>1. /\ Len(taken) \in Nat /\ Len(taken') = Len(taken) + 1
        /\ \A i \in 1..Len(taken) : taken'[i] = taken[i]
        /\ taken'[Len(taken) + 1] = c
    BY <1>3, <1>4, TakenGrows
  <2> QED
    BY <1>1, <1>2, <2>1
<1>5. ASSUME StreamRest = <<>>, ReaderOK(r'), r'.feof = TRUE, r'.line = r.line,
             taken' = Append(taken, EOFC), last' = [op |-> "nextChar", c |-> EOFC]
      PROVE  StreamStep /\ FileInv'
  <2>1. UNCHANGED <<StreamRest, StreamLine>>
    <3>1. RestOf(r', file') = <<>>
      BY <1>5 DEF RestOf
    <3> QED
      BY <1>5, <3>1, FileView
  <2>2. StreamStep
    BY <1>5, <2>1, TakeEofOK
  <2>3. floor' \in 0..Len(taken')
    BY <1>3, <1>4, <1>5
  <2> QED
    BY <1>1, <1>2, <1>5, <2>2, <2>3, FileInvOK
<1>6. CASE r.feof
  <2>1. StreamRest = <<>> /\ Stream!Here = EOFC
    <3>1. RestOf(r, file) = <<>>
      BY <1>6 DEF RestOf
    <3> QED
      BY <3>1, FileView, SameChars DEF Stream!Here
  <2>2. ~Unbuffered!skipChar
    BY <1>3, <2>1, SameChars DEF Unbuffered!skipChar
  <2>3. r' = r /\ taken' = Append(taken, EOFC) /\ last' = [op |-> "nextChar", c |-> EOFC]
    BY <1>6, <2>2, SameChars DEF Unbuffered!nextChar, Unbuffered!Answer, Unbuffered!postprocessGetc
  <2>4. r'.feof = TRUE
    BY <1>2, <1>6, <2>3, ReaderHas
  <2> QED
    BY <1>2, <1>5, <2>1, <2>3, <2>4
<1>7. CASE ~r.feof
  <2>1. /\ ReaderOK(g.r)
        /\ \/ AtEnd(r, g) /\ Unbuffered!postprocessGetc(g.c) = EOFC /\ Stream!Here = EOFC
           \/ /\ OneMore(r, g) /\ g.c \in Chars /\ g.c # EOFC /\ RestOf(r, file) # <<>>
              /\ Unbuffered!postprocessGetc(g.c) = g.c /\ Stream!Here = g.c
    BY <1>7, NextCharIs
  <2> DEFINE d == Unbuffered!postprocessGetc(g.c)
  <2>2. /\ r' = g.r
        /\ \/ taken' = Append(taken, d) /\ last' = [op |-> "nextChar", c |-> d]
           \/ /\ last.op = "curChar" /\ last.c # EOFC
              /\ taken' = Append(taken, Stream!Here)
              /\ last' = [op |-> "skipChar", c |-> 0]
    BY <1>3, <1>7, SameChars DEF Unbuffered!nextChar, Unbuffered!skipChar, Unbuffered!Answer
  <2> HIDE DEF g, d
  <2>3. CASE AtEnd(r, g) /\ d = EOFC /\ Stream!Here = EOFC
    <3>1. RestOf(r, file) = <<>> /\ r'.feof = TRUE /\ r'.line = r.line /\ ReaderOK(r')
      BY <2>1, <2>2, <2>3 DEF AtEnd
    <3>2. StreamRest = <<>>
      BY <3>1, FileView
    <3>3. taken' = Append(taken, EOFC) /\ last' = [op |-> "nextChar", c |-> EOFC]
      BY <1>3, <2>2, <2>3
    <3> QED
      BY <1>5, <3>1, <3>2, <3>3
  <2>4. CASE OneMore(r, g) /\ g.c \in Chars /\ g.c # EOFC /\ d = g.c /\ Stream!Here = g.c
    <3> DEFINE c == g.c
    <3>1. /\ IsCons(RestOf(r, file), c, RestOf(r', file)) /\ r'.feof = FALSE
          /\ r'.read = Append(r.read, c) /\ r'.line = r.line + Stream!LineStep(c) /\ ReaderOK(r')
      BY <2>1, <2>2, <2>4 DEF OneMore
    <3>2. taken' = Append(taken, c) /\ Kind(c)
      BY <2>2, <2>4
    <3>3. c \in Chars /\ c # EOFC
      BY <2>4
    <3> HIDE DEF c
    <3>4. c \in B
      BY <3>3 DEF Chars, EOFC
    <3>5. StreamStep
      <4>1. IsCons(StreamRest, c, StreamRest') /\ StreamLine' = StreamLine + Stream!LineStep(c)
        BY <1>1, <3>1, FileView
      <4> QED
        BY <3>2, <4>1, TakeCharOK
    <3>6. MarkupOK(r'.read, taken', floor')
      <4>1. MarkupOK(r.read, taken, floor)
        BY <1>2, <1>7
      <4>2. MarkupOK(Append(r.read, c), Append(taken, c), floor)
        BY <3>4, <4>1, MarkupTake
      <4> QED
        BY <1>1, <3>1, <3>2, <4>2
    <3>7. floor' \in 0..Len(taken') /\ \A i \in 1..Len(taken') : taken'[i] # EOFC
      BY <1>2, <1>4, <1>7, <3>2, <3>3, <3>4
    <3> QED
      BY <1>1, <1>2, <3>1, <3>5, <3>6, <3>7, FileInvOK
  <2> QED
    BY <2>1, <2>3, <2>4 DEF d
<1> QED
  BY <1>6, <1>7

\* unreadChar() puts back what was taken since the last test case.
LEMMA FileUnreadOK ==
  ASSUME StreamInv, FileInv, part = "unbuffered", part' = "unbuffered", Unbuffered!unreadChar
  PROVE  StreamStep /\ FileInv'
<1> DEFINE n == Len(taken)
           c == taken[n]
<1>1. /\ n > floor /\ r' = Unbuffered!ungetc(r, c) /\ (r.feof => c = EOFC)
      /\ last' = [op |-> "unreadChar", c |-> c] /\ taken' = SubSeq(taken, 1, n - 1)
      /\ UNCHANGED <<file, testCase, floor>>
  BY SameChars DEF Unbuffered!unreadChar, Unbuffered!Answer, Unbuffered!Top, Unbuffered!Pop
<1>2. /\ file \in Seq(Chars) /\ floor \in 0..n /\ testCase \in Nat /\ ReaderOK(r)
      /\ ~r.feof => /\ \A i \in 1..n : taken[i] # EOFC
                    /\ MarkupOK(r.read, taken, floor)
  BY DEF FileInv
<1>3. n \in Nat /\ taken # <<>>
  <2>1. taken \in Seq(0..EOFC)
    BY DEF StreamInv
  <2>2. n \in Nat
    BY <2>1, LenProperties
  <2>3. n # 0
    BY <1>1, <1>2, <2>2
  <2> QED
    BY <2>2, <2>3
<1>4. /\ c \in 0..EOFC /\ Len(taken') = n - 1 /\ \A i \in 1..Len(taken') : taken'[i] = taken[i]
  BY <1>1, <1>3, TakenShrinks DEF StreamInv
<1> HIDE DEF c
<1>5. floor' \in 0..Len(taken')
  BY <1>1, <1>2, <1>3, <1>4
<1>6. CASE r.feof
  <2>1. c = EOFC /\ Stream!LineStep(c) = 0 /\ c \in Int
    BY <1>1, <1>6, SameLines, SameChars
  <2>2. ReaderOK(r') /\ r'.feof = TRUE /\ r'.line = r.line
    BY <1>1, <1>2, <1>6, <2>1, UngetcEnd
  <2>3. StreamRest' = StreamRest /\ StreamLine' = StreamLine - Stream!LineStep(c)
    <3>1. RestOf(r', file') = <<>> /\ RestOf(r, file) = <<>>
      BY <1>6, <2>2 DEF RestOf
    <3>2. r.line \in Int
      BY <1>2, ReaderHas
    <3> QED
      BY <2>1, <2>2, <3>1, <3>2, FileView
  <2>4. StreamStep
    BY <1>1, <1>3, <2>1, <2>3, PutBackOK DEF c
  <2> QED
    BY <1>1, <1>2, <1>5, <2>2, <2>4, FileInvOK
<1>7. CASE ~r.feof
  <2>1. MarkupOK(r.read, taken, floor) /\ \A i \in 1..n : taken[i] # EOFC
    BY <1>2, <1>7
  <2>2. c # EOFC
    BY <1>3, <2>1, <1>1, <1>2 DEF c
  <2>3. c \in Chars
    BY <1>4, <2>2 DEF Chars, EOFC
  <2>4. /\ r.read # <<>> /\ r.read[Len(r.read)] = c
        /\ MarkupOK(SubSeq(r.read, 1, Len(r.read) - 1), taken', floor)
    BY <1>1, <2>1, MarkupBack DEF c
  <2>5. /\ ReaderOK(r') /\ r'.feof = FALSE /\ r'.line = r.line - Stream!LineStep(c)
        /\ r'.read = SubSeq(r.read, 1, Len(r.read) - 1)
        /\ IsCons(RestOf(r', file), c, RestOf(r, file))
    BY <1>1, <1>2, <1>7, <2>3, <2>4, UngetcOK
  <2>6. StreamStep
    <3>1. IsCons(StreamRest', c, StreamRest) /\ StreamLine' = StreamLine - Stream!LineStep(c)
      BY <1>1, <2>5, FileView
    <3> QED
      BY <1>1, <1>3, <2>2, <3>1, PutBackOK DEF c
  <2>7. \A i \in 1..Len(taken') : taken'[i] # EOFC
    BY <1>3, <1>4, <2>1
  <2>8. MarkupOK(r'.read, taken', floor')
    BY <1>1, <2>4, <2>5
  <2> QED
    BY <1>1, <1>2, <1>5, <2>5, <2>6, <2>7, <2>8, FileInvOK
<1> QED
  BY <1>6, <1>7

\* setTestCase() marks the place: nothing for the caller of the stream.
LEMMA FileCaseOK ==
  ASSUME StreamInv, FileInv, part = "unbuffered", part' = "unbuffered", Unbuffered!setTestCase
  PROVE  StreamInv' /\ UNCHANGED Stream!streamVars /\ FileInv'
<1> DEFINE x == testCase + 1 + 256
           q == r'
           w == Append(r.read, x)
           o == r.off
           e == r.feof
           u == r.undo
           ur == r.undoRead
           l == r.line
<1>1. /\ testCase' = testCase + 1 /\ floor' = Len(taken) /\ UNCHANGED <<file, taken, last>>
      /\ r' = [r EXCEPT !.read = Append(@, x)]
  BY DEF Unbuffered!setTestCase
<1>2. /\ file \in Seq(Chars) /\ floor \in 0..Len(taken) /\ testCase \in Nat /\ ReaderOK(r)
      /\ ~r.feof => /\ \A i \in 1..Len(taken) : taken[i] # EOFC
                    /\ MarkupOK(r.read, taken, floor)
  BY DEF FileInv
<1>3. /\ r = Rdr(o, e, u, r.read, ur, l) /\ o \in 0..Len(file) /\ e \in BOOLEAN
      /\ u \in Seq(Int) /\ r.read \in Seq(Int) /\ ur \in Seq(Int) /\ l \in Int
      /\ ~e => u \in Seq(Chars) /\ ur = u
  BY <1>2, ReaderHas
<1>4. x \in Int /\ x \notin 0..EOFC
  BY <1>2 DEF EOFC
<1> HIDE DEF x
<1>5. w \in Seq(Int)
  <2> DEFINE I == Int
  <2>1. r.read \in Seq(I) /\ x \in I
    BY <1>3, <1>4
  <2> HIDE DEF I
  <2>2. w \in Seq(I)
    BY <2>1, AppendProperties
  <2> QED
    BY <2>2 DEF I
<1>6. q = SetRead(r, w, l)
  <2>1. r' = [r EXCEPT !.read = w]
    BY <1>1
  <2>2. DOMAIN r = {"off", "feof", "undo", "read", "undoRead", "line"}
    BY <1>3 DEF Rdr
  <2> HIDE DEF w
  <2>3. r' = [f \in DOMAIN r |-> IF f = "read" THEN w ELSE r[f]]
    BY <2>1
  <2>4. SetRead(r, w, l) = [f \in DOMAIN r |-> IF f = "read" THEN w ELSE IF f = "line" THEN l ELSE r[f]]
    BY DEF SetRead
  <2> QED
    BY <2>2, <2>3, <2>4
<1> HIDE DEF w, q, o, e, u, ur, l
<1>7. q = Rdr(o, e, u, w, ur, l)
  BY <1>3, <1>6, RdrExcept
<1>8. q.off = o /\ q.feof = e /\ q.undo = u /\ q.read = w /\ q.line = l
  BY <1>7, RdrFields
<1>9. ReaderOK(q)
  <2>1. e = FALSE => u \in Seq(Chars) /\ ur = u
    BY <1>3
  <2>2. ReaderOK(Rdr(o, e, u, w, ur, l))
    BY <1>3, <1>5, <2>1, ReaderIs
  <2> QED
    BY <1>7, <2>2
<1>10. UNCHANGED <<StreamRest, StreamLine>>
  <2>1. RestOf(q, file) = RestOf(r, file)
    BY <1>8 DEF RestOf, o, e, u
  <2> QED
    BY <1>1, <1>8, <2>1, FileView DEF q, l
<1>11. Stream!Here' = Stream!Here
  BY <1>10 DEF Stream!Here
<1>12. StreamInv'
  BY <1>1, <1>10, <1>11 DEF StreamInv, EofsAreLast
<1>13. FileInv'
  <2>1. ~q.feof => MarkupOK(w, taken, Len(taken))
    <3> SUFFICES ASSUME ~q.feof PROVE MarkupOK(w, taken, Len(taken))
      OBVIOUS
    <3>1. MarkupOK(r.read, taken, floor)
      BY <1>2, <1>8 DEF e
    <3> QED
      BY <1>4, <3>1, MarkupCase DEF w
  <2>2. floor' \in 0..Len(taken')
    <3>1. Len(taken) \in Nat
      BY LenProperties DEF StreamInv
    <3> QED
      BY <1>1, <3>1
  <2>3. testCase' \in Nat
    BY <1>1, <1>2
  <2>4. ~q.feof => \A i \in 1..Len(taken') : taken'[i] # EOFC
    BY <1>1, <1>2, <1>8 DEF e
  <2>5. ~q.feof => MarkupOK(q.read, taken', floor')
    BY <1>1, <1>8, <2>1
  <2> QED
    BY <1>1, <1>2, <1>9, <2>2, <2>3, <2>4, <2>5, FileInvOK DEF q
<1> QED
  BY <1>1, <1>10, <1>12, <1>13 DEF Stream!streamVars

-----------------------------------------------------------------------------
\* The readers together.

\* The number of line feeds is a number.
LEMMA LineFeedsNat ==
  ASSUME NEW t \in Seq(0..EOFC)
  PROVE  LineFeeds(t) \in Nat
<1>1. 0 \in 0..EOFC
  BY SameChars
<1> QED
  BY <1>1, LineFeedsAppend

\* Nothing taken off a sequence.
LEMMA DropNone ==
  ASSUME NEW f \in Seq(Chars)
  PROVE  SubSeq(f, 1, Len(f)) = f /\ <<>> \o SubSeq(f, 1, Len(f)) = f
<1> DEFINE n == Len(f)
           k == 0
           d == SubSeq(f, k + 1, n)
<1>1. n \in Nat /\ k \in Nat
  BY LenProperties
<1>2. d \in Seq(Chars) /\ Len(d) = (IF k < n THEN n - k ELSE 0) /\ \A i \in 1..Len(d) : d[i] = f[k + i]
  <2> HIDE DEF k
  <2> QED BY <1>1, DropIs
<1>3. d = SubSeq(f, 1, n)
  OBVIOUS
<1> HIDE DEF d
<1>4. Len(d) = n /\ \A i \in 1..n : d[i] = f[i]
  BY <1>1, <1>2
<1>5. d = f
  BY <1>2, <1>4, SeqEqual
<1>6. <<>> \o f = f
  BY ConcatEmptySeq
<1> QED
  BY <1>3, <1>5, <1>6

\* A stream just opened.
LEMMA StreamStarts ==
  ASSUME file \in Files, StreamRest = file, StreamLine = 1, taken = <<>>,
         last = [op |-> "open", c |-> 0]
  PROVE  StreamInv /\ Stream!Init /\ file \in Seq(Chars)
<1>1. file \in Seq(Chars)
  BY ReadersAssumption DEF Chars
<1>2. Stream!Init
  BY DEF Stream!Init
<1>3. StreamLine = 1 + LineFeeds(taken)
  BY LineFeedsEmpty
<1>4. taken \in Seq(0..EOFC) /\ Len(taken) = 0
  OBVIOUS
<1>5. EofsAreLast(taken)
  BY <1>4 DEF EofsAreLast
<1>6. StreamInv
  BY <1>1, <1>3, <1>4, <1>5 DEF StreamInv
<1> QED
  BY <1>1, <1>2, <1>6

\* Every reader starts as the stream of its file.
LEMMA ReadersStart ==
  ASSUME ReadersInit
  PROVE  ReadersInv /\ Stream!Init
<1>1. file \in Files /\ taken = <<>> /\ last = [op |-> "open", c |-> 0]
  BY DEF ReadersInit, Init, Unbuffered!Init, Strings!Init
<1>2. file \in Seq(Chars)
  BY <1>1, ReadersAssumption DEF Chars
<1>3. CASE part = "buffered"
  <2> DEFINE M == MAX_UNREAD_COUNT
  <2>1. /\ fetched = 0 /\ buffer = [i \in Slots |-> Garbage] /\ isEof \in [Slots -> BOOLEAN]
        /\ bufferSize = M /\ bufferPos = M /\ line = 1 /\ putBack = 0 /\ eofPeeks = 0
        /\ failed = FALSE
    BY <1>3 DEF ReadersInit, Init
  <2>2. M \in Nat /\ M < BUFFER_SIZE /\ BUFFER_SIZE \in Nat /\ MaxUnread \in Nat /\ MaxEofPeeks \in Nat
    BY BufferAssumption
  <2>3. Len(file) \in Nat
    BY <1>2, LenProperties
  <2> HIDE DEF M
  <2>4. MarksAt(buffer, isEof, M, M) /\ ~(\E i \in M..(M - 1) : isEof[i])
    BY <2>2 DEF MarksAt
  <2>5. BufOK(buffer, isEof, M, M, file, fetched)
    BY <1>2, <2>1, <2>2, <2>3, <2>4 DEF BufOK
  <2>6. Allocated(buffer, isEof, M)
    <3>1. buffer = [i \in Slots |-> buffer[i]]
      BY <2>1
    <3>2. M \in MAX_UNREAD_COUNT..BUFFER_SIZE
      BY <2>2 DEF M
    <3> QED
      BY <2>1, <3>1, <3>2 DEF Allocated
  <2>7. SlotsLeft(M, 0, 0)
    BY <2>2 DEF SlotsLeft, M
  <2>8. BufferedInv
    BY <1>1, <2>1, <2>5, <2>6, <2>7 DEF BufferedInv
  <2>9. Rest = file
    <3> DEFINE h == HeldAt(buffer, isEof, M, M)
    <3> DEFINE k == FirstMark(isEof, M, M) - M
    <3>0. M \in Nat /\ M <= M /\ MarksAt(buffer, isEof, M, M)
      BY <2>2, <2>4
    <3>1. k \in 0..(M - M) /\ h \in Seq(Chars) /\ Len(h) = k
      BY <3>0, HeldIs
    <3> HIDE DEF h, k
    <3>2. Len(h) = 0
      BY <2>2, <3>1
    <3>3. h = <<>>
      BY <3>1, <3>2, EmptySeq
    <3>4. Rest = h \o SubSeq(file, 1, Len(file))
      BY <2>1, RestIsRestAt DEF RestAt, h
    <3> QED
      BY <1>2, <3>3, <3>4, DropNone
  <2>10. StreamRest = file /\ StreamLine = 1
    BY <1>3, <2>1, <2>9 DEF StreamRest, StreamLine
  <2> QED
    BY <1>1, <1>3, <2>8, <2>10, StreamStarts DEF ReadersInv
<1>4. CASE part = "unbuffered"
  <2> DEFINE z == 0
             e == FALSE
             t == <<>>
             l == 1
  <2>1. r = Rdr(z, e, t, t, t, l) /\ testCase = 0 /\ floor = 0
    BY <1>4 DEF ReadersInit, Unbuffered!Init, Rdr
  <2>2. /\ z \in 0..Len(file) /\ e \in BOOLEAN /\ t \in Seq(Int) /\ t \in Seq(Chars) /\ l \in Int
        /\ e = FALSE
    BY <1>2, LenProperties
  <2>3. t = <<>> /\ z = 0 /\ l = 1
    OBVIOUS
  <2> HIDE DEF z, e, t, l
  <2>4. ReaderOK(r)
    <3>1. e = FALSE => t \in Seq(Chars) /\ t = t
      BY <2>2
    <3> QED
      BY <2>1, <2>2, <3>1, ReaderIs
  <2>5. r.off = z /\ r.feof = e /\ r.undo = t /\ r.read = t /\ r.line = l
    BY <2>1, RdrFields
  <2>6. FileInv
    <3>1. MarkupOK(r.read, taken, floor)
      BY <1>1, <2>1, <2>3, <2>5, MarkupEmpty
    <3>2. Len(taken) = 0
      BY <1>1
    <3> QED
      BY <1>2, <2>1, <2>4, <3>1, <3>2 DEF FileInv
  <2>7. RestOf(r, file) = file
    <3>1. RestOf(r, file) = Back(t) \o SubSeq(file, 1, Len(file))
      BY <2>2, <2>3, <2>5 DEF RestOf
    <3>2. Back(t) = <<>>
      <4>1. Len(t) = 0
        BY <2>3
      <4>2. Back(t) \in Seq(Chars) /\ Len(Back(t)) = Len(t)
        BY <2>2, BackIs
      <4> QED
        BY <4>1, <4>2, EmptySeq
    <3> QED
      BY <1>2, <3>1, <3>2, DropNone
  <2>8. StreamRest = file /\ StreamLine = 1
    BY <1>4, <2>3, <2>5, <2>7 DEF StreamRest, StreamLine, RestOf, Back, Unbuffered!Rest, Unbuffered!PutBack
  <2> QED
    BY <1>1, <1>4, <2>6, <2>8, StreamStarts DEF ReadersInv
<1>5. CASE part = "string"
  <2>1. pos = 0 /\ failed = FALSE
    BY <1>5 DEF ReadersInit, Strings!Init
  <2>2. Len(taken) = 0
    BY <1>1
  <2>3. StringInv
    BY <1>2, <2>1, <2>2 DEF StringInv
  <2>4. StreamRest = file
    BY <1>2, <1>5, <2>1, DropNone, SameChars DEF StreamRest, Strings!Rest, DropFirst
  <2>5. StreamLine = 1
    BY <1>1, <1>5, LineFeedsEmpty DEF StreamLine, LineFeeds
  <2> QED
    BY <1>1, <1>5, <2>3, <2>4, <2>5, StreamStarts DEF ReadersInv
<1> QED
  BY <1>3, <1>4, <1>5 DEF ReadersInit

\* A step of another component leaves every reader as it was.
LEMMA ReadersStutter ==
  ASSUME ReadersInv, UNCHANGED readersVars
  PROVE  ReadersInv' /\ UNCHANGED Stream!streamVars
<1>1. /\ part' = part /\ file' = file /\ taken' = taken /\ last' = last /\ failed' = failed
      /\ fetched' = fetched /\ buffer' = buffer /\ isEof' = isEof /\ bufferPos' = bufferPos
      /\ bufferSize' = bufferSize /\ line' = line /\ putBack' = putBack /\ eofPeeks' = eofPeeks
      /\ r' = r /\ testCase' = testCase /\ floor' = floor /\ pos' = pos
  BY DEF readersVars, bufferVars, fileVars
<1>2. Rest' = Rest
  BY <1>1, RestIsRestAt
<1>3. Unbuffered!Rest' = Unbuffered!Rest /\ Strings!Rest' = Strings!Rest
  BY <1>1 DEF Unbuffered!Rest, Unbuffered!PutBack, Strings!Rest, Strings!DropFirst
<1>4. StreamRest' = StreamRest /\ StreamLine' = StreamLine
  BY <1>1, <1>2, <1>3 DEF StreamRest, StreamLine
<1>5. Stream!Here' = Stream!Here
  BY <1>4 DEF Stream!Here
<1>6. StreamInv'
  BY <1>1, <1>4, <1>5 DEF ReadersInv, StreamInv, EofsAreLast
<1>7. part = "buffered" => BufferedInv'
  BY <1>1 DEF ReadersInv, BufferedInv, BufOK, Allocated, SlotsLeft, MarksAt, Slots
<1>8. part = "unbuffered" => FileInv'
  BY <1>1 DEF ReadersInv, FileInv, ReaderOK
<1>9. part = "string" => StringInv'
  BY <1>1 DEF ReadersInv, StringInv
<1>10. ReadersInv'
  BY <1>1, <1>6, <1>7, <1>8, <1>9 DEF ReadersInv
<1> QED
  BY <1>1, <1>4, <1>10 DEF Stream!streamVars

\* Every call of every reader is a call of the stream, or stutters.
LEMMA ReadersStep ==
  ASSUME ReadersInv, [ReadersNext]_readersVars
  PROVE  ReadersInv' /\ [Stream!Next]_Stream!streamVars
<1>1. CASE UNCHANGED readersVars
  BY <1>1, ReadersStutter
<1>2. CASE ReadersNext
  <2>1. part' = part /\ StreamInv
    BY <1>2 DEF ReadersNext, ReadersInv
  <2>2. CASE part = "buffered" /\ Next
    <3>1. BufferedInv
      BY <2>2 DEF ReadersInv
    <3>2. curChar \/ nextChar \/ skipChar \/ unreadChar \/ eof
      BY <2>2 DEF Next
    <3>3. StreamStep /\ BufferedInv'
      BY <2>1, <2>2, <3>1, <3>2, BufferedLookOK, BufferedNextOK, BufferedSkipOK, BufferedUnreadOK
    <3> QED
      BY <2>1, <2>2, <3>3 DEF ReadersInv, StreamStep
  <2>3. CASE part = "unbuffered" /\ Unbuffered!Next
    <3>1. FileInv
      BY <2>3 DEF ReadersInv
    <3>2. CASE Unbuffered!setTestCase
      <4>1. StreamInv' /\ UNCHANGED Stream!streamVars /\ FileInv'
        BY <2>1, <2>3, <3>1, <3>2, FileCaseOK
      <4> QED
        BY <2>1, <2>3, <4>1 DEF ReadersInv
    <3>3. CASE ~Unbuffered!setTestCase
      <4>1. \/ Unbuffered!curChar \/ Unbuffered!eof \/ Unbuffered!nextChar
            \/ Unbuffered!skipChar \/ Unbuffered!unreadChar
        BY <2>3, <3>3 DEF Unbuffered!Next
      <4>2. StreamStep /\ FileInv'
        BY <2>1, <2>3, <3>1, <4>1, FileLookOK, FileTakeOK, FileUnreadOK
      <4> QED
        BY <2>1, <2>3, <4>2 DEF ReadersInv, StreamStep
    <3> QED
      BY <3>2, <3>3
  <2>4. CASE part = "string" /\ Strings!Next
    <3>1. StringInv
      BY <2>4 DEF ReadersInv
    <3>2. StreamStep /\ StringInv'
      BY <2>1, <2>4, <3>1, StringOK
    <3> QED
      BY <2>1, <2>4, <3>2 DEF ReadersInv, StreamStep
  <2> QED
    BY <1>2, <2>2, <2>3, <2>4 DEF ReadersNext
<1> QED
  BY <1>1, <1>2

\* ReadersInv is an invariant: every reader's state stands for one stream of characters.
THEOREM ReadersInvariant == ReadersSpec => []ReadersInv
<1>1. ReadersInit => ReadersInv
  BY ReadersStart
<1>2. ReadersInv /\ [ReadersNext]_readersVars => ReadersInv'
  BY ReadersStep
<1> QED
  BY <1>1, <1>2, PTL DEF ReadersSpec

\* EveryReaderIsCharStream: the buffered, the unbuffered and the string reader of testlib.h
\* each implement the character stream that InStream reads, for any files without byte
\* 0xFF, any buffer size and any caller within the put-backs the buffer has slots for.
THEOREM ReadersAreCharStreams == ReadersSpec => EveryReaderIsCharStream
<1>1. ReadersInit => Stream!Init
  BY ReadersStart
<1>2. ReadersInv /\ [ReadersNext]_readersVars => [Stream!Next]_Stream!streamVars
  BY ReadersStep
<1>3. ReadersSpec => []ReadersInv
  BY ReadersInvariant
<1> QED
  BY <1>1, <1>2, <1>3, PTL DEF ReadersSpec, EveryReaderIsCharStream, Stream!Spec

\* ReadersKeepTheirBooks: lines are counted exactly, unreadChar never runs out of slots,
\* the markup of the unbuffered reader is what was consumed and not put back, and the
\* string reader stands where its caller does.
THEOREM ReadersKeepBooks == ReadersSpec => []ReadersKeepTheirBooks
<1>1. ReadersInv => ReadersKeepTheirBooks
  <2> SUFFICES ASSUME ReadersInv PROVE ReadersKeepTheirBooks
    OBVIOUS
  <2>1. /\ taken \in Seq(0..EOFC) /\ StreamLine = 1 + LineFeeds(taken) /\ LineFeeds(taken) \in Nat
    BY LineFeedsNat DEF ReadersInv, StreamInv
  <2>2. StreamLine \in Nat \ {0}
    BY <2>1
  <2>3. ASSUME part = "buffered" PROVE TypeOK /\ LineIsExact /\ NeverOutOfSlots
    <3>1. /\ BufOK(buffer, isEof, bufferPos, bufferSize, file, fetched)
          /\ Allocated(buffer, isEof, bufferSize) /\ failed = FALSE
      BY <2>3 DEF ReadersInv, BufferedInv
    <3>2. StreamLine = line
      BY <2>3 DEF StreamLine
    <3>3. LineIsExact /\ NeverOutOfSlots
      BY <2>1, <3>1, <3>2 DEF LineIsExact, NeverOutOfSlots, LineFeeds
    <3>4. DOMAIN buffer = Slots /\ isEof \in [Slots -> BOOLEAN]
      BY <3>1 DEF Allocated
    <3>5. /\ bufferPos \in Nat /\ bufferSize \in Nat /\ bufferPos <= bufferSize
          /\ fetched \in Nat /\ fetched <= Len(file) /\ file \in Seq(Chars)
      BY <3>1 DEF BufOK
    <3>6. bufferSize \in 0..BUFFER_SIZE
      BY <3>1, <3>5, BufferAssumption DEF Allocated
    <3>7. fetched \in 0..Len(file) /\ bufferPos \in -1..bufferSize
      BY <3>5, LenProperties
    <3>8. line \in Nat \ {0} /\ failed \in BOOLEAN
      BY <2>2, <3>1, <3>2
    <3>9. TypeOK
      BY <3>4, <3>6, <3>7, <3>8 DEF TypeOK
    <3> QED
      BY <3>3, <3>9
  <2>4. ASSUME part = "unbuffered" PROVE Unbuffered!TypeOK /\ Unbuffered!MarkupIsFaithful
    <3>1. ReaderOK(r) /\ (~r.feof => MarkupOK(r.read, taken, floor))
      BY <2>4 DEF ReadersInv, FileInv
    <3>2. r.off \in 0..Len(file) /\ r.feof \in BOOLEAN /\ (~r.feof => r.undoRead = r.undo)
      BY <3>1, ReaderHas
    <3>3. r.line \in Nat \ {0}
      BY <2>2, <2>4 DEF StreamLine
    <3>4. Unbuffered!TypeOK
      BY <2>1, <3>2, <3>3, SameChars DEF Unbuffered!TypeOK
    <3>5. Unbuffered!MarkupIsFaithful
      BY <3>1, SameChars DEF Unbuffered!MarkupIsFaithful, MarkupOK
    <3> QED
      BY <3>4, <3>5
  <2>5. ASSUME part = "string" PROVE Strings!PositionIsTaken
    BY <2>5 DEF ReadersInv, StringInv, Strings!PositionIsTaken
  <2> QED
    BY <2>3, <2>4, <2>5 DEF ReadersKeepTheirBooks
<1> QED
  BY <1>1, ReadersInvariant, PTL
=============================================================================
