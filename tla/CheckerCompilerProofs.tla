----------------------- MODULE CheckerCompilerProofs -----------------------
(***************************************************************************)
(* Proofs about CheckerCompiler, for any number of requests and sources    *)
(* and any cache size: the cache and the singleflight group between them   *)
(* build a source again only after its artifact has been evicted.          *)
(***************************************************************************)
EXTENDS CheckerCompiler, SharedLemmas, TLAPS

-----------------------------------------------------------------------------
\* What the cache library keeps.

Entries == [key : Keys, value : Values]
SoundEntry(x) == x \in Entries /\ x.value.kind = "artifact" /\ x.key = keyOf(x.value.of)

\* Sound entries, one for each key.
WellFormed(q) ==
    /\ q \in Seq(Entries)
    /\ \A i \in 1..Len(q) : SoundEntry(q[i])
    /\ \A i, j \in 1..Len(q) : q[i].key = q[j].key => i = j
HasKey(q, k) == \E i \in 1..Len(q) : q[i].key = k

\* Appending an entry with a new key.
LEMMA AppendOK ==
    ASSUME NEW q, WellFormed(q), NEW x, SoundEntry(x), ~HasKey(q, x.key)
    PROVE  /\ WellFormed(Append(q, x))
           /\ Len(Append(q, x)) = Len(q) + 1
           /\ \A k : HasKey(Append(q, x), k) <=> HasKey(q, k) \/ k = x.key
<1> DEFINE r == Append(q, x)
           n == Len(q)
<1>1. /\ r \in Seq(Entries) /\ n \in Nat /\ Len(r) = n + 1 /\ r[n + 1] = x
      /\ \A i \in 1..n : r[i] = q[i]
  BY AppendProperties, LenProperties DEF WellFormed, SoundEntry
<1>2. \A i \in 1..n + 1 : i = n + 1 \/ i \in 1..n
  BY <1>1
<1>3. /\ \A i \in 1..n : SoundEntry(q[i]) /\ q[i].key # x.key
      /\ \A i, j \in 1..n : q[i].key = q[j].key => i = j
  BY DEF WellFormed, HasKey
<1> HIDE DEF r
<1>4. ASSUME NEW i \in 1..n + 1, NEW j \in 1..n + 1, r[i].key = r[j].key
      PROVE  i = j
  BY <1>1, <1>2, <1>3, <1>4
<1>5. \A i \in 1..n + 1 : SoundEntry(r[i])
  BY <1>1, <1>2, <1>3
<1>6. WellFormed(r)
  BY <1>1, <1>4, <1>5 DEF WellFormed
<1>7. ASSUME NEW k PROVE HasKey(r, k) <=> HasKey(q, k) \/ k = x.key
  <2>1. 1..n \subseteq 1..n + 1 /\ n + 1 \in 1..n + 1
    BY <1>1
  <2> QED
    BY <1>1, <1>2, <2>1 DEF HasKey
<1> QED
  BY <1>1, <1>6, <1>7 DEF r

\* Dropping the least recently used entry.
LEMMA TailOK ==
    ASSUME NEW q, WellFormed(q), q # <<>>
    PROVE  /\ WellFormed(Tail(q))
           /\ Len(Tail(q)) = Len(q) - 1
           /\ SoundEntry(Head(q))
           /\ HasKey(q, Head(q).key)
           /\ \A k : HasKey(Tail(q), k) <=> HasKey(q, k) /\ k # Head(q).key
<1> DEFINE r == Tail(q)
           n == Len(q)
<1>1. /\ r \in Seq(Entries) /\ n \in Nat /\ n > 0 /\ Len(r) = n - 1 /\ Head(q) = q[1]
      /\ \A i \in 1..n - 1 : r[i] = q[i + 1]
  BY HeadTailProperties, LenProperties, EmptySeq DEF WellFormed
<1>2. \A i \in 1..n - 1 : i + 1 \in 1..n /\ i + 1 # 1
  BY <1>1
<1>3. /\ \A i \in 1..n : SoundEntry(q[i])
      /\ \A i, j \in 1..n : q[i].key = q[j].key => i = j
      /\ 1 \in 1..n
  BY <1>1 DEF WellFormed
<1> HIDE DEF r
<1>4. ASSUME NEW i \in 1..n - 1, NEW j \in 1..n - 1, r[i].key = r[j].key
      PROVE  i = j
  BY <1>1, <1>2, <1>3, <1>4
<1>5. WellFormed(r)
  BY <1>1, <1>2, <1>3, <1>4 DEF WellFormed
<1>6. ASSUME NEW k PROVE HasKey(r, k) <=> HasKey(q, k) /\ k # Head(q).key
  <2>1. \A i \in 1..n : i # 1 => i - 1 \in 1..n - 1 /\ i - 1 + 1 = i
    BY <1>1
  <2>2. ASSUME HasKey(q, k), k # Head(q).key PROVE HasKey(r, k)
    <3>1. PICK i \in 1..n : q[i].key = k
      BY <2>2 DEF HasKey
    <3>2. i - 1 \in 1..n - 1 /\ i - 1 + 1 = i
      BY <1>1, <2>1, <2>2, <3>1
    <3>3. r[i - 1] = q[i - 1 + 1]
      BY <1>1, <3>2
    <3>4. r[i - 1].key = k
      BY <3>1, <3>2, <3>3
    <3>5. Len(r) = n - 1
      BY <1>1
    <3> HIDE DEF n
    <3> QED
      BY <3>2, <3>4, <3>5 DEF HasKey
  <2>3. ASSUME HasKey(r, k) PROVE HasKey(q, k) /\ k # Head(q).key
    <3>1. Len(r) = n - 1
      BY <1>1
    <3>2. PICK i \in 1..n - 1 : r[i].key = k
      BY <2>3, <3>1 DEF HasKey
    <3>3. i + 1 \in 1..n /\ i + 1 # 1 /\ q[i + 1].key = k
      BY <1>1, <1>2, <3>2
    <3>4. k # q[1].key
      BY <1>3, <3>3
    <3> QED
      BY <1>1, <3>3, <3>4 DEF HasKey
  <2> QED
    BY <2>2, <2>3
<1>7. HasKey(q, Head(q).key)
  BY <1>1, <1>3 DEF HasKey
<1> QED
  BY <1>1, <1>3, <1>5, <1>6, <1>7 DEF r

\* Taking a key out.
LEMMA WithoutOK ==
    ASSUME WellFormed(cache), NEW k
    PROVE  /\ WellFormed(Without(k))
           /\ Len(Without(k)) = Len(cache) - IF HasKey(cache, k) THEN 1 ELSE 0
           /\ \A x : HasKey(Without(k), x) <=> HasKey(cache, x) /\ x # k
<1>1. CASE ~HasKey(cache, k)
  <2>1. Without(k) = cache
    BY <1>1 DEF Without, CacheHas, HasKey
  <2>2. Len(cache) \in Nat
    BY LenProperties DEF WellFormed
  <2> QED
    BY <1>1, <2>1, <2>2 DEF HasKey
<1>2. CASE HasKey(cache, k)
  <2> DEFINE m == CacheSlot(k)
             r == RemoveAt(cache, m)
             n == Len(cache)
  <2>1. Without(k) = r
    BY <1>2 DEF Without, CacheHas, HasKey
  <2>2. m \in 1..Len(cache) /\ cache[m].key = k
    BY <1>2 DEF CacheSlot, HasKey
  <2> HIDE DEF m, r
  <2>3. IsWithout(r, cache, m, Entries)
    BY <2>2, RemoveAtProperties DEF WellFormed, r
  <2>4. /\ r \in Seq(Entries) /\ Len(r) = n - 1 /\ n \in Nat
        /\ \A i \in 1..n - 1 : /\ Past(m, i) \in 1..n /\ Past(m, i) # m
                              /\ r[i] = cache[Past(m, i)]
        /\ \A i, j \in 1..n - 1 : Past(m, i) = Past(m, j) => i = j
        /\ \A j \in 1..n : j # m => \E i \in 1..n - 1 : j = Past(m, i)
    BY <2>3, LenProperties DEF IsWithout, WellFormed
  <2>5. /\ \A i \in 1..n : SoundEntry(cache[i])
        /\ \A i, j \in 1..n : cache[i].key = cache[j].key => i = j
    BY DEF WellFormed
  <2> HIDE DEF n
  <2>6. WellFormed(r)
    <3>1. \A i \in 1..n - 1 : SoundEntry(r[i])
      BY <2>4, <2>5
    <3>2. ASSUME NEW i \in 1..n - 1, NEW j \in 1..n - 1, r[i].key = r[j].key
          PROVE  i = j
      <4>1. /\ Past(m, i) \in 1..n /\ Past(m, j) \in 1..n
            /\ cache[Past(m, i)].key = cache[Past(m, j)].key
        BY <2>4, <3>2
      <4>2. Past(m, i) = Past(m, j)
        BY <2>5, <4>1
      <4> QED
        BY <2>4, <4>2
    <3> QED
      BY <2>4, <3>1, <3>2 DEF WellFormed
  <2>7. \A x : HasKey(cache, x) <=> \E i \in 1..n : cache[i].key = x
    BY DEF HasKey, n
  <2>8. \A x : HasKey(r, x) <=> \E i \in 1..n - 1 : r[i].key = x
    BY <2>4 DEF HasKey
  <2>9. ASSUME NEW x PROVE HasKey(r, x) <=> HasKey(cache, x) /\ x # k
    <3>1. ASSUME HasKey(cache, x), x # k PROVE HasKey(r, x)
      <4>1. PICK j \in 1..n : cache[j].key = x
        BY <2>7, <3>1
      <4>2. PICK i \in 1..n - 1 : j = Past(m, i)
        BY <2>2, <2>4, <3>1, <4>1
      <4>3. r[i] = cache[j]
        BY <2>4, <4>2
      <4> QED
        BY <2>8, <4>1, <4>3
    <3>2. ASSUME HasKey(r, x) PROVE HasKey(cache, x) /\ x # k
      <4>1. PICK i \in 1..n - 1 : r[i].key = x
        BY <2>8, <3>2
      <4> QED
        BY <2>2, <2>4, <2>5, <2>7, <4>1 DEF n
    <3> QED
      BY <3>1, <3>2
  <2> QED
    BY <1>2, <2>1, <2>4, <2>6, <2>9 DEF n
<1> QED
  BY <1>1, <1>2

\* The cache as a whole: well formed and within its capacity.
CacheOK == WellFormed(cache) /\ Len(cache) <= Capacity

\* Get returns an entry of the key and changes the order alone.
LEMMA TouchOK ==
    ASSUME CacheOK, NEW s \in Sources, HasKey(cache, keyOf(s))
    PROVE  /\ WellFormed(CacheTouch(keyOf(s)))
           /\ Len(CacheTouch(keyOf(s))) <= Capacity
           /\ \A k : HasKey(CacheTouch(keyOf(s)), k) <=> HasKey(cache, k)
           /\ CacheValue(keyOf(s)) \in Values
           /\ CacheValue(keyOf(s)).of = s
           /\ CacheValue(keyOf(s)).kind = "artifact"
<1> DEFINE key == keyOf(s)
           x == [key |-> key, value |-> CacheValue(key)]
<1>1. CacheSlot(key) \in 1..Len(cache) /\ cache[CacheSlot(key)].key = key
  BY DEF CacheSlot, HasKey
<1>2. SoundEntry(cache[CacheSlot(key)])
  BY <1>1 DEF CacheOK, WellFormed
<1>3. /\ CacheValue(key) \in Values /\ CacheValue(key).of = s
      /\ CacheValue(key).kind = "artifact"
  BY <1>1, <1>2 DEF CacheValue, SoundEntry, Entries, keyOf
<1>4. SoundEntry(x) /\ x.key = key
  BY <1>3 DEF SoundEntry, Entries, Keys
<1>5. CacheTouch(key) = Append(Without(key), x)
  BY DEF CacheTouch
<1>6. /\ WellFormed(Without(key)) /\ Len(Without(key)) = Len(cache) - 1
      /\ \A k : HasKey(Without(key), k) <=> HasKey(cache, k) /\ k # key
  BY WithoutOK DEF CacheOK
<1> HIDE DEF x, key
<1>7. ~HasKey(Without(key), x.key)
  BY <1>4, <1>6
<1>8. /\ WellFormed(Append(Without(key), x))
      /\ Len(Append(Without(key), x)) = Len(Without(key)) + 1
      /\ \A k : HasKey(Append(Without(key), x), k) <=> HasKey(Without(key), k) \/ k = x.key
  BY <1>4, <1>6, <1>7, AppendOK
<1>9. Len(cache) \in Nat /\ Len(cache) <= Capacity
  BY LenProperties DEF CacheOK, WellFormed
<1>10. Len(Append(Without(key), x)) <= Capacity
  BY <1>6, <1>8, <1>9, CompilerAssumption
<1> QED
  BY <1>3, <1>4, <1>5, <1>6, <1>8, <1>10 DEF key

\* Add puts a new entry in, and drops an old one if the cache is full.
LEMMA AddOK ==
    ASSUME CacheOK, NEW s \in Sources, ~HasKey(cache, keyOf(s)),
           NEW v \in Values, v.of = s, v.kind = "artifact"
    PROVE  /\ WellFormed(CacheAdd(keyOf(s), v))
           /\ Len(CacheAdd(keyOf(s), v)) <= Capacity
           /\ HasKey(CacheAdd(keyOf(s), v), keyOf(s))
           /\ \A t \in Sources : t # s =>
                (HasKey(cache, keyOf(t)) <=>
                    t \in CacheEvicted(keyOf(s)) \/ HasKey(CacheAdd(keyOf(s), v), keyOf(t)))
           /\ \A t \in Sources : t \in CacheEvicted(keyOf(s)) =>
                t # s /\ ~HasKey(CacheAdd(keyOf(s), v), keyOf(t))
<1> DEFINE key == keyOf(s)
           x == [key |-> key, value |-> v]
           full == Len(cache) = Capacity
           kept == IF full THEN Tail(cache) ELSE cache
<1>1. Without(key) = cache
  BY DEF Without, CacheHas, HasKey
<1>2. CacheAdd(key, v) = Append(kept, x)
  BY <1>1 DEF CacheAdd
<1>3. CacheEvicted(key) = IF full THEN {Head(cache).value.of} ELSE {}
  BY <1>1 DEF CacheEvicted
<1>4. SoundEntry(x) /\ x.key = key
  BY DEF SoundEntry, Entries, Keys
<1>5. Len(cache) \in Nat /\ Len(cache) <= Capacity /\ Capacity \in Nat \ {0}
  BY LenProperties, CompilerAssumption DEF CacheOK, WellFormed
<1>6. full => /\ WellFormed(Tail(cache)) /\ Len(Tail(cache)) = Len(cache) - 1
              /\ SoundEntry(Head(cache)) /\ HasKey(cache, Head(cache).key)
              /\ \A k : HasKey(Tail(cache), k) <=> HasKey(cache, k) /\ k # Head(cache).key
  <2>1. full => cache # <<>>
    BY <1>5, EmptySeq
  <2> QED
    BY <2>1, TailOK DEF CacheOK
<1> HIDE DEF x, key
<1>7. /\ WellFormed(kept) /\ Len(kept) + 1 <= Capacity
      /\ \A k : HasKey(kept, k) => HasKey(cache, k)
  BY <1>5, <1>6 DEF CacheOK
<1>8. ~HasKey(cache, key)
  BY DEF key
<1>9. \A t \in Sources : (HasKey(cache, keyOf(t)) <=> t \in CacheEvicted(key) \/ HasKey(kept, keyOf(t)))
  <2>1. CASE full
    <3>1. \A t : t \in CacheEvicted(key) <=> keyOf(t) = Head(cache).key
      BY <1>3, <1>6, <2>1 DEF SoundEntry, keyOf
    <3> QED
      BY <1>6, <2>1, <3>1
  <2>2. CASE ~full
    BY <1>3, <2>2
  <2> QED
    BY <2>1, <2>2
<1>10. \A t \in Sources : t \in CacheEvicted(key) => ~HasKey(kept, keyOf(t)) /\ HasKey(cache, keyOf(t))
  <2>1. CASE full
    <3>1. \A t : t \in CacheEvicted(key) <=> keyOf(t) = Head(cache).key
      BY <1>3, <1>6, <2>1 DEF SoundEntry, keyOf
    <3> QED
      BY <1>6, <2>1, <3>1
  <2>2. CASE ~full
    BY <1>3, <2>2
  <2> QED
    BY <2>1, <2>2
<1> HIDE DEF kept
<1>11. /\ WellFormed(Append(kept, x)) /\ Len(Append(kept, x)) = Len(kept) + 1
       /\ \A k : HasKey(Append(kept, x), k) <=> HasKey(kept, k) \/ k = key
  <2>1. ~HasKey(kept, x.key)
    BY <1>4, <1>7, <1>8
  <2>2. /\ WellFormed(Append(kept, x)) /\ Len(Append(kept, x)) = Len(kept) + 1
        /\ \A k : HasKey(Append(kept, x), k) <=> HasKey(kept, k) \/ k = x.key
    BY <1>4, <1>7, <2>1, AppendOK
  <2> QED
    BY <1>4, <2>2
<1>12. \A t : keyOf(t) = key <=> t = s
  BY DEF keyOf, key
<1>13. Len(CacheAdd(key, v)) <= Capacity
  BY <1>2, <1>7, <1>11
<1>14. ASSUME NEW t \in Sources, t # s
       PROVE  HasKey(cache, keyOf(t)) <=> t \in CacheEvicted(key) \/ HasKey(CacheAdd(key, v), keyOf(t))
  BY <1>2, <1>9, <1>11, <1>12, <1>14
<1>15. ASSUME NEW t \in Sources, t \in CacheEvicted(key)
       PROVE  t # s /\ ~HasKey(CacheAdd(key, v), keyOf(t))
  BY <1>2, <1>8, <1>10, <1>11, <1>12, <1>15
<1> QED
  BY <1>2, <1>11, <1>13, <1>14, <1>15 DEF key

-----------------------------------------------------------------------------
\* The inductive invariant.

\* Where a caller leads the call of its key.
LeadPlaces == {"recheck", "compile", "add", "finish"}

\* A caller has a source exactly while it is in a call.
CallOK == \A c \in Callers : pc[c] # "idle" <=> source[c] \in Sources

\* The group's map and the leaders agree.
FlightOK ==
    /\ \A c \in Callers : pc[c] \in LeadPlaces => flight[KeyOf(c)] = c
    /\ \A s \in Sources : flight[keyOf(s)] # NoOne =>
          pc[flight[keyOf(s)]] \in LeadPlaces /\ source[flight[keyOf(s)]] = s

\* Who waits, waits for the leader of its own source.
JoinOK ==
    \A c \in Callers :
        /\ pc[c] = "wait" <=> joined[c] # NoOne
        /\ joined[c] # NoOne => pc[joined[c]] \in LeadPlaces /\ source[joined[c]] = source[c]

\* What a caller carries was made from its source.
GotOK ==
    \A c \in Callers :
        /\ pc[c] \in {"add", "finish", "return"} =>
              got[c] \in Values /\ got[c].of = source[c]
        /\ pc[c] = "add" => got[c].kind = "artifact"

\* From the second lookup to the add nobody else puts the key into the cache.
MissOK == \A c \in Callers : pc[c] \in {"compile", "add"} => ~HasKey(cache, KeyOf(c))

\* Every artifact built was evicted, is in the cache or is about to be added.
Adding(s) == \E c \in Callers : pc[c] = "add" /\ source[c] = s
One(b) == IF b THEN 1 ELSE 0
BuildsOK ==
    \A s \in Sources :
        builds[s] = evictions[s] + One(HasKey(cache, keyOf(s))) + One(Adding(s))

CompilerInv ==
    /\ TypeOK /\ CallOK /\ FlightOK /\ JoinOK /\ GotOK /\ CacheOK /\ MissOK /\ BuildsOK

-----------------------------------------------------------------------------

\* The empty cache is well formed.
LEMMA CompilerInitOK == Init => CompilerInv
<1> SUFFICES ASSUME Init PROVE CompilerInv
  OBVIOUS
<1>1. cache \in Seq(Entries) /\ Len(cache) = 0
  BY EmptySeq DEF Init
<1>2. CacheOK
  BY <1>1, CompilerAssumption DEF CacheOK, WellFormed
<1>3. \A k : ~HasKey(cache, k)
  BY <1>1 DEF HasKey
<1>4. NoOne \notin Sources /\ \A k \in Keys : \E s \in Sources : k = keyOf(s)
  BY CompilerAssumption DEF Keys
<1>5. TypeOK
  <2>1. MaxCalls \in [Callers -> Nat]
    BY CompilerAssumption
  <2> QED
    BY <1>2, <1>1, <2>1 DEF Init, TypeOK, Places, CacheOK, Entries
<1>6. CallOK /\ JoinOK /\ GotOK /\ MissOK
  BY <1>4 DEF Init, CallOK, JoinOK, GotOK, MissOK
<1>7. FlightOK
  BY <1>4 DEF Init, FlightOK, LeadPlaces, Keys
<1>8. BuildsOK
  BY <1>3 DEF Init, BuildsOK, One, Adding
<1> QED
  BY <1>2, <1>5, <1>6, <1>7, <1>8 DEF CompilerInv

\* The steps but CompileEnds and Add.
QuietStep(c) ==
    \/ \E s \in Sources : Call(c, s)
    \/ Lookup(c) \/ Do(c) \/ Recheck(c) \/ Finish(c) \/ Return(c)

\* They change the order of the cache at most.
LEMMA QuietStepsKeepCache ==
    ASSUME CompilerInv, NEW c \in Callers, QuietStep(c)
    PROVE  /\ CacheOK'
           /\ \A k : HasKey(cache', k) <=> HasKey(cache, k)
<1>1. CASE UNCHANGED cache
  BY <1>1 DEF CompilerInv, CacheOK, WellFormed
<1>2. CASE cache' = CacheTouch(KeyOf(c)) /\ CacheHas(KeyOf(c)) /\ pc[c] # "idle"
  <2>1. source[c] \in Sources /\ HasKey(cache, keyOf(source[c]))
    BY <1>2 DEF CompilerInv, CallOK, CacheHas, HasKey, KeyOf
  <2>2. /\ WellFormed(CacheTouch(KeyOf(c)))
        /\ Len(CacheTouch(KeyOf(c))) <= Capacity
        /\ \A k : HasKey(CacheTouch(KeyOf(c)), k) <=> HasKey(cache, k)
    BY <2>1, TouchOK DEF CompilerInv, KeyOf
  <2>3. WellFormed(cache)' <=> WellFormed(cache')
    BY DEF WellFormed
  <2> QED
    BY <1>2, <2>2, <2>3 DEF CacheOK
<1>3. UNCHANGED cache \/ (cache' = CacheTouch(KeyOf(c)) /\ CacheHas(KeyOf(c)) /\ pc[c] # "idle")
  BY DEF QuietStep, Call, Lookup, Do, Recheck, Finish, Return, RecheckHit
<1> QED
  BY <1>1, <1>2, <1>3

\* Nobody becomes or stops being about to add, and nobody else looks at the
\* cache.
LEMMA QuietStepsKeepBooks ==
    ASSUME CompilerInv, NEW c \in Callers, QuietStep(c)
    PROVE  CacheOK' /\ MissOK' /\ BuildsOK'
<1>1. CacheOK' /\ \A k : HasKey(cache', k) <=> HasKey(cache, k)
  BY QuietStepsKeepCache
<1>2. /\ builds' = builds /\ evictions' = evictions
      /\ \A d \in Callers : pc'[d] \in {"compile", "add"} =>
            /\ source'[d] = source[d]
            /\ pc[d] = pc'[d] \/ (pc'[d] = "compile" /\ ~HasKey(cache, KeyOf(d)))
      /\ \A d \in Callers : pc[d] = "add" => pc'[d] = "add"
  <2>1. pc \in [Callers -> Places] /\ source \in [Callers -> Sources \cup {NoOne}]
    BY DEF CompilerInv, TypeOK
  <2>2. CASE \E s \in Sources : Call(c, s)
    BY <2>1, <2>2 DEF Call, Goto, history
  <2>3. CASE Lookup(c)
    BY <2>1, <2>3 DEF Lookup, Goto, Answer, history
  <2>4. CASE Do(c)
    BY <2>1, <2>4 DEF Do, Goto, history
  <2>5. CASE Recheck(c)
    BY <2>1, <2>5 DEF Recheck, Goto, RecheckHit, CacheHas, HasKey
  <2>6. CASE Finish(c)
    <3>1. \A d \in Callers : joined[d] = c => pc[d] = "wait"
      BY CompilerAssumption DEF CompilerInv, JoinOK
    <3> QED
      BY <2>1, <2>6, <3>1 DEF Finish, history
  <2>7. CASE Return(c)
    BY <2>1, <2>7 DEF Return, Goto
  <2> QED
    BY <2>2, <2>3, <2>4, <2>5, <2>6, <2>7 DEF QuietStep
<1>3. MissOK'
  BY <1>1, <1>2 DEF CompilerInv, MissOK, KeyOf
<1>4. \A s \in Sources : Adding(s)' <=> Adding(s)
  BY <1>2 DEF Adding
<1>5. BuildsOK'
  BY <1>1, <1>2, <1>4 DEF CompilerInv, BuildsOK, One
<1> QED
  BY <1>1, <1>3, <1>5

\* The types of what a step of one caller writes.
CallTypes ==
    /\ pc \in [Callers -> Places]
    /\ source \in [Callers -> Sources \cup {NoOne}]
    /\ got \in [Callers -> Values \cup {NoValue}]
    /\ flight \in [Keys -> Callers \cup {NoOne}]
    /\ joined \in [Callers -> Callers \cup {NoOne}]
BookTypes ==
    /\ calls \in [Callers -> Nat] /\ \A c \in Callers : calls[c] <= MaxCalls[c]
    /\ compiles \in [Sources -> Nat]
    /\ builds \in [Sources -> Nat]
    /\ evictions \in [Sources -> Nat]
    /\ answered \subseteq Sources

\* With a well-formed cache, the type invariant is the sum of the parts proved apart.
LEMMA TypesAreParts == CacheOK => (TypeOK <=> CallTypes /\ BookTypes)
BY DEF CacheOK, WellFormed, Entries, TypeOK, CallTypes, BookTypes

\* The counts stay natural numbers.
LEMMA StepsKeepBookTypes ==
    ASSUME CompilerInv, NEW c \in Callers,
           Step(c) \/ \E s \in Sources : Call(c, s)
    PROVE  BookTypes'
<1> USE CompilerAssumption
<1>0. BookTypes /\ source[c] \in Sources \cup {NoOne} /\ (pc[c] # "idle" => source[c] \in Sources)
  BY DEF CompilerInv, TypeOK, BookTypes, CallOK
<1>1. CASE \E s \in Sources : Call(c, s)
  BY <1>0, <1>1 DEF Call, history, BookTypes
<1>2. CASE Lookup(c) \/ Do(c) \/ Finish(c)
  BY <1>0, <1>2 DEF Lookup, Do, Finish, history, BookTypes
<1>3. CASE Recheck(c)
  BY <1>0, <1>3 DEF Recheck, BookTypes
<1>4. CASE \E kind \in Kinds : CompileEnds(c, kind)
  BY <1>0, <1>4 DEF CompileEnds, BookTypes
<1>5. CASE Add(c)
  BY <1>0, <1>5 DEF Add, BookTypes
<1>6. CASE Return(c)
  BY <1>0, <1>6 DEF Return, BookTypes
<1> QED
  BY <1>1, <1>2, <1>3, <1>4, <1>5, <1>6 DEF Step

\* A step that keeps the leaders where they lead keeps the map right.
LEMMA LeadersKeepFlight ==
    ASSUME FlightOK, CallTypes, flight' = flight,
           \A d \in Callers : pc'[d] \in LeadPlaces <=> pc[d] \in LeadPlaces,
           \A d \in Callers : pc[d] \in LeadPlaces => source'[d] = source[d]
    PROVE  FlightOK'
<1>1. \A d \in Callers : pc'[d] \in LeadPlaces => flight'[keyOf(source'[d])] = d
  BY DEF FlightOK, KeyOf
<1>2. ASSUME NEW s \in Sources, flight[keyOf(s)] # NoOne
      PROVE  pc'[flight[keyOf(s)]] \in LeadPlaces /\ source'[flight[keyOf(s)]] = s
  <2>1. flight[keyOf(s)] \in Callers
    BY <1>2 DEF CallTypes, Keys
  <2> QED
    BY <1>2, <2>1 DEF FlightOK
<1> QED
  BY <1>1, <1>2 DEF FlightOK, KeyOf

\* A call begins.
LEMMA CallOnGroup ==
    ASSUME CompilerInv, CallTypes, NEW c \in Callers, NEW s \in Sources, Call(c, s)
    PROVE  CallTypes' /\ CallOK' /\ FlightOK' /\ JoinOK' /\ GotOK'
<1> USE CompilerAssumption DEF Call, Goto, CallTypes
<1>1. CallTypes'
  BY DEF Places
<1>2. CallOK'
  BY DEF CompilerInv, CallOK
<1>3. FlightOK'
  BY DEF CompilerInv, FlightOK, LeadPlaces, KeyOf
<1>4. JoinOK'
  BY DEF CompilerInv, JoinOK, LeadPlaces
<1>5. GotOK'
  BY DEF CompilerInv, GotOK
<1> QED
  BY <1>1, <1>2, <1>3, <1>4, <1>5

\* What a lookup of the cache returns to a caller.
LEMMA HitIsOwn ==
    ASSUME CompilerInv, NEW c \in Callers, pc[c] # "idle", CacheHas(KeyOf(c))
    PROVE  CacheValue(KeyOf(c)) \in Values /\ CacheValue(KeyOf(c)).of = source[c]
<1>1. source[c] \in Sources /\ HasKey(cache, keyOf(source[c]))
  BY DEF CompilerInv, CallOK, CacheHas, HasKey, KeyOf
<1> QED
  BY <1>1, TouchOK DEF CompilerInv, KeyOf

\* The two lookups.
LEMMA LookupsOnGroup ==
    ASSUME CompilerInv, CallTypes, NEW c \in Callers, Lookup(c) \/ Recheck(c)
    PROVE  CallTypes' /\ CallOK' /\ FlightOK' /\ JoinOK' /\ GotOK'
<1>1. /\ pc[c] \in {"lookup", "recheck"}
      /\ \/ /\ CacheHas(KeyOf(c))
            /\ got' = [got EXCEPT ![c] = CacheValue(KeyOf(c))]
            /\ pc' = [pc EXCEPT ![c] = IF pc[c] = "lookup" THEN "return" ELSE "finish"]
         \/ /\ got' = got
            /\ pc' = [pc EXCEPT ![c] = IF pc[c] = "lookup" THEN "do" ELSE "compile"]
      /\ UNCHANGED <<source, joined, flight>>
  BY DEF Lookup, Recheck, RecheckHit, Answer, Goto
<1>2. CallTypes'
  BY <1>1, HitIsOwn DEF CallTypes, Places
<1>3. CallOK'
  BY <1>1 DEF CompilerInv, CallTypes, CallOK
<1>4. FlightOK'
  <2>1. \A d \in Callers : pc'[d] \in LeadPlaces <=> pc[d] \in LeadPlaces
    BY <1>1 DEF CallTypes, LeadPlaces
  <2> QED
    BY <1>1, <2>1, LeadersKeepFlight DEF CompilerInv
<1>5. JoinOK'
  BY <1>1 DEF CompilerInv, CallTypes, JoinOK, LeadPlaces
<1>6. GotOK'
  BY <1>1, HitIsOwn DEF CompilerInv, CallTypes, GotOK
<1> QED
  BY <1>2, <1>3, <1>4, <1>5, <1>6

\* A caller joins the call in flight, or leads a new one.
LEMMA DoOnGroup ==
    ASSUME CompilerInv, CallTypes, NEW c \in Callers, Do(c)
    PROVE  CallTypes' /\ CallOK' /\ FlightOK' /\ JoinOK' /\ GotOK'
<1> USE CompilerAssumption DEF Goto, CallTypes
<1>0. source[c] \in Sources /\ KeyOf(c) \in Keys /\ pc[c] = "do"
  BY DEF CompilerInv, CallOK, KeyOf, Keys, Do
<1>1. CASE InFlight(KeyOf(c))
  <2>1. /\ joined' = [joined EXCEPT ![c] = flight[KeyOf(c)]]
        /\ pc' = [pc EXCEPT ![c] = "wait"]
        /\ UNCHANGED <<source, got, flight>>
    BY <1>1 DEF Do
  <2>2. /\ flight[KeyOf(c)] \in Callers
        /\ pc[flight[KeyOf(c)]] \in LeadPlaces /\ source[flight[KeyOf(c)]] = source[c]
    BY <1>0, <1>1 DEF InFlight, KeyOf, CompilerInv, FlightOK
  <2>3. CallTypes' /\ CallOK'
    BY <1>0, <2>1, <2>2 DEF CompilerInv, CallOK, Places
  <2>4. FlightOK'
    BY <1>0, <2>1 DEF CompilerInv, FlightOK, LeadPlaces, KeyOf
  <2>5. JoinOK'
    BY <1>0, <2>1, <2>2 DEF CompilerInv, JoinOK, LeadPlaces
  <2>6. GotOK'
    BY <1>0, <2>1 DEF CompilerInv, GotOK
  <2> QED
    BY <2>3, <2>4, <2>5, <2>6
<1>2. CASE ~InFlight(KeyOf(c))
  <2>1. /\ flight' = [flight EXCEPT ![KeyOf(c)] = c]
        /\ pc' = [pc EXCEPT ![c] = "recheck"]
        /\ UNCHANGED <<source, got, joined>>
    BY <1>2 DEF Do
  <2>2. flight[KeyOf(c)] = NoOne
    BY <1>2 DEF InFlight
  <2>3. CallTypes' /\ CallOK'
    BY <1>0, <2>1 DEF CompilerInv, CallOK, Places
  <2>4. \A s, t : keyOf(s) = keyOf(t) <=> s = t
    BY DEF keyOf
  <2>5. FlightOK'
    <3>1. ASSUME NEW d \in Callers, pc'[d] \in LeadPlaces
          PROVE  flight'[KeyOf(d)'] = d
      <4>1. CASE d = c
        BY <1>0, <2>1, <4>1 DEF KeyOf
      <4>2. CASE d # c
        <5>1. pc[d] \in LeadPlaces /\ source[d] \in Sources
          BY <2>1, <3>1, <4>2 DEF CompilerInv, CallOK, LeadPlaces
        <5>2. flight[KeyOf(d)] = d /\ KeyOf(d) \in Keys
          BY <5>1 DEF CompilerInv, FlightOK, KeyOf, Keys
        <5>3. KeyOf(d) # KeyOf(c)
          BY <2>2, <5>2
        <5> QED
          BY <2>1, <5>2, <5>3 DEF KeyOf
      <4> QED
        BY <4>1, <4>2
    <3>2. ASSUME NEW s \in Sources, flight'[keyOf(s)] # NoOne
          PROVE  pc'[flight'[keyOf(s)]] \in LeadPlaces /\ source'[flight'[keyOf(s)]] = s
      <4>0. keyOf(s) \in Keys
        BY DEF Keys
      <4>1. CASE s = source[c]
        BY <1>0, <2>1, <4>1 DEF KeyOf, LeadPlaces
      <4>2. CASE s # source[c]
        <5>1. flight'[keyOf(s)] = flight[keyOf(s)]
          BY <2>1, <2>4, <4>0, <4>2 DEF KeyOf
        <5> QED
          BY <1>0, <2>1, <3>2, <4>0, <5>1 DEF CompilerInv, FlightOK, LeadPlaces
      <4> QED
        BY <4>1, <4>2
    <3> QED
      BY <3>1, <3>2 DEF FlightOK
  <2>6. JoinOK'
    BY <1>0, <2>1 DEF CompilerInv, JoinOK, LeadPlaces
  <2>7. GotOK'
    BY <1>0, <2>1 DEF CompilerInv, GotOK
  <2> QED
    BY <2>3, <2>5, <2>6, <2>7
<1> QED
  BY <1>1, <1>2

\* The leader's function runs: nothing of the group changes.
LEMMA LeaderOnGroup ==
    ASSUME CompilerInv, CallTypes, NEW c \in Callers,
           Add(c) \/ \E kind \in Kinds : CompileEnds(c, kind)
    PROVE  CallTypes' /\ CallOK' /\ FlightOK' /\ JoinOK' /\ GotOK'
<1> USE CompilerAssumption DEF CallTypes
<1>1. source[c] \in Sources
  BY DEF CompilerInv, CallOK, Add, CompileEnds
<1>2. /\ pc[c] \in {"compile", "add"}
      /\ pc' = [pc EXCEPT ![c] = "add"] \/ pc' = [pc EXCEPT ![c] = "finish"]
      /\ pc'[c] = "add" => got'[c].kind = "artifact"
      /\ got'[c] \in Values /\ got'[c].of = source[c]
      /\ \A d \in Callers : d # c => got'[d] = got[d]
      /\ got' \in [Callers -> Values \cup {NoValue}]
      /\ UNCHANGED <<source, joined, flight>>
  <2>1. CASE Add(c)
    BY <1>1, <2>1 DEF Add, Goto, CompilerInv, GotOK
  <2>2. ASSUME NEW kind \in Kinds, CompileEnds(c, kind)
        PROVE  <1>2!:
    <3>1. Value(kind, source[c]) \in Values /\ Value(kind, source[c]).of = source[c]
          /\ Value(kind, source[c]).kind = kind
      BY <1>1 DEF Value, Values
    <3> QED
      BY <2>2, <3>1 DEF CompileEnds, Goto, WorthCaching
  <2> QED
    BY <2>1, <2>2
<1>3. CallTypes'
  BY <1>2 DEF Places
<1>4. CallOK'
  BY <1>2 DEF CompilerInv, CallOK
<1>5. FlightOK'
  <2>1. \A d \in Callers : pc'[d] \in LeadPlaces <=> pc[d] \in LeadPlaces
    BY <1>2 DEF LeadPlaces
  <2> QED
    BY <1>2, <2>1, LeadersKeepFlight DEF CompilerInv
<1>6. JoinOK'
  BY <1>2 DEF CompilerInv, JoinOK, LeadPlaces
<1>7. GotOK'
  BY <1>2 DEF CompilerInv, GotOK
<1> QED
  BY <1>3, <1>4, <1>5, <1>6, <1>7

\* The leader is done: the key is free, and everyone who waits gets its value.
LEMMA FinishOnGroup ==
    ASSUME CompilerInv, CallTypes, NEW c \in Callers, Finish(c)
    PROVE  CallTypes' /\ CallOK' /\ FlightOK' /\ JoinOK' /\ GotOK'
<1> USE CompilerAssumption DEF CallTypes, Finish
<1>1. /\ source[c] \in Sources /\ KeyOf(c) \in Keys /\ flight[KeyOf(c)] = c
      /\ got[c] \in Values /\ got[c].of = source[c]
  BY DEF CompilerInv, CallOK, FlightOK, GotOK, LeadPlaces, KeyOf, Keys
<1>2. /\ joined[c] # c
      /\ \A d \in Callers : joined[d] = c => pc[d] = "wait" /\ source[d] = source[c]
  BY DEF CompilerInv, JoinOK
<1>3. CallTypes'
  BY <1>1 DEF Places
<1>4. CallOK'
  BY <1>2 DEF CompilerInv, CallOK
<1>5. \A s, t : keyOf(s) = keyOf(t) <=> s = t
  BY DEF keyOf
<1>6. FlightOK'
  <2>1. ASSUME NEW d \in Callers, pc'[d] \in LeadPlaces
        PROVE  flight'[KeyOf(d)'] = d
    <3>1. d # c /\ pc[d] \in LeadPlaces /\ source[d] \in Sources
      BY <2>1 DEF CompilerInv, CallOK, LeadPlaces
    <3>2. flight[KeyOf(d)] = d /\ KeyOf(d) \in Keys
      BY <3>1 DEF CompilerInv, FlightOK, KeyOf, Keys
    <3>3. KeyOf(d) # KeyOf(c)
      BY <1>1, <3>1, <3>2
    <3> QED
      BY <3>2, <3>3 DEF KeyOf
  <2>2. ASSUME NEW s \in Sources, flight'[keyOf(s)] # NoOne
        PROVE  pc'[flight'[keyOf(s)]] \in LeadPlaces /\ source'[flight'[keyOf(s)]] = s
    <3>1. keyOf(s) \in Keys /\ keyOf(s) # KeyOf(c)
      BY <1>1, <2>2 DEF Keys
    <3>2. flight'[keyOf(s)] = flight[keyOf(s)] /\ flight[keyOf(s)] \in Callers
      BY <2>2, <3>1
    <3>3. pc[flight[keyOf(s)]] \in LeadPlaces /\ source[flight[keyOf(s)]] = s
      BY <2>2, <3>2 DEF CompilerInv, FlightOK
    <3>4. flight[keyOf(s)] # c
      BY <3>1, <3>3 DEF KeyOf
    <3>5. joined[flight[keyOf(s)]] # c
      BY <1>2, <3>2, <3>3 DEF LeadPlaces
    <3> QED
      BY <3>2, <3>3, <3>4, <3>5
  <2> QED
    BY <2>1, <2>2 DEF FlightOK
<1>7. JoinOK'
  <2> SUFFICES ASSUME NEW d \in Callers
               PROVE  /\ pc'[d] = "wait" <=> joined'[d] # NoOne
                      /\ joined'[d] # NoOne =>
                           pc'[joined'[d]] \in LeadPlaces /\ source'[joined'[d]] = source'[d]
    BY DEF JoinOK
  <2>1. CASE joined[d] = c \/ d = c
    BY <1>2, <2>1 DEF CompilerInv, JoinOK
  <2>2. CASE joined[d] # c /\ d # c
    <3>1. joined'[d] = joined[d] /\ pc'[d] = pc[d]
      BY <2>2
    <3>2. joined[d] # NoOne =>
            /\ joined[d] \in Callers /\ joined[d] # c
            /\ pc[joined[d]] \in LeadPlaces /\ source[joined[d]] = source[d]
      BY <2>2 DEF CompilerInv, JoinOK
    <3>3. joined[d] # NoOne => joined[joined[d]] # c
      BY <1>2, <3>2 DEF LeadPlaces
    <3> QED
      BY <3>1, <3>2, <3>3 DEF CompilerInv, JoinOK
  <2> QED
    BY <2>1, <2>2
<1>8. GotOK'
  BY <1>1, <1>2 DEF CompilerInv, GotOK
<1> QED
  BY <1>3, <1>4, <1>6, <1>7, <1>8

\* A call ends.
LEMMA ReturnOnGroup ==
    ASSUME CompilerInv, CallTypes, NEW c \in Callers, Return(c)
    PROVE  CallTypes' /\ CallOK' /\ FlightOK' /\ JoinOK' /\ GotOK'
<1> USE CompilerAssumption DEF Return, Goto, CallTypes
<1>1. CallTypes'
  BY DEF Places
<1>2. CallOK'
  BY DEF CompilerInv, CallOK
<1>3. FlightOK'
  BY DEF CompilerInv, FlightOK, LeadPlaces, KeyOf, Keys
<1>4. JoinOK'
  BY DEF CompilerInv, JoinOK, LeadPlaces
<1>5. GotOK'
  BY DEF CompilerInv, GotOK
<1> QED
  BY <1>1, <1>2, <1>3, <1>4, <1>5

\* The leader's steps on the cache: it builds an artifact, and puts it there.
LEMMA LeaderKeepsBooks ==
    ASSUME CompilerInv, CallTypes, NEW c \in Callers,
           Add(c) \/ \E kind \in Kinds : CompileEnds(c, kind)
    PROVE  CacheOK' /\ MissOK' /\ BuildsOK'
<1>1. /\ source[c] \in Sources /\ pc[c] \in {"compile", "add"} /\ ~HasKey(cache, KeyOf(c))
      /\ \A d \in Callers : d # c /\ pc[d] \in LeadPlaces => source[d] # source[c]
  <2>1. source[c] \in Sources /\ pc[c] \in {"compile", "add"}
    BY DEF CompilerInv, CallOK, Add, CompileEnds
  <2>2. flight[KeyOf(c)] = c /\ ~HasKey(cache, KeyOf(c))
    BY <2>1 DEF CompilerInv, FlightOK, MissOK, LeadPlaces
  <2>3. \A d \in Callers : pc[d] \in LeadPlaces => flight[KeyOf(d)] = d
    BY DEF CompilerInv, FlightOK
  <2> QED
    BY <2>1, <2>2, <2>3 DEF KeyOf
<1>2. \A d \in Callers : d # c => source'[d] = source[d] /\ pc'[d] = pc[d]
  BY DEF Add, CompileEnds, Goto, CallTypes
<1>3. source' = source
  BY DEF Add, CompileEnds
<1>4. \A s \in Sources : s # source[c] => (Adding(s)' <=> Adding(s))
  BY <1>2, <1>3 DEF Adding
<1>5. ASSUME NEW kind \in Kinds, CompileEnds(c, kind)
      PROVE  CacheOK' /\ MissOK' /\ BuildsOK'
  <2>1. cache' = cache /\ evictions' = evictions /\ pc[c] = "compile"
        /\ pc'[c] = (IF kind = "artifact" THEN "add" ELSE "finish")
        /\ builds' = IF kind = "artifact" THEN [builds EXCEPT ![source[c]] = @ + 1] ELSE builds
    BY <1>5 DEF CompileEnds, Goto, WorthCaching, CallTypes
  <2>2. CacheOK'
    BY <2>1 DEF CompilerInv, CacheOK, WellFormed
  <2>3. MissOK'
    BY <1>1, <1>2, <1>3, <2>1 DEF CompilerInv, MissOK, KeyOf, HasKey
  <2>4. \A s \in Sources : s = source[c] => ~Adding(s) /\ (Adding(s)' <=> kind = "artifact")
    BY <1>1, <1>2, <1>3, <2>1 DEF Adding, LeadPlaces
  <2>5. builds \in [Sources -> Nat] /\ evictions \in [Sources -> Nat]
    BY DEF CompilerInv, TypeOK
  <2>6. ASSUME NEW s \in Sources
        PROVE  builds'[s] = evictions'[s] + One(HasKey(cache', keyOf(s))) + One(Adding(s)')
    <3>1. builds[s] = evictions[s] + One(HasKey(cache, keyOf(s))) + One(Adding(s))
      BY DEF CompilerInv, BuildsOK
    <3>2. CASE s = source[c]
      BY <2>1, <2>4, <2>5, <3>1, <3>2 DEF One
    <3>3. CASE s # source[c]
      BY <1>4, <2>1, <2>5, <3>1, <3>3 DEF One
    <3> QED
      BY <3>2, <3>3
  <2>7. BuildsOK'
    BY <2>6 DEF BuildsOK, One
  <2> QED
    BY <2>2, <2>3, <2>7
<1>6. CASE Add(c)
  <2> DEFINE s == source[c]
             k == keyOf(s)
  <2>1. /\ cache' = CacheAdd(k, got[c]) /\ pc[c] = "add" /\ pc'[c] = "finish"
        /\ builds' = builds
        /\ \A t \in Sources :
              evictions'[t] = evictions[t] + IF t \in CacheEvicted(k) THEN 1 ELSE 0
    BY <1>6 DEF Add, Goto, KeyOf, CallTypes
  <2>2. got[c] \in Values /\ got[c].of = s /\ got[c].kind = "artifact"
    BY <2>1 DEF CompilerInv, GotOK
  <2>3. ~HasKey(cache, k)
    BY <1>1 DEF KeyOf
  <2>4. CacheOK /\ s \in Sources
    BY <1>1 DEF CompilerInv
  <2> HIDE DEF s
  <2>5. /\ WellFormed(cache') /\ Len(cache') <= Capacity
        /\ HasKey(cache', k)
        /\ \A t \in Sources : t # s =>
             (HasKey(cache, keyOf(t)) <=> t \in CacheEvicted(k) \/ HasKey(cache', keyOf(t)))
        /\ \A t \in Sources : t \in CacheEvicted(k) => t # s /\ ~HasKey(cache', keyOf(t))
    BY <2>1, <2>2, <2>3, <2>4, AddOK
  <2>6. CacheOK'
    BY <2>5 DEF CacheOK, WellFormed
  <2>7. MissOK'
    <3> SUFFICES ASSUME NEW d \in Callers, pc'[d] \in {"compile", "add"}
                 PROVE  ~HasKey(cache', keyOf(source'[d]))
      BY DEF MissOK, KeyOf, HasKey
    <3>1. d # c /\ pc'[d] = pc[d] /\ source[d] = source'[d]
      BY <1>2, <2>1
    <3>2. source[d] \in Sources /\ source[d] # s /\ ~HasKey(cache, keyOf(source[d]))
      BY <1>1, <3>1 DEF CompilerInv, CallOK, MissOK, KeyOf, LeadPlaces, s
    <3> QED
      BY <2>5, <3>1, <3>2
  <2>8. Adding(s) /\ ~Adding(s)'
    <3>1. Adding(s)
      BY <2>1 DEF Adding, s
    <3>2. ASSUME NEW d \in Callers, pc'[d] = "add", source'[d] = source[c] PROVE FALSE
      BY <1>1, <1>2, <2>1, <3>2 DEF LeadPlaces
    <3>3. s' = s
      BY <1>3 DEF s
    <3> QED
      BY <3>1, <3>2, <3>3 DEF Adding, s
  <2>9. builds \in [Sources -> Nat] /\ evictions \in [Sources -> Nat]
    BY DEF CompilerInv, TypeOK
  <2>10. ASSUME NEW t \in Sources
         PROVE  builds'[t] = evictions'[t] + One(HasKey(cache', keyOf(t))) + One(Adding(t)')
    <3>1. builds[t] = evictions[t] + One(HasKey(cache, keyOf(t))) + One(Adding(t))
      BY DEF CompilerInv, BuildsOK
    <3>2. CASE t = s
      <4>1. t \notin CacheEvicted(k) /\ HasKey(cache', keyOf(t)) /\ ~HasKey(cache, keyOf(t))
        BY <2>3, <2>5, <3>2
      <4>2. Adding(t) /\ ~Adding(t)'
        BY <1>3, <2>8, <3>2 DEF s
      <4> QED
        BY <2>1, <2>9, <3>1, <4>1, <4>2 DEF One
    <3>3. CASE t # s
      <4>1. Adding(t)' <=> Adding(t)
        BY <1>4, <3>3 DEF s
      <4>2. /\ HasKey(cache, keyOf(t)) <=> t \in CacheEvicted(k) \/ HasKey(cache', keyOf(t))
            /\ t \in CacheEvicted(k) => ~HasKey(cache', keyOf(t))
        BY <2>5, <3>3
      <4> QED
        BY <2>1, <2>9, <3>1, <4>1, <4>2 DEF One
    <3> QED
      BY <3>2, <3>3
  <2>11. BuildsOK'
    BY <2>10 DEF BuildsOK, One
  <2> QED
    BY <2>6, <2>7, <2>11
<1> QED
  BY <1>5, <1>6

\* The invariant is inductive.
LEMMA CompilerStepOK == CompilerInv /\ [Next]_vars => CompilerInv'
<1> SUFFICES ASSUME CompilerInv, [Next]_vars PROVE CompilerInv'
  OBVIOUS
<1>1. CallTypes
  BY TypesAreParts DEF CompilerInv
<1>2. ASSUME NEW c \in Callers, Step(c) \/ \E s \in Sources : Call(c, s)
      PROVE  CompilerInv'
  <2>1. BookTypes'
    BY <1>2, StepsKeepBookTypes
  <2>2. CallTypes' /\ CallOK' /\ FlightOK' /\ JoinOK' /\ GotOK'
    BY <1>1, <1>2, CallOnGroup, LookupsOnGroup, DoOnGroup, LeaderOnGroup, FinishOnGroup,
       ReturnOnGroup DEF Step
  <2>3. CacheOK' /\ MissOK' /\ BuildsOK'
    BY <1>1, <1>2, QuietStepsKeepBooks, LeaderKeepsBooks DEF Step, QuietStep
  <2>4. TypeOK'
    BY <2>1, <2>2, <2>3, TypesAreParts, PTL
  <2> QED
    BY <2>2, <2>3, <2>4 DEF CompilerInv
<1>3. CASE UNCHANGED vars
  <2>1. /\ pc' = pc /\ source' = source /\ got' = got /\ calls' = calls /\ joined' = joined
        /\ cache' = cache /\ flight' = flight /\ compiles' = compiles /\ builds' = builds
        /\ evictions' = evictions /\ answered' = answered
    BY <1>3 DEF vars, callerVars, history
  <2>2. TypeOK' /\ CallOK' /\ CacheOK'
    BY <2>1 DEF CompilerInv, TypeOK, CallOK, CacheOK, WellFormed
  <2>3. FlightOK' /\ JoinOK' /\ GotOK' /\ MissOK'
    BY <2>1 DEF CompilerInv, FlightOK, JoinOK, GotOK, MissOK, KeyOf, HasKey
  <2>4. \A s \in Sources : /\ HasKey(cache, keyOf(s))' <=> HasKey(cache, keyOf(s))
                           /\ Adding(s)' <=> Adding(s)
    BY <2>1 DEF HasKey, Adding, keyOf
  <2>5. BuildsOK'
    BY <2>1, <2>4 DEF CompilerInv, BuildsOK, One
  <2> QED
    BY <2>2, <2>3, <2>5 DEF CompilerInv
<1> QED
  BY <1>2, <1>3 DEF Next, Terminated

\* CompilerInv holds in every reachable state.
LEMMA CompilerInvariance == Spec => []CompilerInv
BY CompilerInitOK, CompilerStepOK, PTL DEF Spec

-----------------------------------------------------------------------------

\* The types hold whatever the number of requests, and the cache stays within
\* its capacity (checker_compiler.go, compile).
THEOREM CompilerTypeCorrect == Spec => []TypeOK
BY CompilerInvariance, PTL DEF CompilerInv

\* The group lets one goroutine at a time compile a source.
THEOREM CompilesAreExclusive == Spec => []OneCompilePerSource
<1>1. CompilerInv => OneCompilePerSource
  BY DEF CompilerInv, FlightOK, LeadPlaces, KeyOf, OneCompilePerSource
<1> QED
  BY <1>1, CompilerInvariance, PTL

\* A request is answered from its own source, and only artifacts are cached.
THEOREM AnswersAreOwn == Spec => []AnswerIsForOwnSource
<1>1. CompilerInv => AnswerIsForOwnSource
  BY DEF CompilerInv, GotOK, CacheOK, WellFormed, SoundEntry, AnswerIsForOwnSource
<1> QED
  BY <1>1, CompilerInvariance, PTL

\* A source is built again only after an eviction.
THEOREM RebuildsNeedEvictions == Spec => []RebuiltOnlyAfterEviction
<1>1. CompilerInv => RebuiltOnlyAfterEviction
  <2> SUFFICES ASSUME CompilerInv, NEW s \in Sources PROVE builds[s] <= 1 + evictions[s]
    BY DEF RebuiltOnlyAfterEviction
  <2>1. /\ builds[s] \in Nat /\ evictions[s] \in Nat
        /\ builds[s] = evictions[s] + One(HasKey(cache, keyOf(s))) + One(Adding(s))
    BY DEF CompilerInv, TypeOK, BuildsOK
  <2>2. ~(HasKey(cache, keyOf(s)) /\ Adding(s))
    BY DEF CompilerInv, MissOK, Adding, KeyOf
  <2> QED
    BY <2>1, <2>2 DEF One
<1> QED
  BY <1>1, CompilerInvariance, PTL
=============================================================================
