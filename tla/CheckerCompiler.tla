-------------------------- MODULE CheckerCompiler --------------------------
(***************************************************************************)
(* Compilation of checkers (internal/service/checker_compiler.go): an LRU  *)
(* cache of successful compilations in front of a singleflight group, used *)
(* by every judge request at once.  The LRU cache and the group are        *)
(* external libraries; their methods are the operators Cache* and the map  *)
(* `flight`.  executor.Compile is one step that ends with an artifact,     *)
(* with diagnostics and no artifact, or with an infrastructure error (its  *)
(* own time budget running out included).                                  *)
(***************************************************************************)
EXTENDS Integers, Sequences, FiniteSets, SequencesExt

CONSTANTS
    Callers,   \* goroutines that call prepare
    Sources,   \* checker sources, as byte strings
    Broken,    \* the sources the compiler rejects
    Capacity,  \* checkerCacheEntries
    MaxCalls,  \* bound: calls each goroutine makes one after the other
    NoOne

ASSUME CompilerAssumption ==
    /\ Broken \subseteq Sources
    /\ Capacity \in Nat \ {0}
    /\ MaxCalls \in [Callers -> Nat]
    /\ NoOne \notin Callers \cup Sources

VARIABLES
    pc,         \* where each caller is in compile
    source,     \* the source it was called with, NoOne outside a call
    got,        \* what it is about to return
    calls,      \* history: calls it has begun
    cache,      \* the LRU cache: entries [key, value], least recently used first
    flight,     \* singleflight.Group.m: the leader of the call of a key, or NoOne
    joined,     \* the leader whose call a caller waits for, or NoOne
    compiles,   \* history: executor.Compile calls, for each source
    builds,     \* history: those that gave an artifact
    evictions,  \* history: evictions of the source's artifact
    answered    \* history: the sources for which some call has returned

callerVars == <<pc, source, got, calls, joined>>
history == <<compiles, builds, evictions, answered>>
vars == <<callerVars, cache, flight, history>>

Kinds == {"artifact", "diagnostics", "error"}
Value(kind, s) == [kind |-> kind, of |-> s]
Values == [kind : Kinds, of : Sources]
NoValue == [kind |-> "none"]

\* Mutant: a key that does not depend on the source.
MutantKeyOf(s) == <<"sha256", "checker.cpp">>
\* sha256.Sum256(source): distinct sources have distinct keys.
keyOf(s) == <<"sha256", s>>
Keys == {keyOf(s) : s \in Sources}

Places == {"idle", "lookup", "do", "wait", "recheck", "compile", "add", "finish", "return"}

TypeOK ==
    /\ pc \in [Callers -> Places]
    /\ source \in [Callers -> Sources \cup {NoOne}]
    /\ got \in [Callers -> Values \cup {NoValue}]
    /\ calls \in [Callers -> Nat] /\ \A c \in Callers : calls[c] <= MaxCalls[c]
    /\ cache \in Seq([key : Keys, value : Values]) /\ Len(cache) <= Capacity
    /\ flight \in [Keys -> Callers \cup {NoOne}]
    /\ joined \in [Callers -> Callers \cup {NoOne}]
    /\ compiles \in [Sources -> Nat]
    /\ builds \in [Sources -> Nat]
    /\ evictions \in [Sources -> Nat]
    /\ answered \subseteq Sources

Init ==
    /\ pc = [c \in Callers |-> "idle"]
    /\ source = [c \in Callers |-> NoOne]
    /\ got = [c \in Callers |-> NoValue]
    /\ calls = [c \in Callers |-> 0]
    /\ cache = <<>>
    /\ flight = [k \in Keys |-> NoOne]
    /\ joined = [c \in Callers |-> NoOne]
    /\ compiles = [s \in Sources |-> 0]
    /\ builds = [s \in Sources |-> 0]
    /\ evictions = [s \in Sources |-> 0]
    /\ answered = {}

-----------------------------------------------------------------------------
\* github.com/hashicorp/golang-lru

CacheHas(k) == \E i \in 1..Len(cache) : cache[i].key = k
CacheSlot(k) == CHOOSE i \in 1..Len(cache) : cache[i].key = k
CacheValue(k) == cache[CacheSlot(k)].value
Without(k) == IF CacheHas(k) THEN RemoveAt(cache, CacheSlot(k)) ELSE cache

\* Get makes the entry the most recently used one.
CacheTouch(k) == Append(Without(k), [key |-> k, value |-> CacheValue(k)])

\* Mutant: the cache grows by one entry too many before it evicts.
MutantCacheAdd(k, v) ==
    LET kept == Without(k)
    IN Append(IF Len(kept) > Capacity THEN Tail(kept) ELSE kept, [key |-> k, value |-> v])

\* Add evicts the least recently used entry of a full cache.
CacheAdd(k, v) ==
    LET kept == Without(k)
    IN Append(IF Len(kept) = Capacity THEN Tail(kept) ELSE kept, [key |-> k, value |-> v])
CacheEvicted(k) ==
    LET kept == Without(k)
    IN IF Len(kept) = Capacity THEN {Head(kept).value.of} ELSE {}

-----------------------------------------------------------------------------

KeyOf(c) == keyOf(source[c])
Goto(c, there) == pc' = [pc EXCEPT ![c] = there]

\* c leaves compile with value v.
Answer(c, v) ==
    /\ got' = [got EXCEPT ![c] = v]
    /\ Goto(c, "return")

\* A request calls prepare, and that compile, with source s.
Call(c, s) ==
    /\ pc[c] = "idle"
    /\ calls[c] < MaxCalls[c]
    /\ calls' = [calls EXCEPT ![c] = @ + 1]
    /\ source' = [source EXCEPT ![c] = s]
    /\ Goto(c, "lookup")
    /\ UNCHANGED <<got, joined, cache, flight, history>>

\* c.cache.Get(key), before the group is entered
Lookup(c) ==
    /\ pc[c] = "lookup"
    /\ IF CacheHas(KeyOf(c))
       THEN /\ cache' = CacheTouch(KeyOf(c))
            /\ Answer(c, CacheValue(KeyOf(c)))
       ELSE /\ Goto(c, "do")
            /\ UNCHANGED <<cache, got>>
    /\ UNCHANGED <<source, calls, joined, flight, history>>

\* Mutant: the group is not asked whether the key is in flight.
MutantInFlight(k) == FALSE
InFlight(k) == flight[k] # NoOne

\* c.group.Do: wait for the call in flight, or lead a new one
Do(c) ==
    /\ pc[c] = "do"
    /\ IF InFlight(KeyOf(c))
       THEN /\ joined' = [joined EXCEPT ![c] = flight[KeyOf(c)]]
            /\ Goto(c, "wait")
            /\ UNCHANGED flight
       ELSE /\ flight' = [flight EXCEPT ![KeyOf(c)] = c]
            /\ Goto(c, "recheck")
            /\ UNCHANGED joined
    /\ UNCHANGED <<source, got, calls, cache, history>>

\* Mutant: the cache is not looked at again.
MutantRecheckHit(k) == FALSE
RecheckHit(k) == CacheHas(k)

\* The leader looks again: a call for the key may have ended between its first
\* lookup and Do.
Recheck(c) ==
    /\ pc[c] = "recheck"
    /\ IF RecheckHit(KeyOf(c))
       THEN /\ cache' = CacheTouch(KeyOf(c))
            /\ got' = [got EXCEPT ![c] = CacheValue(KeyOf(c))]
            /\ Goto(c, "finish")
            /\ UNCHANGED compiles
       ELSE /\ compiles' = [compiles EXCEPT ![source[c]] = @ + 1]
            /\ Goto(c, "compile")
            /\ UNCHANGED <<cache, got>>
    /\ UNCHANGED <<source, calls, joined, flight, builds, evictions, answered>>

WorthCaching(kind) == kind = "artifact"

\* compileUncached returns.  A sound source may still run into a limit, or make
\* an artifact that collectArtifact refuses.
CompileEnds(c, kind) ==
    /\ pc[c] = "compile"
    /\ kind = "artifact" => source[c] \notin Broken
    /\ got' = [got EXCEPT ![c] = Value(kind, source[c])]
    /\ builds' = IF kind = "artifact" THEN [builds EXCEPT ![source[c]] = @ + 1] ELSE builds
    /\ Goto(c, IF WorthCaching(kind) THEN "add" ELSE "finish")
    /\ UNCHANGED <<source, calls, joined, cache, flight, compiles, evictions, answered>>

\* c.cache.Add, still inside the flight
Add(c) ==
    /\ pc[c] = "add"
    /\ cache' = CacheAdd(KeyOf(c), got[c])
    /\ evictions' = [s \in Sources |->
                        evictions[s] + IF s \in CacheEvicted(KeyOf(c)) THEN 1 ELSE 0]
    /\ Goto(c, "finish")
    /\ UNCHANGED <<source, got, calls, joined, flight, compiles, builds, answered>>

\* Mutant: a call that failed stays in the group's map and wakes nobody.
MutantFinish(c) ==
    /\ pc[c] = "finish"
    /\ IF got[c].kind = "error"
       THEN Goto(c, "return") /\ UNCHANGED <<flight, got, joined>>
       ELSE /\ flight' = [flight EXCEPT ![KeyOf(c)] = NoOne]
            /\ pc' = [d \in Callers |-> IF d = c \/ joined[d] = c THEN "return" ELSE pc[d]]
            /\ got' = [d \in Callers |-> IF joined[d] = c THEN got[c] ELSE got[d]]
            /\ joined' = [d \in Callers |-> IF joined[d] = c THEN NoOne ELSE joined[d]]
    /\ UNCHANGED <<source, calls, cache, history>>

\* The function given to Do returns: under the group's lock the waiters are
\* woken, with the leader's value, and the key is free again.
Finish(c) ==
    /\ pc[c] = "finish"
    /\ flight' = [flight EXCEPT ![KeyOf(c)] = NoOne]
    /\ pc' = [d \in Callers |-> IF d = c \/ joined[d] = c THEN "return" ELSE pc[d]]
    /\ got' = [d \in Callers |-> IF joined[d] = c THEN got[c] ELSE got[d]]
    /\ joined' = [d \in Callers |-> IF joined[d] = c THEN NoOne ELSE joined[d]]
    /\ UNCHANGED <<source, calls, cache, history>>

\* prepare returns to the request: a checker, or its diagnostics, or the error.
Return(c) ==
    /\ pc[c] = "return"
    /\ Goto(c, "idle")
    /\ source' = [source EXCEPT ![c] = NoOne]
    /\ got' = [got EXCEPT ![c] = NoValue]
    /\ answered' = answered \cup {source[c]}
    /\ UNCHANGED <<calls, joined, cache, flight, compiles, builds, evictions>>

Step(c) ==
    \/ Lookup(c) \/ Do(c) \/ Recheck(c)
    \/ \E kind \in Kinds : CompileEnds(c, kind)
    \/ Add(c) \/ Finish(c) \/ Return(c)

AllDone == \A c \in Callers : pc[c] = "idle" /\ calls[c] = MaxCalls[c]
Terminated == AllDone /\ UNCHANGED vars

Next == (\E c \in Callers : Step(c) \/ \E s \in Sources : Call(c, s)) \/ Terminated

Spec == Init /\ [][Next]_vars

\* Goroutines run and executor.Compile returns (Executor!EveryExecutionReturns);
\* nobody is obliged to call.
FairSpec == Spec /\ \A c \in Callers : WF_vars(Step(c))

-----------------------------------------------------------------------------

\* A source is compiled by one goroutine at a time, however many requests bring
\* it at once (singleflight.Group.Do).
OneCompilePerSource ==
    \A c, d \in Callers :
        (c # d /\ pc[c] = "compile" /\ pc[d] = "compile") => source[c] # source[d]

\* What a request gets back was made from its own source, through the cache, its
\* own compilation or one it joined; and the cache keeps artifacts only, so a
\* failed compilation (an infrastructure error or a limit it ran into) is not
\* handed to later requests.
AnswerIsForOwnSource ==
    /\ \A c \in Callers : pc[c] = "return" => got[c].of = source[c]
    /\ \A i \in 1..Len(cache) :
        cache[i].value.kind = "artifact" /\ keyOf(cache[i].value.of) = cache[i].key

\* A source is built again only if the cache has dropped its artifact since: the
\* second lookup inside the flight closes the gap between the first lookup and
\* Do.
RebuiltOnlyAfterEviction == \A s \in Sources : builds[s] <= 1 + evictions[s]

\* Every call of compile returns, also when the compilation it waits for fails.
EveryCallReturns == \A c \in Callers : (pc[c] # "idle") ~> (pc[c] = "idle")

\* "identical source bytes across concurrent requests are compiled exactly once"
\* (checker_compiler.go): until a call for a source has returned, all calls for
\* it are concurrent, and there has been one compilation of it at most.
CompiledOnceAcrossConcurrent ==
    \A s \in Sources : s \notin answered => compiles[s] <= 1
=============================================================================
