----------------------------- MODULE TestlibOpts -----------------------------
(***************************************************************************)
(* The options of a generator (testlib.h): the command line is parsed into  *)
(* a map from keys to values, the program asks for keys, and when it ends   *)
(* every option given must have been used.  The words true and false are    *)
(* one symbol each.                                                          *)
(***************************************************************************)
EXTENDS TestlibChars

CONSTANTS CommandLines,         \* pairs [meant, argv]: what was meant and how it is written
          Keys,                 \* the keys a program asks for
          MaxCalls              \* bound: calls of a program

VARIABLES
  meant,        \* history: the map of keys to values the command line stands for
  opts,         \* __testlib_opts: key -> [value, used]
  flag,         \* __testlib_ensureNoUnusedOptsFlag
  suppressed,   \* __testlib_ensureNoUnusedOptsSuppressed
  asked,        \* history: the keys whose values were returned
  pc,           \* "running", "ended", "unused", "unknown" or "nobool", the last three failures
  calls         \* calls so far, for the bound
vars == <<meant, opts, flag, suppressed, asked, pc, calls>>

EQUALS == 61
true == <<1000>>
false == <<1001>>
Alpha == 65..90 \cup 97..122

At(s, i) == IF i <= Len(s) THEN s[i] ELSE 0     \* the string ends with a zero byte
getOptType(s) ==
  CASE Len(s) <= 1 \/ At(s, 1) # MINUS -> 0
    [] At(s, 2) \in Alpha -> 1
    [] OTHER -> IF At(s, 2) = MINUS /\ At(s, 3) \in Alpha THEN 2 ELSE 0

HasValue(argv, i) == i < Len(argv) /\ getOptType(argv[i + 1]) = 0

(* parseOpt at argument i: the key and value, and how many arguments they take. *)
parseOpt(argv, i) ==
  LET key == DropFirst(argv[i], getOptType(argv[i]))
      sep == SpanNotLen(key, {EQUALS}) + 1
      is(k, v, inc) == [keys |-> {k}, value |-> v, inc |-> inc]
  IN  IF getOptType(argv[i]) = 0 THEN [keys |-> {}, value |-> <<>>, inc |-> 1]
      ELSE IF sep <= Len(key) THEN is(SubSeq(key, 1, sep - 1), DropFirst(key, sep), 1)
      ELSE IF HasValue(argv, i) THEN is(key, argv[i + 1], 2)
      ELSE IF At(key, 2) \in Digits THEN is(<<key[1]>>, DropFirst(key, 1), 1)
      ELSE is(key, true, 1)

(* prepareOpts: a key that comes again overwrites the value. *)
prepareOpts(argv) ==
  LET from[i \in 1..(Len(argv) + 2)] ==         \* the options from argument i on
        IF i > Len(argv) THEN <<>>
        ELSE LET o == parseOpt(argv, i)
                 later == from[i + o.inc]
             IN  [k \in DOMAIN later \cup o.keys |->
                    IF k \in DOMAIN later THEN later[k] ELSE [value |-> o.value, used |-> FALSE]]
  IN  from[1]

Init ==
  /\ \E line \in CommandLines : meant = line.meant /\ opts = prepareOpts(line.argv)
  /\ flag = FALSE /\ suppressed = FALSE /\ asked = {} /\ pc = "running" /\ calls = 0

-----------------------------------------------------------------------------
Running == pc = "running" /\ calls < MaxCalls /\ calls' = calls + 1 /\ UNCHANGED meant

Use(key) == [opts EXCEPT ![key].used = TRUE]

has_opt(key) == Running /\ flag' = TRUE /\ UNCHANGED <<opts, suppressed, asked, pc>>

(* __testlib_keyToOpts, if the key is there. *)
Fetch(key) == opts' = Use(key) /\ asked' = asked \cup {key}

(* opt(key), of any type but bool. *)
opt(key) ==
  /\ Running /\ UNCHANGED <<flag, suppressed>>
  /\ IF key \in DOMAIN opts THEN Fetch(key) /\ UNCHANGED pc
                            ELSE pc' = "unknown" /\ UNCHANGED <<opts, asked>>

(* opt(key, default_value). *)
optDefault(key) ==
  /\ Running /\ flag' = TRUE /\ UNCHANGED <<suppressed, pc>>
  /\ IF key \in DOMAIN opts THEN Fetch(key) ELSE UNCHANGED <<opts, asked>>

(* opt<bool>(key): false if it is not there. *)
optBool(key) ==
  /\ Running /\ flag' = TRUE /\ UNCHANGED suppressed
  /\ IF key \in DOMAIN opts
       THEN /\ Fetch(key)
            /\ pc' = IF opts[key].value \in {true, false, <<48>>, <<49>>} THEN pc ELSE "nobool"
       ELSE UNCHANGED <<opts, asked, pc>>

suppressEnsureNoUnusedOpts ==
  Running /\ suppressed' = TRUE /\ UNCHANGED <<opts, flag, asked, pc>>

AllUsed == \A key \in DOMAIN opts : opts[key].used
ensureNoUnusedOpts ==
  /\ Running /\ UNCHANGED <<opts, flag, suppressed, asked>>
  /\ pc' = IF AllUsed THEN pc ELSE "unused"

(* autoEnsureNoUnusedOpts, in the destructor of TestlibFinalizeGuard. *)
Auto == flag /\ ~suppressed

End ==
  /\ pc = "running"
  /\ pc' = IF Auto /\ ~AllUsed THEN "unused" ELSE "ended"
  /\ UNCHANGED <<meant, opts, flag, suppressed, asked, calls>>

Next ==
  \/ \E key \in Keys : has_opt(key) \/ opt(key) \/ optDefault(key) \/ optBool(key)
  \/ suppressEnsureNoUnusedOpts \/ ensureNoUnusedOpts \/ End
Spec == Init /\ [][Next]_vars

-----------------------------------------------------------------------------
(* Each of the four forms of an option that the comment of parseOpt lists       *)
(* stands for its key and value, in every order they can be written in, and the *)
(* last value of a key counts.                                                  *)
OptionsAreAsMeant == [key \in DOMAIN opts |-> opts[key].value] = meant

(* "Automatic ensurement for no unused opts": a program that asks for options   *)
(* with defaults ends well only if it has asked for every option it was given,  *)
(* so a misspelt key cannot be passed over in silence.                          *)
TyposAreCaught == pc = "ended" /\ flag /\ ~suppressed => DOMAIN opts \subseteq asked

(* A program fails for an unused option only if it has not asked for one that   *)
(* was given.                                                                   *)
NoFalseAlarm == pc = "unused" => ~(DOMAIN opts \subseteq asked)
=============================================================================
