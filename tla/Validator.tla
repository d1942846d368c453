------------------------------ MODULE Validator ------------------------------
(***************************************************************************)
(* The class Validator of testlib.h: what a validator notes while it reads  *)
(* a test (bounds that were hit, bounds that never changed, variables,      *)
(* features) and the texts of single test cases that it cuts out of the      *)
(* characters read.  Names are sequences of bytes.                           *)
(***************************************************************************)
EXTENDS TestlibChars

CONSTANTS Names, Features,      \* names of variables and of features
          Values,               \* the numbers a test may hold
          WideValues,           \* those whose decimal form has 32 characters or more
          TestCases,            \* arguments of setTestCase
          VALIDATOR_MAX_VARIABLE_COUNT,
          MaxCalls              \* bound: calls of a run

ValidatorAssumption ==
  /\ VALIDATOR_MAX_VARIABLE_COUNT \in Nat \ {0} /\ MaxCalls \in Nat
  /\ Values \subseteq Int /\ WideValues \subseteq Values /\ TestCases \subseteq Nat

VARIABLES
  boundsHit,            \* _boundsHitByVariableName
  constantBounds,       \* _constantBoundsByVariableName
  variables, features, hitFeatures,
  failed,               \* __testlib_fail was called
  readChars,            \* the reader's: characters, and 256 + t for test case t
  zeroBased,            \* setTestCase's statics: "unset" before the first call
  reads,                \* history: the ranged reads, a set of [name, v, minv, maxv],
                        \* up to the one that names the last variable there is room for
  texts,                \* history: the characters read after each setTestCase
  calls                 \* how many calls have been made, for the bound

vars == <<boundsHit, constantBounds, variables, features, hitFeatures, failed, readChars,
          zeroBased, reads, texts, calls>>

TILDE == 126
EOF == -1

NoBound == [value |-> {}, broken |-> FALSE]
Init ==
  /\ boundsHit = <<>> /\ constantBounds = <<>>
  /\ variables = {} /\ features = {} /\ hitFeatures = {} /\ failed = FALSE
  /\ readChars = <<>> /\ zeroBased = "unset"
  /\ reads = {} /\ texts = <<>> /\ calls = 0

-----------------------------------------------------------------------------
isVariableNameBoundsAnalyzable(name) ==
  \A i \in 1..Len(name) : name[i] \notin Digits /\ name[i] >= SPACE
isFeatureNameAnalyzable(name) == \A i \in 1..Len(name) : name[i] >= SPACE

(* A tilde before (after) a name: its lower (upper) bound need not be hit. *)
Marked(name) == Len(name) >= 2 /\ name # <<TILDE, TILDE>>
ignoreMinBound(name) == Marked(name) /\ name[1] = TILDE
ignoreMaxBound(name) == Marked(name) /\ name[Len(name)] = TILDE
prepVariableName(name) ==
  SubSeq(name, IF ignoreMinBound(name) THEN 2 ELSE 1,
               IF ignoreMaxBound(name) THEN Len(name) - 1 ELSE Len(name))

(* The entry of a map, made when it is first asked for. *)
Entry(map, key, default) == IF key \in DOMAIN map THEN map[key] ELSE default
With(map, key, value) == [k \in DOMAIN map \cup {key} |-> IF k = key THEN value ELSE map[k]]

merge(hit, old, ignoreMin, ignoreMax) ==
  [min |-> hit.min \/ old.min \/ ignoreMin, max |-> hit.max \/ old.max \/ ignoreMax]

(* Each of the three notes is dropped when its table is full, also for a       *)
(* variable that is in the table.                                               *)
Noted(table, name) ==
  isVariableNameBoundsAnalyzable(name) /\ Cardinality(table) < VALIDATOR_MAX_VARIABLE_COUNT

addBoundsHit(name, hit) ==
  LET key == prepVariableName(name)
  IN  IF ~Noted(DOMAIN boundsHit, name) THEN boundsHit
      ELSE With(boundsHit, key,
                merge(hit, Entry(boundsHit, key, [min |-> FALSE, max |-> FALSE]),
                      ignoreMinBound(name), ignoreMaxBound(name)))

addVariable(name) ==
  IF Noted(variables, name) THEN variables \cup {prepVariableName(name)} ELSE variables

(* ConstantBound::adjust; an empty value is {}. *)
adjust(b, t) ==
  IF t \in WideValues \/ b.broken \/ b.value \notin {{}, {t}}
    THEN [value |-> {}, broken |-> TRUE]
    ELSE [b EXCEPT !.value = {t}]
has_value(b) == b.value # {} /\ ~b.broken

adjustConstantBounds(name, lower, upper) ==
  LET key == prepVariableName(name)
      old == Entry(constantBounds, key, [lower |-> NoBound, upper |-> NoBound])
  IN  IF ~Noted(DOMAIN constantBounds, name) THEN constantBounds
      ELSE With(constantBounds, key, [lower |-> adjust(old.lower, lower),
                                      upper |-> adjust(old.upper, upper)])

-----------------------------------------------------------------------------
(* The variables of some ranged reads. *)
KeysOf(rs) == {prepVariableName(r.name) : r \in {q \in rs : isVariableNameBoundsAnalyzable(q.name)}}

Running == ~failed /\ calls < MaxCalls /\ calls' = calls + 1
Text == <<readChars, zeroBased, texts>>

(* The end of readInt(minv, maxv, name) and its relatives, in the strict mode, *)
(* for a value in the range.                                                    *)
ReadInRange(name, v, minv, maxv) ==
  /\ Running /\ v \in minv..maxv
  /\ boundsHit' = addBoundsHit(name, [min |-> minv = v, max |-> maxv = v])
  /\ constantBounds' = adjustConstantBounds(name, minv, maxv)
  /\ variables' = addVariable(name)
  /\ reads' = IF Cardinality(KeysOf(reads)) = VALIDATOR_MAX_VARIABLE_COUNT THEN reads
              ELSE reads \cup {[name |-> name, v |-> v, minv |-> minv, maxv |-> maxv]}
  /\ UNCHANGED <<features, hitFeatures, failed, Text>>

(* A read without a range, of a word or a line. *)
ReadNamed(name) ==
  /\ Running
  /\ variables' = addVariable(name)
  /\ UNCHANGED <<boundsHit, constantBounds, features, hitFeatures, failed, reads, Text>>

addFeature(f) ==
  /\ Running
  /\ IF f \in features \/ ~isFeatureNameAnalyzable(f)
       THEN failed' = TRUE /\ UNCHANGED features
       ELSE features' = features \cup {f} /\ UNCHANGED failed
  /\ UNCHANGED <<boundsHit, constantBounds, variables, hitFeatures, reads, Text>>

feature(f) ==
  /\ Running
  /\ IF ~isFeatureNameAnalyzable(f) \/ f \notin features
       THEN failed' = TRUE /\ UNCHANGED hitFeatures
       ELSE hitFeatures' = hitFeatures \cup {f} /\ UNCHANGED failed
  /\ UNCHANGED <<boundsHit, constantBounds, variables, features, reads, Text>>

-----------------------------------------------------------------------------
Notes == <<boundsHit, constantBounds, variables, features, hitFeatures, failed, reads>>

(* The four parts of the overview log, as sets of lines. *)
getBoundsHitLog ==
  {[name |-> k, min |-> boundsHit[k].min, max |-> boundsHit[k].max] : k \in DOMAIN boundsHit}
Logged(b) == IF has_value(b) THEN b.value ELSE {}       \* "?" is {}
getConstantBoundsLog ==
  {[name |-> k, lower |-> Logged(constantBounds[k].lower), upper |-> Logged(constantBounds[k].upper)] :
     k \in {key \in DOMAIN constantBounds : \E b \in {"lower", "upper"} :
              has_value(constantBounds[key][b])}}
getFeaturesLog == {[name |-> f, hit |-> f \in hitFeatures] : f \in features}
getVariablesLog == variables

(* The reader reads a character; EOF only ends a text. *)
ReadChar(c) ==
  /\ Running /\ (readChars # <<>> => readChars[Len(readChars)] # EOF)
  /\ readChars' = Append(readChars, c)
  /\ texts' = IF texts = <<>> \/ c = EOF THEN texts
              ELSE [texts EXCEPT ![Len(texts)].text = Append(@, c)]
  /\ UNCHANGED <<Notes, zeroBased>>

(* setTestCase(t): if the first call says 0, all numbers are one too low. *)
setTestCase(t) ==
  LET zero == IF zeroBased = "unset" THEN (IF t = 0 THEN "yes" ELSE "no") ELSE zeroBased
      testCase == IF zero = "yes" THEN t + 1 ELSE t
  IN  /\ Running /\ (readChars # <<>> => readChars[Len(readChars)] # EOF)
      /\ zeroBased' = zero
      /\ readChars' = Append(readChars, testCase + 256)
      /\ texts' = Append(texts, [case |-> testCase, text |-> <<>>])
      /\ UNCHANGED Notes

(* The characters of readChars as writeTestCase and writeTestMarkup see them. *)
Visible == IF readChars # <<>> /\ readChars[Len(readChars)] = EOF
             THEN SubSeq(readChars, 1, Len(readChars) - 1) ELSE readChars

(* Mutant: a matched text is not closed by the next mark. *)
MutantMark(s, c, wanted) ==
  [found |-> s.found, content |-> IF s.matched THEN s.content ELSE <<>>,
   matched |-> s.matched \/ c - 256 = wanted]

(* writeTestCase at a mark. *)
AtMark(s, c, wanted) ==
  [found |-> IF s.matched THEN s.content ELSE s.found,
   content |-> <<>>,
   matched |-> c - 256 = wanted]

(* The loop of writeTestCase, for --testCase wanted: testCaseContent. *)
writeTestCase(wanted) ==
  LET s[i \in 0..Len(Visible)] ==
        IF i = 0 THEN [found |-> <<>>, content |-> <<>>, matched |-> FALSE]
        ELSE LET before == s[i - 1]
                 c == Visible[i]
             IN  IF c <= 256 THEN [before EXCEPT !.content = Append(@, c % 256)]
                             ELSE AtMark(before, c, wanted)
      end == s[Len(Visible)]
  IN  IF end.matched THEN end.content ELSE end.found

(* writeTestMarkup, as a sequence of characters and of tags <<t>>: backslash   *)
(* and exclamation mark are quoted.                                             *)
writeTestMarkup ==
  LET out[i \in 0..Len(Visible)] ==
        IF i = 0 THEN <<>>
        ELSE LET c == Visible[i]
             IN  out[i - 1] \o (IF c > 256 THEN <<[tag |-> c - 256]>>
                                ELSE IF c % 256 \in {92, 33} THEN <<[char |-> 92], [char |-> c % 256]>>
                                ELSE <<[char |-> c % 256]>>)
  IN  out[Len(Visible)]

-----------------------------------------------------------------------------
Next ==
  \/ \E name \in Names, v, minv, maxv \in Values : ReadInRange(name, v, minv, maxv)
  \/ \E name \in Names : ReadNamed(name)
  \/ \E f \in Features : addFeature(f) \/ feature(f)
  \/ \E c \in {97, 33, EOF} : ReadChar(c)
  \/ \E t \in TestCases : setTestCase(t)
Spec == Init /\ [][Next]_vars

-----------------------------------------------------------------------------
ReadsOf(key) ==
  {r \in reads :
     isVariableNameBoundsAnalyzable(r.name) /\ prepVariableName(r.name) = key}
MinWasHit(key) == \E r \in ReadsOf(key) : r.v = r.minv \/ ignoreMinBound(r.name)
MaxWasHit(key) == \E r \in ReadsOf(key) : r.v = r.maxv \/ ignoreMaxBound(r.name)
NotFull(table) == Cardinality(table) < VALIDATOR_MAX_VARIABLE_COUNT

(* The overview log names the variables that were read in a range and says a    *)
(* bound was hit exactly if some value hit it, under whichever marks the         *)
(* variable was read, all of it for the reads up to the one that brings the      *)
(* last variable there is room for: that one counts and none after it.           *)
HitsAreExact ==
  getBoundsHitLog =
    {[name |-> key, min |-> MinWasHit(key), max |-> MaxWasHit(key)] : key \in KeysOf(reads)}

(* A bound is logged as constant exactly if every one of these reads of the     *)
(* variable gave that bound and its decimal form is short, however often it      *)
(* changed back and forth.                                                       *)
TheOnly(bounds) == IF Cardinality(bounds) = 1 THEN bounds \ WideValues ELSE {}
ConstantIsConstant ==
  getConstantBoundsLog =
    {line \in {[name |-> key,
                lower |-> TheOnly({r.minv : r \in ReadsOf(key)}),
                upper |-> TheOnly({r.maxv : r \in ReadsOf(key)})] : key \in KeysOf(reads)} :
       line.lower # {} \/ line.upper # {}}

(* The features logged are those that were registered, and one is logged as hit *)
(* only if it was registered before; every variable with a logged bound is       *)
(* logged as a variable too, unless that table had filled up first.              *)
LogsFitTogether ==
  /\ \A line \in getFeaturesLog : isFeatureNameAnalyzable(line.name)
  /\ hitFeatures \subseteq features
  /\ \A line \in getBoundsHitLog : NotFull(getVariablesLog) => line.name \in getVariablesLog

(* The test case cut out of the test is what the validator read after it       *)
(* announced that test case for the last time, up to the next announcement.     *)
(* Test case 0, if others were announced before it, is no announcement to the   *)
(* writers: its mark is 256, which they take for a character, the byte 0.        *)
TestCaseIsItsText ==
  LET n == Len(texts)
      zeros[k \in 0..(n - 1)] ==          \* the announcements of 0 that follow texts[n - k]
        IF k = 0 THEN <<>>
        ELSE LET next == texts[n - k + 1]
             IN  IF next.case > 0 THEN <<>> ELSE <<0>> \o next.text \o zeros[k - 1]
  IN  \A i \in 1..n :
        texts[i].case > 0 /\ (\A j \in (i + 1)..n : texts[j].case # texts[i].case)
          => writeTestCase(texts[i].case) = texts[i].text \o zeros[n - i]

(* The markup without its tags and quotes is the text that was read, with the   *)
(* byte 0 for an announcement of test case 0.  A quoting backslash is one before *)
(* a backslash or an exclamation mark.                                           *)
MarkupIsTheText ==
  LET m == writeTestMarkup
      plain[i \in 0..Len(m)] ==
        IF i = 0 THEN <<>>
        ELSE IF "tag" \in DOMAIN m[i] \/ (m[i].char = 92 /\ i < Len(m)) THEN plain[i - 1]
        ELSE Append(plain[i - 1], m[i].char)
      text == SelectSeq(readChars, LAMBDA c : c \in 0..256)
  IN  plain[Len(m)] = [i \in 1..Len(text) |-> text[i] % 256]
=============================================================================
