------------------------- MODULE MCTestlibPrograms -------------------------
(***************************************************************************)
(* The programs written with testlib.h for TLC: the bundled checkers, the   *)
(* life of any program, what a validator notes and which texts it cuts out, *)
(* and the options, random numbers and random shapes of a generator.  A     *)
(* behaviour is one of a single part, which `part' names; the variables of   *)
(* the others keep one value.                                                *)
(***************************************************************************)
EXTENDS MCTestlibProgram

CONSTANTS OptLines,     \* the command lines of TestlibOpts
          MaxSize       \* bound: the sizes RandomShapes is asked for

VARIABLES
  part,
  checker, ans, ouf, expected, found, extraInAns, extraInOuf, exit,     \* BundledCheckers
  boundsHit, constantBounds, variables, features, hitFeatures, failed,  \* Validator
  readChars, zeroBased, reads, texts,
  meant, opts, flag, suppressed, asked,                                 \* TestlibOpts
  seed, version, value,                                                 \* RandomNext
  call, want, perm, result, draws, stage,                               \* RandomShapes
  pc, calls                                                             \* of several parts

Checkers == INSTANCE MCBundledCheckers WITH
  MaxFileSize <- 7, Eps4Inv <- 1, Eps6Inv <- 10, Eps9Inv <- 100, INT_MAX_COUNT <- 1000, MaxPieces <- 3, LoneCR <- FALSE,
  Checkers <- {"wcmp", "ncmp", "nyesno", "yesno", "hcmp", "rcmp4", "rcmp6", "rcmp9", "default",
               "fcmp", "lcmp"}

(* n, ~n, n~, m, the lone tildes, and a name with a digit *)
SomeNames == {<<110>>, <<126, 110>>, <<110, 126>>, <<109>>, <<126, 126>>, <<110, 49>>}
Notes == INSTANCE Validator WITH
  Names <- SomeNames, Features <- {<<102>>, <<102, 10>>}, Values <- {1, 2, 3}, WideValues <- {3},
  TestCases <- {}, VALIDATOR_MAX_VARIABLE_COUNT <- 2, MaxCalls <- 3
Cuts == INSTANCE Validator WITH
  Names <- {}, Features <- {}, Values <- {}, WideValues <- {},
  TestCases <- {0, 1, 2}, VALIDATOR_MAX_VARIABLE_COUNT <- 2, MaxCalls <- 6

Words == INSTANCE TestlibOpts WITH CommandLines <- {}, Keys <- {}, MaxCalls <- 0
Opts == INSTANCE TestlibOpts WITH
  CommandLines <- OptLines, Keys <- {<<97>>, <<97, 98>>, <<99>>}, MaxCalls <- 3

(* Command lines put together from options of the four forms and arguments that *)
(* are no options.                                                             *)
KeyA == <<97>>
KeyAB == <<97, 98>>
KeyB == <<98>>

WrittenAs(words, key, val, open) == [words |-> words, map |-> [k \in {key} |-> val], open |-> open]
(* open: the option would take an argument that is no option as its value. *)
OptForms ==
     {WrittenAs(<<dash \o key \o <<Words!EQUALS>> \o v>>, key, v, FALSE) :
        dash \in {<<MINUS>>, <<MINUS, MINUS>>}, key \in {KeyA, KeyAB}, v \in {<<>>, <<49>>, <<Words!EQUALS>>, <<MINUS, 97>>}}
  \cup {WrittenAs(<<<<MINUS>> \o key, v>>, key, v, FALSE) : key \in {KeyA, KeyAB}, v \in {<<49>>, <<MINUS, 49>>, <<MINUS>>, KeyB}}
  \cup {WrittenAs(<<<<MINUS>> \o key \o v>>, key, v, TRUE) : key \in {KeyA}, v \in {<<49>>, <<48, 98>>}}
  \cup {WrittenAs(<<<<MINUS, MINUS>> \o key>>, key, Words!true, TRUE) : key \in {KeyA, KeyAB}}
PlainWord == [words |-> <<KeyB>>, map |-> <<>>, open |-> FALSE]

(* The values of two maps, those of the second one first. *)
Overriding(m, n) == [k \in DOMAIN m \cup DOMAIN n |-> IF k \in DOMAIN n THEN n[k] ELSE m[k]]
SomeOptLines ==
  {[meant |-> <<>>, argv |-> <<>>]}
    \cup {[meant |-> i.map, argv |-> i.words] : i \in OptForms \cup {PlainWord}}
    \cup {[meant |-> Overriding(l[1].map, l[2].map), argv |-> l[1].words \o l[2].words] :
            l \in {q \in (OptForms \cup {PlainWord}) \X (OptForms \cup {PlainWord}) : q[2] = PlainWord => ~q[1].open}}

(* Every seed of the reduced generator is the hash of one of these texts; a     *)
(* long long of the reduced width is -128..127.                                 *)
SeedTexts == {<<>>} \cup {<<<<a>>>> : a \in 0..63} \cup {<<<<a, b>>, <<>>>> : a, b \in 0..3}
Random == INSTANCE RandomNext WITH
  SEED_BITS <- 6, INT_BITS <- 3, multiplier <- 13, addend <- 11, Versions <- {0, 1},
  InitialSeed <- 5, MaxN <- 7, RangeEnds <- {-128, -3, 2, 127}, Texts <- SeedTexts, MaxCalls <- 1

Shape(op, size, from, to, min) == [op |-> op, size |-> size, from |-> from, to |-> to, min |-> min]
SomeShapes ==
  {Shape("perm", size, from, 0, 0) : size \in -1..MaxSize, from \in {-2, 0}}
    \cup {Shape("distinct", size, from, to, 0) : size \in -1..MaxSize, from \in {0, 2}, to \in 0..6}
    \cup {Shape("partition", size, 0, sum, min) : size \in -1..MaxSize, sum \in -1..8, min \in -1..2}
    \cup {Shape("partition", MaxSize + 1, 0, sum, 1) : sum \in MaxSize..MaxSize + 2}
    \cup {Shape("wnext", size, 0, type, 0) : size \in 0..3, type \in -3..3}
Shapes == INSTANCE RandomShapes WITH
  p <- perm, Calls <- SomeShapes, PermLimit <- 4, lim <- 3, Precision <- 4, MaxDraws <- 4

ASSUME PartsAssumption ==
  /\ Notes!ValidatorAssumption /\ Cuts!ValidatorAssumption /\ Random!RandomAssumption

-----------------------------------------------------------------------------
checkerVars == <<checker, ans, ouf, expected, found, extraInAns, extraInOuf, exit>>
lifeVars == <<args, left, p>>
validatorVars == <<boundsHit, constantBounds, variables, features, hitFeatures, failed, readChars,
                   zeroBased, reads, texts>>
optVars == <<meant, opts, flag, suppressed, asked>>
randomVars == <<seed, version, value>>
shapeVars == <<want, perm, result, draws, stage>>
programVars == <<part, checkerVars, files, lifeVars, validatorVars, optVars, randomVars, call,
                 shapeVars, pc, calls>>

NoChecker == /\ checker = 0 /\ ans = 0 /\ ouf = 0 /\ expected = 0 /\ found = 0
             /\ extraInAns = 0 /\ extraInOuf = 0 /\ exit = 0
NoLife == args = 0 /\ left = 0 /\ p = NoProcess
NoValidator == /\ boundsHit = 0 /\ constantBounds = 0 /\ variables = 0 /\ features = 0
               /\ hitFeatures = 0 /\ failed = 0 /\ readChars = 0 /\ zeroBased = 0
               /\ reads = 0 /\ texts = 0
NoOpts == meant = 0 /\ opts = 0 /\ flag = 0 /\ suppressed = 0 /\ asked = 0
NoRandom == seed = 0 /\ version = 0 /\ value = 0
NoShape == want = 0 /\ perm = 0 /\ result = 0 /\ draws = 0 /\ stage = 0
NoGenerator == NoOpts /\ NoRandom /\ NoShape /\ call = 0

ProgramsInit ==
  \/ part = "checker" /\ Checkers!Init /\ NoLife /\ NoValidator /\ NoGenerator /\ calls = 0
  \/ part = "program" /\ Init /\ NoChecker /\ NoValidator /\ NoGenerator /\ pc = "none" /\ calls = 0
  \/ /\ NoChecker /\ NoLife /\ files = 0
     /\ \/ part = "notes" /\ Notes!Init /\ NoGenerator /\ pc = "none"
        \/ part = "texts" /\ Cuts!Init /\ NoGenerator /\ pc = "none"
        \/ part = "opts" /\ Opts!Init /\ NoValidator /\ NoRandom /\ NoShape /\ call = 0
        \/ part = "random" /\ Random!Init /\ NoValidator /\ NoOpts /\ NoShape
        \/ part = "shapes" /\ Shapes!Init /\ NoValidator /\ NoOpts /\ NoRandom /\ pc = "none" /\ calls = 0

ReadersStay == UNCHANGED <<part, checkerVars, lifeVars, files>>
GeneratorsStay == UNCHANGED <<optVars, randomVars, call, shapeVars>>

CheckerStep == /\ part = "checker" /\ Checkers!Next
               /\ GeneratorsStay /\ UNCHANGED <<part, lifeVars, validatorVars, calls>>
ProgramStep == /\ part = "program" /\ Next
               /\ GeneratorsStay /\ UNCHANGED <<part, checkerVars, validatorVars, pc, calls>>
NotesStep == part = "notes" /\ Notes!Next /\ ReadersStay /\ GeneratorsStay /\ UNCHANGED pc
TextsStep == part = "texts" /\ Cuts!Next /\ ReadersStay /\ GeneratorsStay /\ UNCHANGED pc
OptsStep == /\ part = "opts" /\ Opts!Next
            /\ ReadersStay /\ UNCHANGED <<validatorVars, randomVars, call, shapeVars>>
InRandom == /\ part = "random"
            /\ ReadersStay /\ UNCHANGED <<validatorVars, optVars, shapeVars>>
RandomStep == InRandom /\ Random!Next
ShapesStep == /\ part = "shapes" /\ Shapes!Next
              /\ ReadersStay /\ UNCHANGED <<validatorVars, optVars, randomVars, pc, calls>>

(* The bounds stop the parts but for the checkers and the life of a program.   *)
Rest == part \notin {"checker", "program"} /\ UNCHANGED programVars

ProgramsNext == \/ CheckerStep \/ ProgramStep \/ NotesStep \/ TextsStep \/ OptsStep
                \/ RandomStep \/ ShapesStep \/ Rest

(* A generator that has begun to draw goes on.                                 *)
ProgramsSpec == /\ ProgramsInit /\ [][ProgramsNext]_programVars
                /\ WF_programVars(InRandom /\ Random!Draw)

-----------------------------------------------------------------------------
(* A bundled checker accepts exactly what agrees in its sense, fails only for   *)
(* an answer file that is not valid, and blames the format only of an output    *)
(* of another form.                                                              *)
CheckersJudgeRight ==
  part = "checker" => /\ Checkers!AcceptsWhatAgrees
                      /\ Checkers!FailureIsTheAnswers
                      /\ Checkers!FormatErrorIsTheOutputs


(* A generator gets what it asks for: the options that were meant, a failure     *)
(* for an unused one exactly if there is one, random values in their range and   *)
(* without bias, and shapes that keep what the comments of perm, distinct,       *)
(* partition and wnext promise, or a failure if nothing fits the call or if too  *)
(* many numbers would have to be permuted for it.                                *)
GeneratorsGetWhatTheyAsk ==
  /\ part = "opts" => Opts!OptionsAreAsMeant /\ Opts!TyposAreCaught /\ Opts!NoFalseAlarm
  /\ part = "random" => Random!ValueIsInRange /\ Random!Unbiased
  /\ part = "shapes" => /\ Shapes!OutcomeFits /\ Shapes!FailsOnlyIfItMust
                        /\ Shapes!PermutationsAreEquallyLikely

(* Programs come to their end: each iteration of a bundled checker brings it     *)
(* closer to its quit, the rejection loop of next ends from every seed, and no   *)
(* destructor that runs at the end turns a failure into a success.               *)
ProgramsEnd ==
  /\ [][part = "checker" => Checkers!Advances]_programVars
  /\ [][part = "program" => FailureStays]_programVars
  /\ part = "random" /\ pc = "drawing" ~> pc = "idle"
=============================================================================
