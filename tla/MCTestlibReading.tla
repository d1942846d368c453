-------------------------- MODULE MCTestlibReading --------------------------
(***************************************************************************)
(* The reading side of testlib.h for TLC: the three readers, the            *)
(* conversions of tokens and of option values, the patterns, InStream and   *)
(* the scorer's test results.  A behaviour is one of a single part, which   *)
(* `part' names; the variables of the others keep one value.                 *)
(***************************************************************************)
EXTENDS TestlibReaders

CONSTANT MaxFile        \* bound: bytes of a reader's file
SmallFiles == UNION {[1..n -> {97, LF}] : n \in 0..MaxFile}

VARIABLES
  word,                                 \* the token, option value or subject so far
  head, group, compiled,                \* MCPattern
  in, twin, got, twinGot, log,          \* MCInStream
  given, inf, testResults, pc           \* TestResults

Numbers == INSTANCE MCTestlibNumbers WITH
  tok <- word, TokenLength <- 5, EpsInv <- 10,
  LLONG_MIN <- -12, LLONG_MAX <- 11, ULLONG_MAX <- 21, INT_MIN <- -2, INT_MAX <- 2,
  MaxNumberLength <- 3, MaxStrictLength <- 4, FracDigits <- 2, MaxExp <- 3, HUGE_UNITS <- 100000
Values == INSTANCE MCOptValues WITH
  s <- word, T_MIN <- -120, T_MAX <- 119, MaxPart <- 20, MaxLength <- 6
Patterns == INSTANCE MCPattern WITH
  subject <- word, INT_MAX_COUNT <- 1000, MaxSubject <- 3
Streams == INSTANCE MCInStream WITH
  LLONG_MIN <- -12, LLONG_MAX <- 11, ULLONG_MAX <- 21, INT_MIN <- -1, INT_MAX <- 10,
  MaxNumberLength <- 3, MaxStrictLength <- 4, FracDigits <- 2, MaxExp <- 3, HUGE_UNITS <- 100000,
  MaxTokenLength <- 3, MaxFileSize <- 10, MaxText <- 5
Results == INSTANCE TestResults WITH
  LLONG_MIN <- -12, LLONG_MAX <- 11, ULLONG_MAX <- 21, INT_MIN <- -1, INT_MAX <- 10,
  MaxNumberLength <- 3, MaxStrictLength <- 4, FracDigits <- 3, MaxExp <- 3,
  HUGE_UNITS <- 100000000, MaxTokenLength <- 100, MaxFileSize <- 1000,
  MaxText <- 2

ASSUME PartsAssumption == Values!OptValuesAssumption

patternVars == <<head, group, compiled>>
streamVars == <<in, twin, got, twinGot, log>>
resultVars == <<given, inf, testResults, pc>>
readingVars == <<readersVars, word, patternVars, streamVars, resultVars>>

NoPattern == head = 0 /\ group = 0 /\ compiled = 0
NoStream == in = 0 /\ twin = 0 /\ got = 0 /\ twinGot = 0 /\ log = 0
NoResults == given = 0 /\ inf = 0 /\ testResults = 0 /\ pc = 0
NoReader == NoBuffer /\ NoFile /\ pos = 0
NoCaller == taken = <<>> /\ last = [op |-> "open", c |-> 0] /\ failed = FALSE
NoWord == word = <<>>

ReadingInit ==
  \/ ReadersInit /\ NoWord /\ NoPattern /\ NoStream /\ NoResults
  \/ part = "stream" /\ Streams!Init /\ NoReader /\ NoCaller /\ NoWord /\ NoPattern /\ NoResults
  \/ /\ file = <<>> /\ NoReader /\ NoCaller /\ NoStream
     /\ \/ part = "number" /\ Numbers!Init /\ NoPattern /\ NoResults
        \/ part = "value" /\ Values!Init /\ NoPattern /\ NoResults
        \/ part = "pattern" /\ Patterns!Init /\ NoResults
        \/ part = "results" /\ Results!Init /\ NoPattern /\ NoWord

ReadingNext ==
  \/ ReadersNext /\ UNCHANGED <<word, patternVars, streamVars, resultVars>>
  \/ /\ part = "stream" /\ Streams!Next
     /\ UNCHANGED <<part, bufferVars, fileVars, pos, taken, last, failed, word, patternVars, resultVars>>
  \/ /\ UNCHANGED <<readersVars, streamVars>>
     /\ \/ part = "number" /\ Numbers!Next /\ UNCHANGED <<patternVars, resultVars>>
        \/ part = "value" /\ Values!Next /\ UNCHANGED <<patternVars, resultVars>>
        \/ part = "pattern" /\ Patterns!Next /\ UNCHANGED resultVars
        \/ part = "results" /\ Results!Next /\ UNCHANGED <<patternVars, word>>

ReadingSpec == ReadingInit /\ [][ReadingNext]_readingVars

-----------------------------------------------------------------------------
(* A token stands for what its text says: the conversions of numbers accept    *)
(* the canonical numerals in range and nothing else, doubleCompare bounds the   *)
(* lesser of absolute and relative error, the value of an option is the number  *)
(* its numeral denotes, and the greedy matcher accepts strings of the pattern's *)
(* language only (all of them if no item takes what a later one needs), which   *)
(* are the strings pattern::next generates.                                      *)
TokensMeanTheirText ==
  /\ part = "number" => /\ Numbers!LongIsCanonical /\ Numbers!UnsignedIsCanonical
                        /\ Numbers!StrictDoubleIsCanonical /\ Numbers!CompareIsErrorBound
  /\ part = "value" => Values!LongDoubleIsExact /\ Values!IntegralIsExact
  /\ part = "pattern" => /\ Patterns!GreedyIsSound /\ Patterns!GreedyIsComplete
                         /\ Patterns!GeneratesTheLanguage

(* InStream loses nothing: in the strict mode the calls return the consumed     *)
(* text to the byte, in the ordinary mode they skip blanks only and read        *)
(* Windows line ends as Unix ones, readInts returns the numbers of a row; and   *)
(* the scorer reads back the results that were written.                          *)
StreamsLoseNothing ==
  /\ part = "stream" => /\ Streams!StrictReadsEverything /\ Streams!OnlyBlanksAreSkipped
                        /\ Streams!LineEndsDoNotMatter /\ Streams!IntsAreTheTokens
  /\ part = "results" => Results!ResultsComeBack
=============================================================================
