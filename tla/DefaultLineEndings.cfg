SPECIFICATION Spec
CONSTANTS
  LLONG_MIN <- MCLongMin
  INT_MIN <- MCIntMin
  LLONG_MAX = 11
  ULLONG_MAX = 21
  INT_MAX = 10
  MaxNumberLength = 3
  MaxStrictLength = 4
  FracDigits = 2
  MaxExp = 3
  HUGE_UNITS = 100000
  INT_MAX_COUNT = 1000
  MaxTokenLength = 3
  MaxFileSize = 7
  Eps4Inv = 1
  Eps6Inv = 10
  Eps9Inv = 100
  Checkers = {"default"}
  MaxPieces = 3
  LoneCR = TRUE
INVARIANT TrailingIsIgnored
