SPECIFICATION ProgramsSpec
CONSTANTS
  LLONG_MIN <- MCLongMin
  INT_MIN <- MCIntMin
  LLONG_MAX = 11
  ULLONG_MAX = 21
  INT_MAX = 10
  MaxNumberLength = 3
  MaxStrictLength = 4
  FracDigits = 2
  MaxExp = 3
  HUGE_UNITS = 100000
  MaxTokenLength = 3
  MaxFileSize = 4
  Inputs <- MCInputs
  Outputs <- MCOutputs
  Answers <- MCAnswers
  CommandLines <- MCCommandLines
  Results <- MCResults
  Kinds = {"checker", "interactor", "validator", "scorer", "generator"}
  OptLines <- SomeOptLines
  MaxSize = 4
INVARIANTS
  CheckersJudgeRight
  ExitIsEarned
  
  GeneratorsGetWhatTheyAsk
PROPERTIES
  ProgramsEnd
