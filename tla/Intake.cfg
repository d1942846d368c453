SPECIFICATION MCSpec
CONSTANTS
  r1 = r1
  r2 = r2
  Requests = {r1, r2}
  Forms <- AllForms
  Files <- MCFiles
  Builtins <- MCBuiltins
  CppNames = {"c.cpp"}
  Languages = {"C"}
  MaxCases = 2
  MaxJudges = 1
  MaxVersion = 2
INVARIANTS
  RequestIsTakenByTheRules
  FilesAreCoherent
