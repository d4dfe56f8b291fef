CONSTANTS
  Sessions = {s1, s2}
  Statements <- MCStatements
  InitialLogs <- MCLogs
  Prompts <- MCPrompts
  Alphabet <- MCAlphabet
  MaxStatements = 3
  MaxCrashes = 1
  Faults = {"fail"}
  Expressions = {"lower(n)"}
  TwoTo64 = 256
  Length <- MCLength
SYMMETRY Symmetry
SPECIFICATION ASpec
CHECK_DEADLOCK FALSE
INVARIANTS
  NamesAndIdsAgree
  LogIsTheDatabase
  IndexesAreLogged
  RowIdIsTheKey
  IndexesCoverRows
  AssistantIsUnderstood
  WritesMeanWhatTheySay
