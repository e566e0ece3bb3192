SPECIFICATION Spec
CONSTANTS
  unreadable = unreadable
  corrupt = corrupt
  Unreadable = unreadable
  Corrupt = corrupt
  RootName <- MCRootName
  NoLimit = NoLimit
  NCaptures = 2
  Corpora <- MCCorpora
  EvalOptions <- MCEvalOptions
  Text <- MCText
  Alike <- MCAlike
  JudgeOptions <- MCJudgeOptions
  MaxRetries = 2
  MaxSessions = 2
  MaxJudgings = 1
INVARIANTS
  TypeOK
  ParquetComplete
  JudgedSameRequest
  VerdictIsReply
  CsvAccountsForPairs
CHECK_DEADLOCK FALSE
