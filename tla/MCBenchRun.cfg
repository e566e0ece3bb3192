SPECIFICATION Spec
CONSTANTS
  no_cache = no_cache
  cacheblend = cacheblend
  Cond = {no_cache, cacheblend}
  Conditions <- MCConditions
  HitLogging = {cacheblend}
  N = 2
  MaxSessions = 3
INVARIANTS
  TypeOK
  ReportCoversWorkload
PROPERTIES
  NeverRedone
  SessionEnds
CHECK_DEADLOCK FALSE
