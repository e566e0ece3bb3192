SPECIFICATION Spec
CONSTANTS
  no_cache = no_cache
  cacheblend = cacheblend
  Cond = {no_cache, cacheblend}
  Conditions <- MCConditions
  HitLogging = {cacheblend}
  N = 2
  MaxSessions = 2
INVARIANT
  PartialIsRedone
CHECK_DEADLOCK FALSE
