SPECIFICATION Spec
CONSTANTS
  brain = brain
  a1 = a1
  mined = mined
  Request = {r1, r2}
  Skill = {brain}
  Span = {a1, mined}
  ContentOf <- MCContentOf
  Size <- MCSize
  SeedList <- TwoSeeds
  Configs <- MCConfigs
  Prompts <- BothContents
  MaxIncidents = 1
INVARIANTS
  TypeOK
  EngineTotalIsOwn
  AnsweredMeansTraced
  CountersExact
  SeededBeforeServing
PROPERTY
  EveryRequestEnds
CHECK_DEADLOCK FALSE
