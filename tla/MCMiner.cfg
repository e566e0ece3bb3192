SPECIFICATION Spec
CONSTANTS
  Corpora <- MCCorpora
  Label <- MCLabel
  LengthFloor = 2
  FrequencyFloor = 2
  ShingleWidth = 2
  NearDedup = TRUE
INVARIANTS
  TypeOK
  KasaiNeverOvershoots
  StackIntervals
  CandidatesExact
  EveryRepeatCovered
CHECK_DEADLOCK FALSE
