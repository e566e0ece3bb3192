SPECIFICATION Spec
CONSTANTS
  t1 = t1
  t2 = t2
  ToolIndex = {t1, t2}
  Counts = {"final"}
  Reasons = {"tool_calls"}
  Chunks <- MCChunks
  MaxChunks = 3
INVARIANTS
  TypeOK
  OneBlockPerSource
  PiecesDelivered
PROPERTY
  ImplementsStream
CHECK_DEADLOCK FALSE
