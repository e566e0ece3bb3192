SPECIFICATION Spec
CONSTANTS
  Writer = {w1, w2}
  Id = {i1, i2, i3}
  Record <- MCRecord
INVARIANTS
  TypeOK
  RowsReadable
  RewriteStable
PROPERTY
  ImplementsLog
CHECK_DEADLOCK FALSE
