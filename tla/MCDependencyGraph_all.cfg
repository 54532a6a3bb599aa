SPECIFICATION FairSearchSpec
CONSTANTS
  Nodes = {a, b, c}
INVARIANTS VerdictRight
PROPERTIES Terminates
CHECK_DEADLOCK FALSE
