CONSTANTS
  None = None
  REDACTED = REDACTED
  Rigs <- MCRigs
  Morph = 300
  Secret <- MCSecret
  Tick = 7
  Residue <- MCResidue
  ReadSizes = {11, 1000}
  TailSizes = {0, 3}
  Capacity = 64
  Subscribers = {s1, s2}
  MaxLoads = 1
SPECIFICATION Spec
INVARIANTS Reassembled SettlesOnDevice NavigatorTold FetchAnswers
CHECK_DEADLOCK FALSE
