CONSTANTS
  Rig <- MCRig
  None = None
  Callers = {c1}
  Links = {stream}
  SETTLE = 2
  WINDOW = 1
  COOLDOWN = 2
  QUEUE = 2
  MaxEpoch = 2
  Stalls = FALSE
SPECIFICATION Spec
INVARIANTS TypeOK IInv NeverWedged MirrorAgrees
PROPERTIES LoadsPaced NothingForgotten WindowHonoured AimResolves
CHECK_DEADLOCK FALSE
