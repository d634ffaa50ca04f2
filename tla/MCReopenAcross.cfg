CONSTANTS
  Options <- Plain
  Reconnect = TRUE
  Reopen = FALSE
  Threads = FALSE
  Clients = {x1}
  MaxFaults = 2
  MaxControls = 3
SPECIFICATION Spec
INVARIANTS OldLifeGone
CHECK_DEADLOCK FALSE
