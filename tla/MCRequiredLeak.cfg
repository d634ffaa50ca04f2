CONSTANTS
  Options <- Required
  Reconnect = TRUE
  Reopen = FALSE
  Threads = FALSE
  Clients = {}
  MaxFaults = 2
  MaxControls = 3
SPECIFICATION Spec
PROPERTIES ClosedEndsAll
CHECK_DEADLOCK FALSE
