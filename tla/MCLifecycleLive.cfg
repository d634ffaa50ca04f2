CONSTANTS
  Options <- Recycled
  Reconnect = TRUE
  Reopen = TRUE
  Threads = FALSE
  Clients = {}
  MaxFaults = 3
  MaxControls = 4
SPECIFICATION Spec
INVARIANTS OldLifeGone NeverAThird
PROPERTIES Reconnects ControlReopens ClosedEndsAll
CHECK_DEADLOCK FALSE
