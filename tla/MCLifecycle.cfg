CONSTANTS
  Options <- BothPolicies
  Reconnect = TRUE
  Reopen = TRUE
  Threads = FALSE
  Clients = {x1}
  MaxFaults = 3
  MaxControls = 4
SPECIFICATION Spec
INVARIANTS TypeOK ClaimHeld
PROPERTIES EndsItsOwnLife ReopensPaced KeepsThePromise
CHECK_DEADLOCK FALSE
