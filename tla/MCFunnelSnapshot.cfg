SPECIFICATION Spec
CONSTANTS
  rig = rig
  morph = morph
  strobe = strobe
  EndRun = EndRun
  Addresses = {rig, morph, strobe}
  Wire <- Rows
  Slow <- SlowRows
  Plan <- TwoSections
  DumpEndRuns = 2
  MaxChanges = 2
  MaxInFlight = 2
  MaxOpens = 1
INVARIANTS NothingLost
