SPECIFICATION Spec
CONSTANTS
  Dialers = {d1, d2, d3}
  Nobody = Nobody
  Cooldown = 3
INVARIANTS TypeOK IInv
PROPERTIES DialsSpaced ClosesHeeded Served
