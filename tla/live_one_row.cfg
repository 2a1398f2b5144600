SPECIFICATION Spec
CONSTANTS
  leg = leg
  probe = probe
  emer = emer
  e1 = e1
  e2 = e2
  x = x
  Leg = leg
  Probes = {}
  Emers = {}
  Entries = {e1}
  On <- OneSymbol
  Opener <- Openers
  MaxPositions = 1
  Ttl = 1
  FreshFor = 0
  None = None
  MaxTime = 0
  MaxUpsets = 0
INVARIANTS OneRowEach
CHECK_DEADLOCK FALSE
