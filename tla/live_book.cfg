SPECIFICATION Spec
CONSTANTS
  leg = leg
  probe = probe
  emer = emer
  e1 = e1
  e2 = e2
  x = x
  Leg = leg
  Probes = {probe}
  Emers = {emer}
  Entries = {e1, e2}
  On <- OneSymbol
  Opener <- Openers
  MaxPositions = 1
  Ttl = 1
  FreshFor = 0
  None = None
  MaxTime = 1
  MaxUpsets = 1
INVARIANTS TypeOK OnePerSymbol RowsUnique NoForeignLeg
PROPERTIES RecordedFirst StaysCovered
CONSTRAINT HaltEarly
CHECK_DEADLOCK FALSE
