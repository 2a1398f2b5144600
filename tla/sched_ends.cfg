SPECIFICATION Spec
CONSTANTS
  r1 = r1
  p1 = p1
  f1 = f1
  Risk = {}
  Plain = {}
  Factory = {f1}
  Every <- Cadence
  Until <- PlainEnds
  Gone = Gone
  NoRun = NoRun
  MaxTime = 1
  MaxUpsets = 3
INVARIANTS OrphansStayDead
PROPERTIES EveryRunEnds
CHECK_DEADLOCK FALSE
