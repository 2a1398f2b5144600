SPECIFICATION Spec
CONSTANTS
  r1 = r1
  p1 = p1
  f1 = f1
  Risk = {r1}
  Plain = {p1}
  Factory = {f1}
  Every <- RiskOften
  Until <- PlainEnds
  Gone = Gone
  NoRun = NoRun
  MaxTime = 1
  MaxUpsets = 2
INVARIANTS TypeOK EndedOnce AtMostOnce KillStops
PROPERTIES OperatorWins
CHECK_DEADLOCK FALSE
