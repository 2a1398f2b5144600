CONSTANTS
  Policies = {p1}
  NoPolicy = NoPolicy
  Doors = {d1, d2}
  NoDoor = NoDoor
  MaxTime = 5
  MaxArchives = 0
  Targets = {0, 1, 2, 3, 4}
  StartRung = 3
SPECIFICATION CrashFree
PROPERTY StopTakesEffect
CHECK_DEADLOCK FALSE
