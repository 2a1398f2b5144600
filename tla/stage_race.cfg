CONSTANTS
  Policies = {p1, p2}
  NoPolicy = NoPolicy
  Doors = {d1, d2}
  NoDoor = NoDoor
  MaxTime = 5
  MaxArchives = 0
  Targets = {0, 1, 2, 3, 4}
  StartRung = 3
SPECIFICATION Spec
SYMMETRY RaceSymmetry
INVARIANT TypeOK
INVARIANT LadderEarned
INVARIANT NoRowOvertakesADemotion
INVARIANT BrokenOnlyAtTheFloor
PROPERTY LoweredOnlyByDemotion
PROPERTY RaisedOnlyByGrant
CHECK_DEADLOCK FALSE
