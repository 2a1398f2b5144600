CONSTANTS
  Policies = {p1, p2}
  NoPolicy = NoPolicy
  Doors = {d1}
  NoDoor = NoDoor
  MaxTime = 5
  MaxArchives = 1
  Targets = {0, 2, 3}
  StartRung = 2
SPECIFICATION Spec
INVARIANT RestoreProofWhenAnchored
INVARIANT IInv
CHECK_DEADLOCK FALSE
SYMMETRY PolicySymmetry
