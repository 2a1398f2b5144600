SPECIFICATION Spec
CONSTANTS
  Handlers = {h1, h2}
  Requests = {r1, r2}
  Approvals = {a1, a2}
  Nobody = Nobody
  MaxRestarts = 2
  MaxFaults = 1
  MaxDeletions = 1
SYMMETRY RunnerSymmetry
INVARIANTS TypeOK IInv UncertainMeansLatched RepliesAreTrue RecordedFirst
PROPERTIES Promise
CHECK_DEADLOCK FALSE
