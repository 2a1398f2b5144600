SPECIFICATION Spec
CONSTANTS
  Spenders = {s1, s2}
  Promoters = {m}
  Asks = {a1, a2}
  Cands = {c1}
  Trial = Trial
  Nobody = Nobody
  AskTtl = 1
  CandTtl = 1
  MaxTime = 1
  MaxFailures = 1
SYMMETRY SpendSymmetry
INVARIANTS TypeOK IInv OncePerRetirement EffectsAreAudited SingleUse
PROPERTIES LoserLearnsItLost Promise
