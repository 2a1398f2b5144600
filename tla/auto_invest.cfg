SPECIFICATION Spec
CONSTANTS
  kr = kr
  us = us
  Domestic = {kr}
  Us = {us}
  Quantity <- Asked
  Prices = {1, 2}
  DailyCap = 3
  Caps = {3}
  ValidDays = 1
  Approvals = 2
  MaxDay = 1
  MaxUpsets = 1
  None = None
INVARIANTS TypeOK DailyCapHolds WithinApproval EveryFillIsBooked
CHECK_DEADLOCK FALSE
