SPECIFICATION Spec
CONSTANTS
  kr = kr
  us = us
  Domestic = {kr}
  Us = {}
  Quantity <- Asked
  Prices = {1, 2}
  DailyCap = 3
  Caps = {3}
  ValidDays = 1
  Approvals = 1
  MaxDay = 1
  MaxUpsets = 1
  None = None
PROPERTIES UnknownSendsNoMore
CHECK_DEADLOCK FALSE
