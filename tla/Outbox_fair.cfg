SPECIFICATION FairSpec
CONSTANTS
  Events = {e1, e2}
  Workers = {w1, w2}
  Operators = {}
  MaxAttempts = 2
  MaxVersion = 2
  MaxCrashes = 1
PROPERTY EventuallySettled
CHECK_DEADLOCK FALSE
