SPECIFICATION Spec
CONSTANTS
  Events = {e1}
  Workers = {w1, w2}
  Operators = {o1, o2}
  MaxAttempts = 2
  MaxVersion = 2
  MaxCrashes = 1
INVARIANTS
  OutboxInv
CHECK_DEADLOCK FALSE
