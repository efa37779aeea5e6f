SPECIFICATION Spec
CONSTANTS
  Instances = {a}
  NoInstance = none
  MaxToken = 1
  Intents = {n1}
  NoIntent = nothing
  Symbols = {s}
  SymbolOf <- OneSymbol
  ReduceOnly = {}
  Unaligned = {n1}
  Arrivals = {"ACKNOWLEDGED"}
  Outcomes = {"FILLED"}
  Live = TRUE
  Isolation = TRUE
  Clearable = {s}
  MaxCrashes = 1
INVARIANT RetryFindsItsRow
CHECK_DEADLOCK FALSE
