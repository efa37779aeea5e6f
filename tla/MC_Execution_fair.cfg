SPECIFICATION FairSpec
CONSTANTS
  Instances = {a, b}
  NoInstance = none
  MaxToken = 2
  Intents = {n1}
  NoIntent = nothing
  Symbols = {s}
  SymbolOf <- OneSymbol
  ReduceOnly = {}
  Unaligned = {}
  Arrivals = {"ACKNOWLEDGED", "UNKNOWN"}
  Outcomes = {"FILLED"}
  Live = TRUE
  Isolation = FALSE
  Clearable = {}
  MaxCrashes = 1
PROPERTIES SubmitReturns ImplementsSubmitOnce
CHECK_DEADLOCK FALSE
