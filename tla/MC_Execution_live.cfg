SPECIFICATION Spec
CONSTANTS
  Instances = {a, b}
  NoInstance = none
  MaxToken = 2
  Intents = {n1, n2}
  NoIntent = nothing
  Symbols = {s}
  SymbolOf <- OneSymbol
  ReduceOnly = {n2}
  Unaligned = {n2}
  Arrivals = {"ACKNOWLEDGED"}
  Outcomes = {}
  Live = TRUE
  Isolation = TRUE
  Clearable = {}
  MaxCrashes = 0
SYMMETRY Symmetric
INVARIANTS
  StaleLeaderSendsAtMostOnce OneHolderPerToken
CHECK_DEADLOCK FALSE
