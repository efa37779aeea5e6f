SPECIFICATION Spec
CONSTANTS
  Instances = {a, b}
  NoInstance = none
  MaxToken = 0
  Intents = {n1, n2}
  NoIntent = nothing
  Symbols = {s}
  SymbolOf <- OneSymbol
  ReduceOnly = {}
  Unaligned = {}
  Arrivals = {"ACKNOWLEDGED"}
  Outcomes = {"FILLED"}
  Live = FALSE
  Isolation = TRUE
  Clearable = {s}
  MaxCrashes = 1
SYMMETRY SymmetricIntents
INVARIANTS
  AtMostOnceSubmission NoInventedOutcome HaltAdmitsAtMostOne
CHECK_DEADLOCK FALSE
