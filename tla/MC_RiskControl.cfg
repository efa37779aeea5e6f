SPECIFICATION RiskAndGateSpec
CONSTANTS
  MaxApprovals = 3
  MinSeconds = 2
  MinSuccesses = 3
  Times = {0, 1, 2, 3}
  MaxSamples = 5
  Strategies = {trend, carry}
  Markets = {btc}
  LotSizes = {1, 2}
  MaxLots = 3
  MaxUnbooked = 2
  StaleAfter = 1
  MaxEventDelay = 1
  MaxUpdateId = 3
  MaxInFlight = 1
  MaxFeedTime = 2
  MaxFeedFaults = 2
  Priorities = {0, 1, 2}
  BufferSize = 2
  MaxPuts = 6
  Limit = 4
  Interval = 2
  Reserve = 1
  Weights = {1, 3}
  MaxRateTime = 3
  MaxConfigures = 1
  PaperSymbols = {btc, eth}
  PaperQuantities = {10, 20}
  MaxPaperTrades = 3
  Monitors = {m1, m2}
  Severities = {"warning", "critical"}
  EscalationSeconds = 1
  MaxAlertTime = 2
  MaxRecords = 3
  OrderQty = 2
  Principals = {ann, bob, eve}
  Allowed = {ann, bob}
  LiveOrders = {buy, sell}
  Nonces = {n1, n2}
  NonceTtl = 1
  MaxNonceTime = 3
  MaxUses = 2
  Configs = {c1, c2}
  MaxCheckpointAge = 1
  MaxCheckpointEvents = 3
  MaxCheckpointTime = 2
  MaxCheckpointFaults = 2
INVARIANTS
  SleeveBookIsTrue
  PaperBooksBalance
  HealthIsTruthful
  VerdictsAreTrue
  ConfirmedOnceAsShown
  EligibleIsSustained
  SpanWithinTwiceLimit
  RestoredIsReplayed
PROPERTIES ImplementsGate OverflowLosesTheLeast AlertsAreFaithful
