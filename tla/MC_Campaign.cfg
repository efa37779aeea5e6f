SPECIFICATION Spec
CONSTANTS
    Runtimes = {p1}
    Commands = {"cycle", "drill", "private", "shadow", "backtest", "stress"}
    MaxCommands = 3
    AuditKinds = {"live_shadow_observation"}
    MaxAudits = 1
    MaxChallenges = 2
    MaxSeals = 2
    MinPairs = 1
    Need <- MCNeed
    BundleReceipts = {"r1", "r2"}
    Outputs = {o1, o2}
    NoArchive = noarchive
    NoEvidence = noevidence
    FileOrder <- MCOrder
    MaxHostWrites = 1
    MaxHandoffs = 2
    Bundles = {b1, b2}
    NoBundle = nobundle
    NoTree = notree
    Versions = {1, 2}
    LockBundles = {b1}
    MaxCrashes = 2
    MaxFailures = 1
    MaxPromotions = 3
    Keys <- MCKeys
    NoJournal = nojournal
    MaxLockVersion = 2
    MaxLockFaults = 2
    Listed <- MCListed
    Books <- MCBooks
    Tickers = {2, 3}
    PartialPrices = {2, 3}
    MaxNotional = 16
    Hardened = TRUE
    MaxQuoteMoves = 2
    Sources = {"code", "lock"}
    MaxCommit = 2
    MaxCheckouts = 2
    MaxEdits = 1
    MaxPackages = 2
    Recorders = {r1, r2}
    Builder = r1
    Bindings = {bd1}
    NoBinding = nobinding
    JournalKinds = {"sample", "pass"}
    SampleIds = {"s1"}
    Skew = 0
    MaxWallClock = 1
    MaxLines = 3
INVARIANTS
  JournalIsEvidence
  PromotionIsAccountedFor
  LocksAreRecoverable
  ScenarioIsClean
  PackagesAreCoherent
  CollectionIsTrustworthy
  VerifiedHandoffIsCoherent
CHECK_DEADLOCK FALSE
