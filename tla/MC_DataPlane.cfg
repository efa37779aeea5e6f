SPECIFICATION DataSpec
CONSTANTS
  EventIds = {e1, e2}
  Threads = {t1, t2, t3}
  NoEvent = none
  MaxFailures = 2
  Writers = {w1, w2}
  Entries = {halt, fill}
  NoWriter = none
  Ids = {1, 2, 3}
  MaxTime = 3
  Postgres = TRUE
  Intents = {n1, n2, n3}
  Processes = {p1, p2}
  NoIntent = none
  Amounts = {1, 3}
  Largest = 3
  Available = 4
  Ledgers = {"process", "database"}
  Orders = {o1}
  Size = 3
  MaxReports = 5
  Prices = {1, 2}
  Quantities = {1, 2}
  MaxUpdates = 4
  Hypotheses = {h1, h2}
  NoHypothesis = nohyp
  Trials = {t1, t2, t3}
  Measures = {ma, mb}
  Budgets = {1, 2}
  Windows <- MCWindows
  MetaVersions = {v1, v2}
  ResearchTimes = {0, 1}
  MaxVersions = 3
  Sessions = {w1, w2}
  LastStep = 3
  Preferences = 2
  NoAnswer = none
INVARIANTS
  ResearchIsHonest
  SetupIsSequential
  AuditLogIsSound
  ProjectionIsExact
  CapitalInv
  AppliedAtMostOnce
  ValidBookIsExact
CHECK_DEADLOCK FALSE
