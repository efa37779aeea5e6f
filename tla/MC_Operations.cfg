SPECIFICATION OperationsSpec
CONSTANTS
  Pids = {p1, p2, p3}
  Recoverers = {p1}
  SlowHeartbeat = FALSE
  MaxRuns = 2
  MaxBoots = 1
  Releases <- MCReleases
  NoTree = "no tree"
  Installed = "r0"
  SchemaHead <- MCHead
  Compatible <- MCCompatible
  Sound <- MCSound
  StateDirs = {"parent", "state"}
  ActiveParent = "parent"
  Faults = {"update", "migrate"}
  ToolMayOverlap = FALSE
  MaxUpdates = 2
  Leader = l
  Descendants = {d1, d2}
  MaxInterrupts = 2
  ca = ca
  cb = cb
  cc = cc
  r1 = r1
  r2 = r2
  Runners = {r1, r2}
  ShardCount = 2
  Commits = {ca, cb, cc}
  TestFiles <- MCTestFiles
  MaxShardRuns = 3
  MaxCheckouts = 2
  MaxMerges = 1
  MaxInventories = 2
INVARIANTS
  DeploymentIsSafe
  CallEndsItsTree
  VerifiedEvidenceIsTrue
  HolderKeepsLock
CHECK_DEADLOCK FALSE
