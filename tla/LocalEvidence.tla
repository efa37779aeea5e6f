--------------------------- MODULE LocalEvidence ---------------------------
(* The local test evidence: scripts/local_acceptance_runner.py and           *)
(* local_coverage_runner.py run one shard of the test files, the two merge   *)
(* scripts bind the shards into one manifest, the two verify scripts judge   *)
(* it, and test_inventory.py counts the tests beside it.  The pipelines for  *)
(* tests and for coverage have the same shape; the latter has a data file    *)
(* per shard and a combined report.  All are commands on one checkout, and   *)
(* nothing keeps a checkout of another commit, or a second command, away.    *)
(*                                                                           *)
(* A digest is the content it was taken from.  Logs and data files are named *)
(* by the run that wrote them.                                               *)
EXTENDS Naturals, FiniteSets

CONSTANTS
  Runners,          \* shells in which shards run
  ShardCount,
  Commits,
  TestFiles,        \* TestFiles[c]: how many test files commit c has
  MaxShardRuns, MaxCheckouts, MaxMerges, MaxInventories  \* bounds, for TLC

ASSUME ShardAssumption ==
  /\ ShardCount \in Nat \ {0}
  /\ TestFiles \in [Commits -> Nat \ {0}]

VARIABLES
  checkout,    \* the commit checked out
  pipeline,    \* "tests" or "coverage"
  shardDisk,   \* log, data file and manifest of each shard
  merged,      \* the merged manifest, and the combined report beside it
  runner,      \* the shard run of each shell
  merge,       \* the merge in progress
  inventory,   \* TEST_COLLECTION.txt and TEST_INVENTORY.json
  counting,    \* the run of test_inventory.py
  spent        \* how much of each bound is used up

localVars == <<checkout, pipeline, shardDisk, merged, runner, merge,
               inventory, counting, spent>>

Shards == 0 .. ShardCount - 1
None == [missing |-> TRUE]   \* no file, or one that cannot be parsed
NoReport == <<>>
NoRun == 0
NoCommand == [at |-> "idle"]

\* discover: the test files, in order, of the commit checked out.
Discover(c) == 1 .. TestFiles[c]

\* select_shard: every ShardCount-th file.
SelectShard(files, s) == {f \in files : f % ShardCount = s}

LocalInit ==
  /\ checkout \in Commits /\ pipeline \in {"tests", "coverage"}
  /\ shardDisk = [s \in Shards |->
                    [log |-> NoRun, data |-> NoRun, manifest |-> None]]
  /\ merged = [manifest |-> None, report |-> NoReport]
  /\ runner = [r \in Runners |-> NoCommand]
  /\ merge = NoCommand
  /\ inventory = [collection |-> None, record |-> None]
  /\ counting = NoCommand
  /\ spent = [runs |-> 0, checkouts |-> 0, merges |-> 0, inventories |-> 0]

----------------------------------------------------------------------------
\* Another commit is checked out, under whatever is running.
Checkout(c) ==
  /\ c # checkout /\ spent.checkouts < MaxCheckouts
  /\ checkout' = c
  /\ spent' = [spent EXCEPT !.checkouts = @ + 1]
  /\ runner' = [r \in Runners |->
                  IF runner[r].at = "testing"
                  THEN [runner[r] EXCEPT !.moved = TRUE] ELSE runner[r]]
  /\ counting' = IF counting.at = "collecting"
                 THEN [counting EXCEPT !.moved = TRUE] ELSE counting
  /\ UNCHANGED <<pipeline, shardDisk, merged, merge, inventory>>

----------------------------------------------------------------------------
(* run_shard *)

\* The files are discovered and an old data file is removed.
RunBegins(r, s) ==
  /\ runner[r].at = "idle" /\ spent.runs < MaxShardRuns
  /\ spent' = [spent EXCEPT !.runs = @ + 1]
  /\ runner' = [runner EXCEPT ![r] =
       [at |-> "testing", shard |-> s, run |-> spent.runs + 1,
        tested |-> checkout, files |-> SelectShard(Discover(checkout), s),
        moved |-> FALSE, passed |-> FALSE, git |-> None]]
  /\ shardDisk' = IF pipeline = "coverage"
                  THEN [shardDisk EXCEPT ![s].data = NoRun] ELSE shardDisk
  /\ UNCHANGED <<checkout, pipeline, merged, merge, inventory, counting>>

\* pytest ends, or the time limit ends it, with the per-file fallback of the
\* coverage runner: a pass needs exit code 0 and, for coverage, a data file.
\* The data file is written, removed by the fallback, or left as it is.  The
\* commit is asked for after the tests.
RunTests(r, passed, data) ==
  LET s == runner[r].shard IN
      /\ runner[r].at = "testing"
      /\ data \in {shardDisk[s].data} \cup
           (IF pipeline = "coverage" THEN {NoRun, runner[r].run} ELSE {})
      /\ runner' = [runner EXCEPT ![r].at = "logging", ![r].git = checkout,
           ![r].passed = passed /\ (pipeline = "coverage" => data # NoRun)]
      /\ shardDisk' = [shardDisk EXCEPT ![s].data = data]
      /\ UNCHANGED <<checkout, pipeline, merged, merge, inventory, counting,
                     spent>>

RunLogs(r) ==
  /\ runner[r].at = "logging"
  /\ runner' = [runner EXCEPT ![r].at = "recording"]
  /\ shardDisk' = [shardDisk EXCEPT ![runner[r].shard].log = runner[r].run]
  /\ UNCHANGED <<checkout, pipeline, merged, merge, inventory, counting, spent>>

\* The manifest binds the log and the data file by their digests, read back
\* from the disk.
RunRecords(r) ==
  LET s == runner[r].shard
      run == runner[r]
  IN  /\ run.at = "recording"
      /\ runner' = [runner EXCEPT ![r] = NoCommand]
      /\ shardDisk' = [shardDisk EXCEPT ![s].manifest =
           [run |-> run.run, git |-> run.git, passed |-> run.passed,
            files |-> run.files, tested |-> run.tested, moved |-> run.moved,
            log |-> shardDisk[s].log, data |-> shardDisk[s].data]]
      /\ UNCHANGED <<checkout, pipeline, merged, merge, inventory, counting,
                     spent>>

\* A run that is killed; a manifest it was writing is cut off.
RunDies(r, torn) ==
  /\ runner[r].at # "idle"
  /\ torn => runner[r].at = "recording"
  /\ runner' = [runner EXCEPT ![r] = NoCommand]
  /\ shardDisk' = IF torn
                  THEN [shardDisk EXCEPT ![runner[r].shard].manifest = None]
                  ELSE shardDisk
  /\ UNCHANGED <<checkout, pipeline, merged, merge, inventory, counting, spent>>

----------------------------------------------------------------------------
(* merge *)

MergeBegins ==
  /\ merge.at = "idle" /\ spent.merges < MaxMerges
  /\ spent' = [spent EXCEPT !.merges = @ + 1]
  /\ merge' = [at |-> "identify", expected |-> Discover(checkout),
               git |-> None, shard |-> 0, ok |-> TRUE, covered |-> {},
               count |-> 0, shards |-> [s \in Shards |-> None],
               report |-> NoReport]
  /\ UNCHANGED <<checkout, pipeline, shardDisk, merged, runner, inventory,
                 counting>>

MergeIdentifies ==
  /\ merge.at = "identify"
  /\ merge' = [merge EXCEPT !.at = "read", !.git = checkout]
  /\ UNCHANGED <<checkout, pipeline, shardDisk, merged, runner, inventory,
                 counting, spent>>

\* What merge asks of one shard.
RowHolds(row, s, git) ==
  /\ row.git = git /\ row.passed
  /\ row.log = shardDisk[s].log
  /\ pipeline = "coverage" => row.data # NoRun /\ row.data = shardDisk[s].data

\* After the last shard: every test file exactly once, and, for coverage, the
\* data files are combined before the merged manifest is written.
Concluded(m) ==
  LET ok == /\ m.ok /\ m.covered = m.expected
            /\ m.count = Cardinality(m.covered)
  IN  [m EXCEPT !.ok = ok,
         !.at = IF pipeline = "coverage" /\ ok THEN "combine" ELSE "write"]

NextShard(m) ==
  IF m.shard + 1 < ShardCount THEN [m EXCEPT !.shard = @ + 1, !.at = "read"]
  ELSE Concluded(m)

MergeReads ==
  LET s == merge.shard
      row == shardDisk[s].manifest
  IN  /\ merge.at = "read"
      /\ merge' =
           IF row = None THEN NextShard([merge EXCEPT !.ok = FALSE])
           ELSE [merge EXCEPT !.at = "hash",
                   !.ok = @ /\ RowHolds(row, s, merge.git),
                   !.covered = @ \cup row.files,
                   !.count = @ + Cardinality(row.files)]
      /\ UNCHANGED <<checkout, pipeline, shardDisk, merged, runner, inventory,
                     counting, spent>>

\* The digest of the shard's manifest comes from a second read of the file.
MergeHashes ==
  /\ merge.at = "hash"
  /\ merge' = NextShard([merge EXCEPT
       !.shards[merge.shard] = shardDisk[merge.shard].manifest])
  /\ UNCHANGED <<checkout, pipeline, shardDisk, merged, runner, inventory,
                 counting, spent>>

\* The coverage tool combines the data files that are there now.
MergeCombines(works) ==
  LET data == [s \in Shards |-> shardDisk[s].data]
      ok == works /\ \A s \in Shards : data[s] # NoRun
  IN  /\ merge.at = "combine"
      /\ merge' = [merge EXCEPT !.at = "write", !.ok = ok,
                     !.report = IF ok THEN data ELSE NoReport]
      /\ merged' = IF ok THEN [merged EXCEPT !.report = data] ELSE merged
      /\ UNCHANGED <<checkout, pipeline, shardDisk, runner, inventory,
                     counting, spent>>

MergeWrites ==
  /\ merge.at = "write"
  /\ merge' = NoCommand
  /\ merged' = [merged EXCEPT !.manifest =
       [git |-> merge.git, ok |-> merge.ok, count |-> merge.count,
        shards |-> merge.shards, report |-> merge.report]]
  /\ UNCHANGED <<checkout, pipeline, shardDisk, runner, inventory, counting,
                 spent>>

MergeDies(torn) ==
  /\ merge.at # "idle"
  /\ torn => merge.at = "write"
  /\ merge' = NoCommand
  /\ merged' = IF torn THEN [merged EXCEPT !.manifest = None] ELSE merged
  /\ UNCHANGED <<checkout, pipeline, shardDisk, runner, inventory, counting,
                 spent>>

----------------------------------------------------------------------------
(* verify_local_acceptance and verify_local_coverage *)

\* Mutation of ShardHolds: the state of the shard is left to the merge.
ShardHolds_NoStatus(s, row) ==
  /\ row # None /\ row = merged.manifest.shards[s] /\ row.git = checkout
  /\ pipeline = "tests" => row.log = shardDisk[s].log
  /\ pipeline = "coverage" => row.data # NoRun /\ row.data = shardDisk[s].data

\* Mutation of ShardHolds: the data file is not compared with its digest.
ShardHolds_NoData(s, row) ==
  /\ row # None /\ row = merged.manifest.shards[s] /\ row.git = checkout
  /\ pipeline = "tests" => row.passed /\ row.log = shardDisk[s].log
  /\ pipeline = "coverage" => row.data # NoRun

\* A shard's manifest is the one merged, is of this commit, and names the
\* files in place.  Only the verifier of the tests asks for its state again.
ShardHolds(s, row) ==
  /\ row # None /\ row = merged.manifest.shards[s] /\ row.git = checkout
  /\ pipeline = "tests" => row.passed /\ row.log = shardDisk[s].log
  /\ pipeline = "coverage" => row.data # NoRun /\ row.data = shardDisk[s].data

VerifyLocal ==
  /\ merged.manifest # None
  /\ merged.manifest.git = checkout /\ merged.manifest.ok
  /\ \A s \in Shards : ShardHolds(s, shardDisk[s].manifest)
  /\ pipeline = "coverage" => /\ merged.manifest.report # NoReport
                              /\ merged.report = merged.manifest.report

----------------------------------------------------------------------------
(* test_inventory.py *)

InventoryBegins ==
  /\ pipeline = "tests" /\ counting.at = "idle"
  /\ spent.inventories < MaxInventories
  /\ spent' = [spent EXCEPT !.inventories = @ + 1]
  /\ counting' = [at |-> "collecting", id |-> spent.inventories + 1,
                  git |-> checkout, collected |-> None, moved |-> FALSE]
  /\ UNCHANGED <<checkout, pipeline, shardDisk, merged, runner, merge,
                 inventory>>

InventoryCollects ==
  /\ counting.at = "collecting"
  /\ counting' = [counting EXCEPT !.at = "comparing", !.collected = checkout]
  /\ UNCHANGED <<checkout, pipeline, shardDisk, merged, runner, merge,
                 inventory, spent>>

\* The regression manifest must be a pass of this commit over as many files.
RegressionHolds(git, count) ==
  /\ merged.manifest # None
  /\ merged.manifest.git = git /\ merged.manifest.ok
  /\ merged.manifest.count = count

InventoryCompares ==
  /\ counting.at = "comparing"
  /\ IF RegressionHolds(counting.git, TestFiles[counting.collected])
     THEN /\ counting' = [counting EXCEPT !.at = "recording"]
          /\ inventory' = [inventory EXCEPT !.collection =
               [id |-> counting.id, of |-> counting.collected]]
     ELSE counting' = NoCommand /\ UNCHANGED inventory
  /\ UNCHANGED <<checkout, pipeline, shardDisk, merged, runner, merge, spent>>

InventoryRecords ==
  /\ counting.at = "recording"
  /\ counting' = NoCommand
  /\ inventory' = [inventory EXCEPT !.record =
       [git |-> counting.git, count |-> TestFiles[counting.collected],
        moved |-> counting.moved, collection |-> inventory.collection,
        regression |-> merged.manifest]]
  /\ UNCHANGED <<checkout, pipeline, shardDisk, merged, runner, merge, spent>>

InventoryDies(torn) ==
  /\ counting.at # "idle"
  /\ torn => counting.at = "recording"
  /\ counting' = NoCommand
  /\ inventory' = IF torn THEN [inventory EXCEPT !.record = None]
                  ELSE inventory
  /\ UNCHANGED <<checkout, pipeline, shardDisk, merged, runner, merge, spent>>

\* Mutation of ReadVerified: the collection is not compared with its digest.
ReadVerified_NoCollection ==
  /\ inventory.record # None
  /\ inventory.record.git = checkout
  /\ inventory.record.regression = merged.manifest
  /\ RegressionHolds(checkout, inventory.record.count)

ReadVerified ==
  /\ inventory.record # None
  /\ inventory.record.git = checkout
  /\ inventory.record.collection = inventory.collection
  /\ inventory.record.regression = merged.manifest
  /\ RegressionHolds(checkout, inventory.record.count)

----------------------------------------------------------------------------
LocalNext ==
  \/ \E c \in Commits : Checkout(c)
  \/ \E r \in Runners :
       \/ \E s \in Shards : RunBegins(r, s)
       \/ \E passed \in BOOLEAN, data \in 0 .. spent.runs :
            RunTests(r, passed, data)
       \/ RunLogs(r) \/ RunRecords(r)
       \/ \E torn \in BOOLEAN : RunDies(r, torn)
  \/ MergeBegins \/ MergeIdentifies \/ MergeReads \/ MergeHashes
  \/ (\E works \in BOOLEAN : MergeCombines(works)) \/ MergeWrites
  \/ InventoryBegins \/ InventoryCollects \/ InventoryCompares
  \/ InventoryRecords
  \/ \E torn \in BOOLEAN : MergeDies(torn) \/ InventoryDies(torn)

LocalSpec == LocalInit /\ [][LocalNext]_localVars

----------------------------------------------------------------------------
(* Properties *)

\* Verified test evidence means that every test file of the commit checked out
\* was in a shard that passed on this commit, whatever ran, died or was merged
\* in between: unless a checkout happened under one of those runs, which the
\* runner cannot notice because it asks for the commit after the tests.
VerifiedIsTested ==
  (pipeline = "tests" /\ VerifyLocal) =>
    LET rows == {shardDisk[s].manifest : s \in Shards} IN
      \/ \E row \in rows : row.moved
      \/ \A f \in Discover(checkout) : \E row \in rows :
           f \in row.files /\ row.passed /\ row.tested = checkout

\* A verified coverage report was combined from exactly the data files its
\* shards now have, also when shards ran again during the merge.
CoverageIsOfShards ==
  (pipeline = "coverage" /\ VerifyLocal) =>
    merged.report = [s \in Shards |-> shardDisk[s].data]

\* With a verified inventory the collection in place was taken on the commit
\* checked out, unless a checkout happened while it was collected.
InventoryIsCurrent ==
  (ReadVerified /\ ~inventory.record.moved) =>
    inventory.collection.of = checkout

\* What the three local verifiers accept is true of the checkout.
VerifiedEvidenceIsTrue ==
  /\ VerifiedIsTested
  /\ CoverageIsOfShards
  /\ InventoryIsCurrent
=============================================================================
