---------------------------- MODULE MC_Operations ----------------------------
(* The operation lock, the deployment transactions that run under it, the     *)
(* process trees of commands and the local test evidence, for TLC.            *)
(* Deployment takes from the lock that one operation runs at a time; they     *)
(* share no state, so each is explored with the others at rest.  The test     *)
(* evidence is explored three times: one shell with a checkout, two shells    *)
(* that overlap, and the inventory beside runs that pass.                     *)
EXTENDS Deployment, OperationLock, ProcessTree, LocalEvidence

CONSTANTS ca, cb, cc, r1, r2   \* the commits and the shells

VARIABLE part

Parts == {"lock", "deployment", "process", "shards", "overlap", "inventory"}
Evidence == {"shards", "overlap", "inventory"}

\* r1 changes no schema, r2 adds two compatible revisions and r3 one that is not
\* previous_release_compatible; the manifest of r4 does not agree with its tree.
MCReleases == {"r0", "r1", "r2", "r3", "r4"}
MCHead == [r \in MCReleases |-> CASE r = "r2" -> 3 [] r = "r3" -> 4 [] OTHER -> 1]
MCCompatible == {1, 2, 3}
MCSound == {"r1", "r2", "r3"}

\* Another commit may have more test files, or as many.
MCTestFiles == [c \in Commits |-> IF c = cb THEN 3 ELSE 2]

OperationsInit ==
  /\ part \in Parts
  /\ LockInit /\ Init /\ ProcessInit /\ LocalInit
  /\ part # "process" => call.kind = "exec" /\ previous = "default"
  /\ checkout = ca
  /\ part \notin {"shards", "overlap"} => pipeline = "tests"

LocalBounds ==
  CASE part = "shards" ->
         /\ spent'.inventories = 0 /\ spent'.checkouts <= 1
         /\ runner'[r2].at = "idle" /\ checkout' # cc
    [] part = "overlap" ->
         /\ spent'.inventories = 0 /\ spent'.checkouts = 0
         /\ merge'.at = "idle" => merge.at \in {"idle", "write"}
    [] part = "inventory" ->
         /\ spent'.runs <= 2 /\ runner'[r2].at = "idle" /\ checkout' # cb
         /\ runner'[r1].at = "logging" => runner'[r1].passed
         /\ \A s \in Shards :
              shardDisk'[s].manifest = None => shardDisk[s].manifest = None

OperationsNext ==
  /\ UNCHANGED part
  /\ \/ /\ part = "lock" /\ LockNext
        /\ UNCHANGED <<vars, processVars, localVars>>
     \/ /\ part = "deployment" /\ Next
        /\ backups' = backups \/ AtRest   \* dumps are taken between operations
        /\ UNCHANGED <<lockVars, processVars, localVars>>
     \/ /\ part = "process" /\ ProcessNext
        /\ UNCHANGED <<vars, lockVars, localVars>>
     \/ /\ part \in Evidence /\ LocalNext /\ LocalBounds
        /\ UNCHANGED <<vars, lockVars, processVars>>

OperationsSpec ==
  OperationsInit
    /\ [][OperationsNext]_<<part, vars, lockVars, processVars, localVars>>
=============================================================================
