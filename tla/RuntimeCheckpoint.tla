-------------------------- MODULE RuntimeCheckpoint --------------------------
(***************************************************************************)
(* Signed checkpoints of the runtime: create_runtime_checkpoint and           *)
(* evaluate_restore.  The process applies events to its positions and logs   *)
(* them; after a crash it may start from a stored checkpoint.  The event log *)
(* itself can be put back to an older state (a database restored from        *)
(* backup) and then grow differently.  The chain hash is the log it hashes,  *)
(* a signature the payload it signs; a checkpoint's file may be damaged.     *)
(***************************************************************************)
EXTENDS Integers, Sequences, Functions

CONSTANTS Configs, MaxCheckpointAge,
          MaxCheckpointEvents, MaxCheckpointTime, MaxCheckpointFaults   \* bounds

ASSUME CheckpointAssumption ==
  MaxCheckpointAge \in Nat /\ MaxCheckpointEvents \in Nat /\ MaxCheckpointTime \in Nat
    /\ MaxCheckpointFaults \in Nat

VARIABLES eventLog,     \* the durable events: each a change of the position
          holding,      \* the runtime's position
          config,
          checkpoint,   \* the stored checkpoint, <<>> when there is none
          runtime,      \* "running" or "crashed"
          checkpointNow,
          checkpointFaults

checkpointVars ==
  <<eventLog, holding, config, checkpoint, runtime, checkpointNow, checkpointFaults>>

Changes == {1, -1}
Replayed(events) == SumFunction(events)

CheckpointInit ==
  /\ eventLog = <<>> /\ holding = 0 /\ config \in Configs
  /\ checkpoint = <<>> /\ runtime = "running"
  /\ checkpointNow = 0 /\ checkpointFaults = 0

CheckpointTick ==
  /\ checkpointNow < MaxCheckpointTime /\ checkpointNow' = checkpointNow + 1
  /\ UNCHANGED <<eventLog, holding, config, checkpoint, runtime, checkpointFaults>>

ApplyEvent(change) ==
  /\ runtime = "running" /\ Len(eventLog) < MaxCheckpointEvents
  /\ eventLog' = Append(eventLog, change)
  /\ holding' = holding + change
  /\ UNCHANGED <<config, checkpoint, runtime, checkpointNow, checkpointFaults>>

ChangeConfig(c) ==
  /\ c # config /\ config' = c /\ checkpointFaults < MaxCheckpointFaults
  /\ checkpointFaults' = checkpointFaults + 1
  /\ UNCHANGED <<eventLog, holding, checkpoint, runtime, checkpointNow>>

\* create_runtime_checkpoint, of one consistent reading of the runtime.
CreateRuntimeCheckpoint ==
  LET payload == [created |-> checkpointNow, config |-> config, sequence |-> Len(eventLog),
                  positions |-> holding, chain |-> eventLog]
  IN  /\ runtime = "running"
      /\ checkpoint' = [payload |-> payload, signed |-> payload]
      /\ UNCHANGED <<eventLog, holding, config, runtime, checkpointNow, checkpointFaults>>

\* A stored field changes without the signing secret.
DamageCheckpoint(positions) ==
  /\ checkpoint # <<>> /\ checkpointFaults < MaxCheckpointFaults
  /\ checkpointFaults' = checkpointFaults + 1
  /\ checkpoint' = [checkpoint EXCEPT !.payload.positions = positions]
  /\ UNCHANGED <<eventLog, holding, config, runtime, checkpointNow>>

\* The database is restored from a backup while the process is down.
RestoreDatabase(n) ==
  /\ runtime = "crashed" /\ n < Len(eventLog) /\ checkpointFaults < MaxCheckpointFaults
  /\ checkpointFaults' = checkpointFaults + 1
  /\ eventLog' = SubSeq(eventLog, 1, n)
  /\ UNCHANGED <<holding, config, checkpoint, runtime, checkpointNow>>

CrashRuntime ==
  /\ runtime = "running" /\ runtime' = "crashed" /\ holding' = 0
  /\ UNCHANGED <<eventLog, config, checkpoint, checkpointNow, checkpointFaults>>

VerifyRuntimeCheckpoint == checkpoint.signed = checkpoint.payload

\* Mutation of RestoreAllowed: the chain hash is not compared.
RestoreAllowedBySequence ==
  LET c == checkpoint.payload
  IN  /\ checkpointNow - c.created \in 0..MaxCheckpointAge
      /\ VerifyRuntimeCheckpoint
      /\ c.config = config
      /\ c.sequence = Len(eventLog)

\* evaluate_restore has no reason against it.
RestoreAllowed ==
  LET c == checkpoint.payload
  IN  /\ checkpointNow - c.created \in 0..MaxCheckpointAge
      /\ VerifyRuntimeCheckpoint
      /\ c.config = config
      /\ c.sequence = Len(eventLog)
      /\ c.chain = eventLog

\* A restart takes the checkpoint when it may, and replays the log otherwise.
RestartRuntime ==
  LET usable == checkpoint # <<>> /\ RestoreAllowed
  IN  /\ runtime = "crashed" /\ runtime' = "running"
      /\ holding' = IF usable THEN checkpoint.payload.positions ELSE Replayed(eventLog)
      /\ UNCHANGED <<eventLog, config, checkpoint, checkpointNow, checkpointFaults>>

CheckpointNext ==
  \/ CheckpointTick \/ CreateRuntimeCheckpoint \/ CrashRuntime \/ RestartRuntime
  \/ \E change \in Changes : ApplyEvent(change)
  \/ \E c \in Configs : ChangeConfig(c)
  \/ \E n \in 0..MaxCheckpointEvents : DamageCheckpoint(n) \/ RestoreDatabase(n)

CheckpointSpec == CheckpointInit /\ [][CheckpointNext]_checkpointVars

-----------------------------------------------------------------------------
(* Properties.                                                             *)

\* evaluate_restore: a process that was allowed to start from a checkpoint holds
\* the positions the event log leads to, whatever was logged after it was taken,
\* damaged in it, or put back and rewritten in the database in between.
RestoredIsReplayed == runtime = "running" => holding = Replayed(eventLog)
=============================================================================
