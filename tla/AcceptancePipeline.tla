------------------------- MODULE AcceptancePipeline -------------------------
(* External acceptance of a release: a challenge bound to the commit, the   *)
(* profile runs made under it, the append-only evidence ledger, the merge   *)
(* of the profile manifests, the signed checkpoint of the ledger, the       *)
(* verifier, and the release manifest and gate that read its result.        *)
(* A manifest's hash is the number of the run that wrote it.  A process     *)
(* works off a list of steps: one profile, a merge, a challenge, or the     *)
(* whole orchestration; all of them share the files without a lock but the  *)
(* ledger's.  A day stands for the 24 hours a challenge, a checkpoint and   *)
(* most evidence live; GroupDays is the evidence's time to live.            *)
EXTENDS Naturals, Sequences, FiniteSets

CONSTANTS ProfileOrder,  \* acceptance profiles, each with one group
          GroupDays,     \* days for which a profile's rows stay fresh
          Selections,    \* profile sequences the orchestrator may be given
          Commits,       \* commits HEAD may be at
          Environments,  \* acceptance environment and topology identities
          Workers,       \* processes running acceptance commands
          NoDoc,         \* a file that does not exist, an unset value
          MaxIds,        \* bound: challenges, runs and merges together
          MaxMoves,      \* bound: checkouts, edits and days together
          MaxStops       \* bound: commands that die midway

VARIABLES apHead, apClean, apDay,  \* HEAD, tracked sources unmodified, time
          apChallenge,   \* release_challenge.json
          apManifest,    \* manifest_<profile>.json
          apNested,      \* run whose nested evidence a profile has on disk
          apLedger,      \* evidence_ledger.json
          apLock,        \* holder of the ledger's file lock
          apAggregate,   \* manifest_all.json
          apCheckpoint,  \* evidence_ledger_checkpoint.json
          apRelease,     \* RELEASE_MANIFEST.json
          apReady,       \* the last orchestration said production_ready
          worker,        \* the running commands
          apIds, apMoves, apStops

apFiles == <<apChallenge, apManifest, apNested, apLedger, apLock, apAggregate,
             apCheckpoint, apRelease, apReady>>
apTree == <<apHead, apClean, apDay>>
acceptanceVars == <<apTree, apFiles, worker, apIds, apMoves, apStops>>

Profiles == {ProfileOrder[i] : i \in 1..Len(ProfileOrder)}

ASSUME AcceptanceAssumption ==
    /\ ProfileOrder \in Seq(STRING) /\ GroupDays \in [Profiles -> Nat]
    /\ Profiles \cap {"challenge", "reuse", "merge", "sign", "verify",
                      "release", "gate", "all-merged"} = {}
    /\ Selections \subseteq Seq(Profiles)
    /\ NoDoc \notin Workers

IdleWorker == [at |-> "next", todo |-> <<>>, run |-> 0, doc |-> NoDoc,
               snapshot |-> <<>>, read |-> <<>>, all |-> FALSE,
               verified |-> FALSE]

AcceptanceInit ==
    /\ apHead \in Commits /\ apClean = TRUE /\ apDay = 0
    /\ apChallenge = NoDoc
    /\ apManifest = [p \in Profiles |-> NoDoc]
    /\ apNested = [p \in Profiles |-> 0]
    /\ apLedger = <<>> /\ apLock = NoDoc
    /\ apAggregate = NoDoc /\ apCheckpoint = NoDoc
    /\ apRelease = [status |-> "BLOCKED", acceptance |-> {}]
    /\ apReady = FALSE
    /\ worker = [w \in Workers |-> IdleWorker]
    /\ apIds = 0 /\ apMoves = 0 /\ apStops = 0

-----------------------------------------------------------------------------
(* The verifiers, over the files as they are now.                           *)

(* verify_challenge with trust required. *)
ChallengeVerified ==
    /\ apChallenge # NoDoc
    /\ apChallenge.clean /\ apClean
    /\ apChallenge.commit = apHead
    /\ apChallenge.trusted
    /\ apChallenge.day = apDay

UnboundChallenge(doc) == ChallengeVerified

(* A document that claims a PASS names the challenge on disk. *)
BoundToChallenge(doc) == ChallengeVerified /\ doc.challenge = apChallenge.id

(* verify_ledger: the chain is intact and holds no manifest twice. *)
LedgerVerified(ledger) ==
    /\ ledger # <<>>
    /\ \A i, j \in 1..Len(ledger) : i # j => ledger[i].run # ledger[j].run

LedgerNames(doc, profile) ==
    /\ LedgerVerified(apLedger)
    /\ \E i \in 1..Len(apLedger) :
          apLedger[i] = [run |-> doc.run, challenge |-> doc.challenge,
                         commit |-> apHead, profile |-> profile]

RowsFresh(p, doc) == apDay - doc.day <= GroupDays[p]

(* verify_manifest's verdict on one group: the rows passed on the real      *)
(* system, are fresh, and the nested evidence they hash is still on disk.   *)
GroupPasses(p, doc) == doc.pass /\ doc.real /\ RowsFresh(p, doc) /\ apNested[p] = doc.run

(* verify_manifest on a profile manifest. *)
ProfileVerified(p) ==
    LET doc == apManifest[p]
    IN /\ doc # NoDoc
       /\ doc.real /\ doc.commit = apHead
       /\ doc.pass => /\ BoundToChallenge(doc)
                      /\ GroupPasses(p, doc)
                      /\ LedgerNames(doc, p)

(* verify_ledger_checkpoint, its signature checked by the external anchor. *)
CheckpointVerified(env) ==
    /\ apCheckpoint # NoDoc
    /\ LedgerVerified(apLedger) /\ apCheckpoint.ledger = apLedger
    /\ BoundToChallenge(apCheckpoint)
    /\ apCheckpoint.commit = apHead /\ apCheckpoint.env = env
    /\ apCheckpoint.day = apDay

(* verified_groups of the aggregate: its rows are copies of the rows of the *)
(* manifests it was merged from.                                            *)
AggregateGroups ==
    IF apAggregate = NoDoc THEN {}
    ELSE {p \in apAggregate.groups :
            /\ RowsFresh(p, apAggregate.rows[p])
            /\ apNested[p] = apAggregate.rows[p].run}

(* _verify_aggregate_source_profiles. *)
SourceProfilesProved ==
    \A p \in Profiles :
        /\ apManifest[p] # NoDoc /\ apAggregate.rows[p] # NoDoc
        /\ apManifest[p].run = apAggregate.rows[p].run
        /\ apManifest[p].env = apAggregate.env
        /\ ProfileVerified(p) /\ GroupPasses(p, apManifest[p])

(* verify_manifest on manifest_all.json, and its selected_all_pass. *)
AggregateVerified ==
    /\ apAggregate # NoDoc
    /\ apAggregate.real /\ apAggregate.commit = apHead
    /\ apAggregate.groups # {} =>
          BoundToChallenge(apAggregate) /\ apAggregate.env # NoDoc
    /\ AggregateGroups = apAggregate.groups
    /\ apAggregate.all =>
          SourceProfilesProved /\ CheckpointVerified(apAggregate.env)
    /\ AggregateGroups # {} => LedgerNames(apAggregate, "all-merged")

Accepted == AggregateVerified /\ apAggregate.all

-----------------------------------------------------------------------------
(* Commands and the steps they are made of.                                 *)

Orchestration(selection, reuse) ==
    (IF reuse THEN <<"reuse">> ELSE <<"challenge">>) \o selection
    \o <<"merge", "sign", "verify", "release", "gate">>

(* A command starts: the runner for one profile, the merge, a challenge, or *)
(* the orchestrator with a new or the current challenge.                    *)
StartCommand(w, todo) ==
    /\ worker[w] = IdleWorker /\ apIds < MaxIds
    /\ worker' = [worker EXCEPT ![w].todo = todo]
    /\ UNCHANGED <<apTree, apFiles, apIds, apMoves, apStops>>

CommandSet == {<<p>> : p \in Profiles} \cup {<<"merge">>, <<"challenge">>}
              \cup {Orchestration(s, TRUE) : s \in Selections}
              \cup {Orchestration(s, FALSE) : s \in Selections}

Doing(w, step) == /\ worker[w].at = "next" /\ worker[w].todo # <<>>
                  /\ Head(worker[w].todo) = step

(* The step is finished; results a later step reads stay. *)
StepDone(w, result) ==
    worker' = [worker EXCEPT ![w] =
        IF Len(result.todo) = 1 THEN IdleWorker
        ELSE [IdleWorker EXCEPT !.todo = Tail(result.todo), !.all = result.all,
                                !.verified = result.verified]]

StopCommand(w) == worker' = [worker EXCEPT ![w] = IdleWorker]

NewId == apIds < MaxIds /\ apIds' = apIds + 1

(* create_challenge, and the orchestrator's own check of what it created. *)
CreateChallenge(w, trusted) ==
    /\ Doing(w, "challenge") /\ NewId
    /\ apChallenge' = [id |-> apIds + 1, commit |-> apHead, clean |-> apClean,
                       day |-> apDay, trusted |-> trusted]
    /\ IF trusted /\ apClean THEN StepDone(w, worker[w]) ELSE StopCommand(w)
    /\ UNCHANGED <<apTree, apManifest, apNested, apLedger, apLock, apAggregate,
                   apCheckpoint, apRelease, apReady, apMoves, apStops>>

ReuseChallenge(w) ==
    /\ Doing(w, "reuse")
    /\ IF ChallengeVerified THEN StepDone(w, worker[w]) ELSE StopCommand(w)
    /\ UNCHANGED <<apTree, apFiles, apIds, apMoves, apStops>>

(* execute(profile): a confirmed run needs a verified challenge, otherwise  *)
(* it goes straight to a manifest without a PASS.  began, a history value,  *)
(* is the commit the run was started at.                                    *)
StartRun(w, p, real, env) ==
    /\ Doing(w, p) /\ NewId
    /\ (Len(worker[w].todo) > 1) => real
    /\ worker' = [worker EXCEPT
          ![w].at = IF real /\ ~ChallengeVerified THEN "manifest" ELSE "commands",
          ![w].doc = [run |-> apIds + 1, real |-> real, env |-> env,
                      pass |-> FALSE, began |-> apHead,
                      challenge |-> IF real /\ apChallenge # NoDoc
                                    THEN apChallenge.id ELSE 0]]
    /\ UNCHANGED <<apTree, apFiles, apMoves, apStops>>

(* The commands write their nested evidence; a PASS is one of a real run. *)
RunCommands(w, p, pass) ==
    /\ worker[w].at = "commands" /\ Head(worker[w].todo) = p
    /\ pass => worker[w].doc.real
    /\ worker' = [worker EXCEPT ![w].at = "manifest", ![w].doc.pass = pass]
    /\ apNested' = [apNested EXCEPT ![p] = worker[w].doc.run]
    /\ UNCHANGED <<apTree, apChallenge, apManifest, apLedger, apLock, apAggregate,
                   apCheckpoint, apRelease, apReady, apIds, apMoves, apStops>>

(* The manifest names HEAD as it is when the commands have ended; only a    *)
(* confirmed PASS goes on to the ledger.                                    *)
WriteManifest(w, p) ==
    LET old == worker[w].doc
        doc == [run |-> old.run, real |-> old.real, env |-> old.env,
                pass |-> old.pass, began |-> old.began,
                challenge |-> old.challenge, commit |-> apHead, day |-> apDay]
    IN /\ worker[w].at = "manifest" /\ Head(worker[w].todo) = p
       /\ apManifest' = [apManifest EXCEPT ![p] = doc]
       /\ IF doc.pass
          THEN worker' = [worker EXCEPT ![w].at = "lock",
                 ![w].doc = [run |-> doc.run, challenge |-> doc.challenge,
                             commit |-> doc.commit, profile |-> p]]
          ELSE StepDone(w, worker[w])
       /\ UNCHANGED <<apTree, apChallenge, apNested, apLedger, apLock, apAggregate,
                      apCheckpoint, apRelease, apReady, apIds, apMoves, apStops>>

LedgerLockIgnored(w) == apLock' = w

LedgerLockTaken(w) == apLock = NoDoc /\ apLock' = w

(* append_entry: lock, verify and read the ledger, ... *)
ReadLedger(w) ==
    /\ worker[w].at = "lock" /\ LedgerLockTaken(w)
    /\ worker' = [worker EXCEPT ![w].at = "append", ![w].snapshot = apLedger]
    /\ UNCHANGED <<apTree, apChallenge, apManifest, apNested, apLedger,
                   apAggregate, apCheckpoint, apRelease, apReady, apIds, apMoves,
                   apStops>>

(* ... replace it by itself and the entry, unlock. *)
AppendEntry(w) ==
    /\ worker[w].at = "append"
    /\ apLedger' = Append(worker[w].snapshot, worker[w].doc)
    /\ apLock' = NoDoc
    /\ StepDone(w, worker[w])
    /\ UNCHANGED <<apTree, apChallenge, apManifest, apNested, apAggregate,
                   apCheckpoint, apRelease, apReady, apIds, apMoves, apStops>>

-----------------------------------------------------------------------------
(* merge: HEAD is read once, every profile manifest verified in turn, then  *)
(* the challenge again, then the aggregate is written and appended.         *)

StartMerge(w) ==
    /\ Doing(w, "merge") /\ NewId
    /\ worker' = [worker EXCEPT ![w].at = "read", ![w].run = apIds + 1,
                                ![w].doc = apHead]
    /\ UNCHANGED <<apTree, apFiles, apMoves, apStops>>

ReadProfile(w) ==
    /\ worker[w].at = "read" /\ Len(worker[w].read) < Len(ProfileOrder)
    /\ LET p == ProfileOrder[Len(worker[w].read) + 1]
       IN worker' = [worker EXCEPT ![w].read = Append(@,
             [profile |-> p, doc |-> apManifest[p],
              verified |-> ProfileVerified(p),
              pass |-> ProfileVerified(p) /\ GroupPasses(p, apManifest[p])])]
    /\ UNCHANGED <<apTree, apFiles, apIds, apMoves, apStops>>

(* What the merge has read of a profile, and the profiles that passed. *)
MergeRow(w, p) ==
    CHOOSE x \in {worker[w].read[i] : i \in 1..Len(worker[w].read)} : x.profile = p
MergePassed(w) == {p \in Profiles : MergeRow(w, p).pass}
MergeEnvironments(w) == {MergeRow(w, p).doc.env : p \in MergePassed(w)}

(* A PASS is kept under a verified challenge and one environment only. *)
MergeTrusted(w) == /\ MergePassed(w) # {} => ChallengeVerified
                   /\ Cardinality(MergeEnvironments(w)) <= 1
MergeSound(w) ==
    /\ \A i \in 1..Len(worker[w].read) :
          worker[w].read[i].doc # NoDoc => worker[w].read[i].verified
    /\ MergeTrusted(w)
MergeGroups(w) == IF MergeTrusted(w) THEN MergePassed(w) ELSE {}

Aggregate(w) ==
    [run |-> worker[w].run, rows |-> [p \in Profiles |-> MergeRow(w, p).doc],
     groups |-> MergeGroups(w), all |-> MergeSound(w) /\ MergeGroups(w) = Profiles,
     real |-> MergePassed(w) # {} /\ ChallengeVerified,
     challenge |-> IF apChallenge = NoDoc THEN 0 ELSE apChallenge.id,
     commit |-> worker[w].doc, day |-> apDay,
     env |-> IF Cardinality(MergeEnvironments(w)) = 1
             THEN CHOOSE e \in MergeEnvironments(w) : TRUE ELSE NoDoc]

WriteAggregate(w) ==
    LET doc == Aggregate(w)
    IN /\ worker[w].at = "read" /\ Len(worker[w].read) = Len(ProfileOrder)
       /\ apAggregate' = doc
       /\ IF MergeSound(w) /\ MergeGroups(w) # {} /\ ChallengeVerified
          THEN worker' = [worker EXCEPT ![w].at = "lock", ![w].read = <<>>,
                 ![w].all = doc.all,
                 ![w].doc = [run |-> doc.run, challenge |-> doc.challenge,
                             commit |-> doc.commit, profile |-> "all-merged"]]
          ELSE StepDone(w, [worker[w] EXCEPT !.all = doc.all])
       /\ UNCHANGED <<apTree, apChallenge, apManifest, apNested, apLedger, apLock,
                      apCheckpoint, apRelease, apReady, apIds, apMoves, apStops>>

(* The external signer checkpoints the ledger after an all-PASS merge. *)
SignCheckpoint(w, signed) ==
    /\ Doing(w, "sign")
    /\ apCheckpoint' = IF worker[w].all /\ signed /\ apChallenge # NoDoc
                       THEN [ledger |-> apLedger, commit |-> apHead, day |-> apDay,
                             challenge |-> apChallenge.id,
                             env |-> apAggregate.env]
                       ELSE apCheckpoint
    /\ StepDone(w, worker[w])
    /\ UNCHANGED <<apTree, apChallenge, apManifest, apNested, apLedger, apLock,
                   apAggregate, apRelease, apReady, apIds, apMoves, apStops>>

VerifyMerged(w) ==
    /\ Doing(w, "verify")
    /\ StepDone(w, [worker[w] EXCEPT !.verified = Accepted])
    /\ UNCHANGED <<apTree, apFiles, apIds, apMoves, apStops>>

EligibleWhenAccepted ==
    [status |-> IF AggregateGroups = Profiles THEN "ELIGIBLE_FOR_HUMAN_APPROVAL"
                ELSE "BLOCKED",
     acceptance |-> AggregateGroups]

(* generate_release_manifest: the acceptance rows are the verifier's        *)
(* groups; the status is always BLOCKED.                                    *)
ReleaseManifest == [status |-> "BLOCKED", acceptance |-> AggregateGroups]

GenerateReleaseManifest(w) ==
    /\ Doing(w, "release")
    /\ apRelease' = ReleaseManifest
    /\ StepDone(w, worker[w])
    /\ UNCHANGED <<apTree, apChallenge, apManifest, apNested, apLedger, apLock,
                   apAggregate, apCheckpoint, apReady, apIds, apMoves, apStops>>

(* evaluate_release_gate, the other requirements met; the locks it compares *)
(* with HEAD are tracked sources.                                           *)
GatePasses ==
    /\ apClean
    /\ apRelease.acceptance = Profiles
    /\ apRelease.status \in {"ELIGIBLE_FOR_HUMAN_APPROVAL", "APPROVED"}

EvaluateGate(w) ==
    /\ Doing(w, "gate")
    /\ apReady' = (worker[w].all /\ worker[w].verified /\ GatePasses)
    /\ StepDone(w, worker[w])
    /\ UNCHANGED <<apTree, apChallenge, apManifest, apNested, apLedger, apLock,
                   apAggregate, apCheckpoint, apRelease, apIds, apMoves, apStops>>

(* A command is killed; the system releases its file lock. *)
CommandDies(w) ==
    /\ worker[w] # IdleWorker /\ apStops < MaxStops
    /\ apStops' = apStops + 1
    /\ apLock' = IF apLock = w THEN NoDoc ELSE apLock
    /\ StopCommand(w)
    /\ UNCHANGED <<apTree, apChallenge, apManifest, apNested, apLedger, apAggregate,
                   apCheckpoint, apRelease, apReady, apIds, apMoves>>

(* Meanwhile HEAD moves, tracked sources are edited or restored, days pass. *)
SourceMoves ==
    /\ apMoves < MaxMoves /\ apMoves' = apMoves + 1
    /\ \/ apHead' \in Commits \ {apHead} /\ apClean /\ UNCHANGED <<apClean, apDay>>
       \/ apClean' = ~apClean /\ UNCHANGED <<apHead, apDay>>
       \/ apDay' = apDay + 1 /\ UNCHANGED <<apHead, apClean>>
    /\ UNCHANGED <<apFiles, worker, apIds, apStops>>

AcceptanceNext ==
    \/ SourceMoves
    \/ \E w \in Workers :
        \/ \E todo \in CommandSet : StartCommand(w, todo)
        \/ \E b \in BOOLEAN : CreateChallenge(w, b) \/ SignCheckpoint(w, b)
        \/ ReuseChallenge(w)
        \/ \E p \in Profiles, real \in BOOLEAN, env \in Environments :
              StartRun(w, p, real, env)
        \/ \E p \in Profiles, pass \in BOOLEAN : RunCommands(w, p, pass)
        \/ \E p \in Profiles : WriteManifest(w, p)
        \/ ReadLedger(w) \/ AppendEntry(w)
        \/ StartMerge(w) \/ ReadProfile(w) \/ WriteAggregate(w)
        \/ VerifyMerged(w) \/ GenerateReleaseManifest(w) \/ EvaluateGate(w)
        \/ CommandDies(w)

AcceptanceSpec == AcceptanceInit /\ [][AcceptanceNext]_acceptanceVars

-----------------------------------------------------------------------------
(* The evidence ledger is append-only whichever commands append at once or  *)
(* die holding the lock (evidence_ledger.py, 79-112).                       *)
LedgerAppendOnly ==
    [][SubSeq(apLedger', 1, Len(apLedger)) = apLedger]_apLedger

(* Whenever the verifier accepts manifest_all.json, every profile really    *)
(* passed under the challenge on disk, with its commands begun at the       *)
(* present commit, all in one environment and each recorded in the ledger,  *)
(* and the nested evidence on disk is that run's: whatever concurrent runs, *)
(* new challenges, checkouts and killed commands left in the shared files   *)
(* (verify_external_acceptance.py, 184-585).                                *)
AcceptedIsOneCampaign ==
    Accepted =>
        \A p \in Profiles :
            LET doc == apManifest[p]
            IN /\ doc.real /\ doc.pass /\ doc.began = apHead
               /\ doc.challenge = apChallenge.id
               /\ doc.env = apAggregate.env
               /\ apNested[p] = doc.run
               /\ \E i \in 1..Len(apLedger) : apLedger[i].run = doc.run

(* No orchestration reports production readiness by itself, even when every *)
(* profile, the merge, the checkpoint and the verifier passed: the manifest *)
(* it writes before the gate is BLOCKED                                     *)
(* (production_acceptance_orchestrator.py, 159-168).                        *)
NeverSelfApproved == ~apReady

(* The verifier and the orchestrator: what is accepted was earned, and      *)
(* acceptance is not yet readiness.                                         *)
AcceptanceIsEarned == AcceptedIsOneCampaign /\ NeverSelfApproved

(* Stated by the documentation: a status is PASS only for evidence verified *)
(* for the current release (ACCEPTANCE_CLOSURE_RUNBOOK.md, 3).              *)
PassIsVerified ==
    [][apRelease'.acceptance = Profiles => AggregateVerified]_apRelease
=============================================================================
