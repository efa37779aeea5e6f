------------------------------ MODULE Deployment ------------------------------
(***************************************************************************)
(* The release update, rollback and database migration transactions of the  *)
(* deployment scripts, each a sequence of renames and file writes that may  *)
(* stop after any of them, and the recovery that the next one starts with.  *)
(*                                                                          *)
(* The worker "op" holds the operation lock (module OperationLock); the     *)
(* worker "tool" is `transactional_release_update.py --recover-only`, which *)
(* takes no lock. The --recover-only of the migration guard takes none      *)
(* either; it is taken not to be started beside an operation.               *)
(*                                                                          *)
(* Each migration keeps its journal in the directory that its own           *)
(* --state-dir names, and looks for other journals only there. Updates and  *)
(* rollbacks look only in the parent of the active directory.               *)
(***************************************************************************)
EXTENDS Integers, FiniteSets

CONSTANTS Releases,
          NoTree,         \* the directory is not there
          Installed,      \* the release of the first installation
          SchemaHead,     \* the migration head of each release
          Compatible,     \* the revisions that are previous_release_compatible
          StateDirs,      \* the directories the operator gives as --state-dir
          ActiveParent,   \* the parent of the active directory, where updates keep theirs
          Sound,          \* the releases whose manifest agrees with their package
                          \* identity, migration head and architecture profile
          Faults,         \* the operations that may crash or fail on an OS error
          ToolMayOverlap, \* the operator may start the tool beside a running operation
          MaxUpdates      \* bound on staged updates, for model checking only

Operations == {"update", "rollback", "migrate", "recover"}

ASSUME DeploymentAssumption ==
  /\ NoTree \notin Releases /\ Installed \in Releases
  /\ SchemaHead \in [Releases -> Nat] /\ Compatible \subseteq Nat /\ Sound \subseteq Releases
  /\ ActiveParent \in StateDirs
  /\ Faults \subseteq Operations /\ ToolMayOverlap \in BOOLEAN
  /\ MaxUpdates \in Nat

VARIABLES active,     \* the tree in the active directory
          backup,     \* the tree in the rollback directory of each update
          candidate,  \* the tree in its candidate directory
          receipt,    \* its rollback and acceptance receipts
          journal,    \* .release-update.transaction.json
          db,         \* the migration head of the database
          mjournal,   \* .database-migration.transaction.json of each state directory
          mreceipts,  \* the migration receipts: pairs of active and candidate trees
          dump,       \* the head of the database dump whose restore drill passed
          dbBackup,   \* the backup receipt: the tree and the head it is bound to
          audit,      \* the deployment audit chain
          job,        \* what each worker is doing
          used,       \* how many updates were staged
          committed   \* the release of the last accepted update or rollback

trees == <<active, backup, candidate>>
backups == <<dump, dbBackup>>
migration == <<db, mjournal, mreceipts, backups>>
vars == <<trees, receipt, journal, migration, audit, job, used, committed>>

-----------------------------------------------------------------------------
Workers == {"op", "tool"}
Updates == 1..MaxUpdates
Trees == Releases \cup {NoTree}
Statuses == {"PREPARED", "ACTIVE_MOVED_TO_BACKUP", "CANDIDATE_PROMOTED"}
NoJournal == [status |-> "none", token |-> 0]
Journals == [status : Statuses, token : Updates] \cup {NoJournal}
NoDump == [taken |-> FALSE, head |-> 0]
NoBackup == [tree |-> NoTree, head |-> 0]
Backups == [tree : Trees, head : Nat]
NoMigration == [pair |-> <<NoTree, NoTree>>, from |-> 0, to |-> 0, backup |-> NoBackup]
Migrations == [pair : Trees \X Trees, from : Nat, to : Nat, backup : Backups]

\* kind: whether a migration receipt is bound; tree: the backup_tree_sha256.
NoReceipt == [kind |-> "none", tree |-> NoTree]
Receipts == [kind : {"none", "plain", "migrated"}, tree : Trees]

UpdateSteps == {"stage", "u_journal", "u_move", "u_mark", "u_promote", "u_mark_promoted",
                "u_accept", "u_audit", "u_commit"}
RollbackSteps == {"b_aside", "b_restore", "b_accept", "b_undo", "b_undo_aside", "b_audit", "b_clean"}
MigrateSteps == {"m_recover", "m_plan", "m_command", "m_probe", "m_receipt", "m_audit", "m_unlink"}
RecoverSteps == {"recover", "r_look", "r_aside", "r_restore", "r_discard", "r_unlink"}
Steps == UpdateSteps \cup RollbackSteps \cup MigrateSteps \cup RecoverSteps \cup {"idle"}

OperationOf(pc) ==
  CASE pc \in UpdateSteps -> "update" [] pc \in RollbackSteps -> "rollback"
    [] pc \in MigrateSteps -> "migrate" [] pc \in RecoverSteps -> "recover"

\* target: the release to install; aside: the tree in the .release-update-failed
\* directory; bound: the receipts to write, with the pre_update_hash; then: what
\* follows a recovery; dir: the state_dir of a migration.
Jobs == [pc : Steps, token : Updates \cup {0}, target : Trees, status : Statuses \cup {"none"},
         aside : Trees, bound : Receipts, then : {"idle", "stage", "m_plan"}, dir : StateDirs]
Idle == [pc |-> "idle", token |-> 0, target |-> NoTree, status |-> "none", aside |-> NoTree,
         bound |-> NoReceipt, then |-> "idle", dir |-> ActiveParent]

TypeOK ==
  /\ active \in Trees
  /\ backup \in [Updates -> Trees] /\ candidate \in [Updates -> Trees]
  /\ receipt \in [Updates -> Receipts]
  /\ journal \in Journals
  /\ db \in Nat
  /\ mjournal \in [StateDirs -> Migrations]
  /\ dump \in [taken : BOOLEAN, head : Nat] /\ dbBackup \in Backups
  /\ mreceipts \subseteq Releases \X Releases
  /\ audit \subseteq ({"update", "rollback"} \X Releases) \cup ({"migration"} \X (Releases \X Releases))
  /\ job \in [Workers -> Jobs]
  /\ used \in 0..MaxUpdates /\ committed \in Releases

Init ==
  /\ active = Installed /\ committed = Installed /\ db = SchemaHead[Installed]
  /\ backup = [t \in Updates |-> NoTree] /\ candidate = [t \in Updates |-> NoTree]
  /\ receipt = [t \in Updates |-> NoReceipt] /\ dump = NoDump /\ dbBackup = NoBackup
  /\ journal = NoJournal /\ mjournal = [d \in StateDirs |-> NoMigration] /\ mreceipts = {}
  /\ audit = {} /\ used = 0
  /\ job = [w \in Workers |-> Idle]

Doing(w, pc) == job[w].pc = pc
Continue(w, pc) == job' = [job EXCEPT ![w].pc = pc]
Stop(w) == job' = [job EXCEPT ![w] = Idle]

\* The operation lock is free.
Free == Doing("op", "idle") /\ (ToolMayOverlap \/ Doing("tool", "idle"))

\* _validate_active and assert_no_conflicting_journals.
MayBegin == Free /\ active # NoTree /\ mjournal[ActiveParent] = NoMigration

-----------------------------------------------------------------------------
(* recover_incomplete_update.                                              *)

\* The worker is through with a recovery.
Resume(w) ==
  IF job[w].then = "stage" /\ active # NoTree THEN Continue(w, "stage") ELSE Stop(w)

ToolBegin ==
  /\ Doing("tool", "idle") /\ (ToolMayOverlap \/ Doing("op", "idle"))
  /\ journal # NoJournal
  /\ Continue("tool", "recover")
  /\ UNCHANGED <<trees, receipt, journal, migration, audit, used, committed>>

RecoverRead(w) ==
  /\ Doing(w, "recover")
  /\ IF journal = NoJournal THEN Resume(w)
     ELSE job' = [job EXCEPT ![w].pc = "r_look", ![w].token = journal.token,
                             ![w].status = journal.status]
  /\ UNCHANGED <<trees, receipt, journal, migration, audit, used, committed>>

\* Mutation of RecoverLook: the active tree is kept when there is one.
RecoverLookKeeps(w) ==
  /\ Doing(w, "r_look")
  /\ Continue(w, IF active # NoTree THEN "r_discard" ELSE "r_restore")
  /\ UNCHANGED <<trees, receipt, journal, migration, audit, used, committed>>

\* With no backup only a transaction that moved nothing is given up.
RecoverLook(w) ==
  /\ Doing(w, "r_look")
  /\ IF backup[job[w].token] # NoTree
     THEN Continue(w, IF active # NoTree THEN "r_aside" ELSE "r_restore")
     ELSE IF job[w].status = "PREPARED" THEN Continue(w, "r_discard") ELSE Stop(w)
  /\ UNCHANGED <<trees, receipt, journal, migration, audit, used, committed>>

RecoverAside(w) ==
  /\ Doing(w, "r_aside")
  /\ active' = NoTree
  /\ IF active = NoTree THEN Stop(w)
     ELSE job' = [job EXCEPT ![w].pc = "r_restore", ![w].aside = active]
  /\ UNCHANGED <<backup, candidate, receipt, journal, migration, audit, used, committed>>

\* A rename that fails puts back the tree set aside, if its place is free.
RecoverRestore(w) ==
  LET t == job[w].token IN
  /\ Doing(w, "r_restore")
  /\ IF backup[t] # NoTree /\ active = NoTree
     THEN active' = backup[t] /\ backup' = [backup EXCEPT ![t] = NoTree] /\ Continue(w, "r_discard")
     ELSE /\ active' = IF active = NoTree THEN job[w].aside ELSE active
          /\ UNCHANGED backup /\ Stop(w)
  /\ UNCHANGED <<candidate, receipt, journal, migration, audit, used, committed>>

RecoverDiscard(w) ==
  /\ Doing(w, "r_discard")
  /\ candidate' = [candidate EXCEPT ![job[w].token] = NoTree]
  /\ receipt' = [receipt EXCEPT ![job[w].token] = NoReceipt]
  /\ Continue(w, "r_unlink")
  /\ UNCHANGED <<active, backup, journal, migration, audit, used, committed>>

RecoverForget(w) ==
  /\ Doing(w, "r_unlink")
  /\ journal' = NoJournal
  /\ IF journal = NoJournal THEN Stop(w) ELSE Resume(w)
  /\ UNCHANGED <<trees, receipt, migration, audit, used, committed>>

Recover(w) ==
  \/ RecoverRead(w) \/ RecoverLook(w) \/ RecoverAside(w) \/ RecoverRestore(w)
  \/ RecoverDiscard(w) \/ RecoverForget(w)

-----------------------------------------------------------------------------
(* apply_update.                                                           *)

\* Mutation of Planned: the compatibility contract is not read.
PlannedAnyway(from, to) == SchemaHead[to] >= SchemaHead[from]

\* compare_release_migrations succeeds.
Planned(from, to) ==
  SchemaHead[to] >= SchemaHead[from] /\ (SchemaHead[from] + 1)..SchemaHead[to] \subseteq Compatible
Required(from, to) == SchemaHead[from] # SchemaHead[to]

\* The receipt names the active and the candidate tree; their heads are the trees'.
VerifyMigrationReceipt(from, to) == <<from, to>> \in mreceipts

UpdateBegin(release) ==
  /\ MayBegin
  /\ used < MaxUpdates
  /\ job' = [job EXCEPT !["op"] = [Idle EXCEPT !.pc = "recover", !.target = release, !.then = "stage"]]
  /\ UNCHANGED <<trees, receipt, journal, migration, audit, used, committed>>

\* The candidate is extracted and verified, and its migrations have been applied.
Stage ==
  LET t == used + 1  release == job["op"].target IN
  /\ Doing("op", "stage") /\ active # NoTree /\ used < MaxUpdates
  /\ Planned(active, release)
  /\ Required(active, release) => VerifyMigrationReceipt(active, release)
  /\ used' = t
  /\ candidate' = [candidate EXCEPT ![t] = release]
  /\ job' = [job EXCEPT !["op"].pc = "u_journal", !["op"].token = t,
                        !["op"].bound =
                          [kind |-> IF Required(active, release) THEN "migrated" ELSE "plain",
                           tree |-> active]]
  /\ UNCHANGED <<active, backup, receipt, journal, migration, audit, committed>>

\* The journal is written before the move, after it and after the promotion.
Record(pc, status, next) ==
  /\ Doing("op", pc)
  /\ journal' = [status |-> status, token |-> job["op"].token]
  /\ Continue("op", next)
  /\ UNCHANGED <<trees, receipt, migration, audit, used, committed>>

Prepare == Record("u_journal", "PREPARED", "u_move")
MarkMoved == Record("u_mark", "ACTIVE_MOVED_TO_BACKUP", "u_promote")
MarkPromoted == Record("u_mark_promoted", "CANDIDATE_PROMOTED", "u_accept")

MoveActive ==
  /\ Doing("op", "u_move") /\ active # NoTree
  /\ backup' = [backup EXCEPT ![job["op"].token] = active]
  /\ active' = NoTree
  /\ Continue("op", "u_mark")
  /\ UNCHANGED <<candidate, receipt, journal, migration, audit, used, committed>>

Promote ==
  LET t == job["op"].token IN
  /\ Doing("op", "u_promote") /\ active = NoTree /\ candidate[t] # NoTree
  /\ active' = candidate[t]
  /\ candidate' = [candidate EXCEPT ![t] = NoTree]
  /\ Continue("op", "u_mark_promoted")
  /\ UNCHANGED <<backup, receipt, journal, migration, audit, used, committed>>

\* Mutation of VerifyRuntimeBinding: a release that is there is bound.
BindingUnchecked(tree) == tree \in Releases

VerifyRuntimeBinding(tree) == tree \in Sound

\* passed: the acceptance command returned 0 in time.
PostCutoverAcceptance(tree, passed) == VerifyRuntimeBinding(tree) /\ passed

\* Mutation of Accept: the audit event is not written.
AcceptUnaudited ==
  /\ Doing("op", "u_accept") /\ active # NoTree
  /\ receipt' = [receipt EXCEPT ![job["op"].token] = job["op"].bound]
  /\ Continue("op", "u_commit")
  /\ UNCHANGED <<trees, journal, migration, audit, used, committed>>

\* The acceptance passes and both receipts are written.
Accept ==
  /\ Doing("op", "u_accept") /\ PostCutoverAcceptance(active, TRUE)
  /\ receipt' = [receipt EXCEPT ![job["op"].token] = job["op"].bound]
  /\ Continue("op", "u_audit")
  /\ UNCHANGED <<trees, journal, migration, audit, used, committed>>

AuditUpdate ==
  /\ Doing("op", "u_audit") /\ active # NoTree
  /\ audit' = audit \cup {<<"update", active>>}
  /\ Continue("op", "u_commit")
  /\ UNCHANGED <<trees, receipt, journal, migration, used, committed>>

\* Mutation of Commit: the journal is left behind.
CommitKeepsJournal ==
  /\ Doing("op", "u_commit") /\ journal # NoJournal
  /\ committed' = active
  /\ Stop("op")
  /\ UNCHANGED <<trees, receipt, journal, migration, audit, used>>

\* The journal is unlinked: the update is in effect.
Commit ==
  /\ Doing("op", "u_commit") /\ journal # NoJournal
  /\ journal' = NoJournal
  /\ committed' = active
  /\ Stop("op")
  /\ UNCHANGED <<trees, receipt, migration, audit, used>>

\* The acceptance rejects the candidate or a step raises: with a journal the
\* update is recovered at once, without one the staging directories go.
UpdateRaises ==
  LET t == job["op"].token IN
  /\ job["op"].pc \in UpdateSteps
  /\ IF journal # NoJournal
     THEN job' = [job EXCEPT !["op"] = [Idle EXCEPT !.pc = "recover"]] /\ UNCHANGED candidate
     ELSE /\ Stop("op")
          /\ candidate' = IF t = 0 THEN candidate ELSE [candidate EXCEPT ![t] = NoTree]
  /\ UNCHANGED <<active, backup, receipt, journal, migration, audit, used, committed>>

Update ==
  \/ Stage \/ Prepare \/ MoveActive \/ MarkMoved \/ Promote \/ MarkPromoted
  \/ Accept \/ AuditUpdate \/ Commit \/ UpdateRaises

-----------------------------------------------------------------------------
(* rollback_last_update.                                                   *)

\* Both receipts are there and the backup is the tree they name.
VerifyRollbackReceipt(t) == receipt[t].kind # "none" /\ receipt[t].tree = backup[t]

\* _verify_rollback_database_compatibility.
DatabaseAdmits(t) ==
  \/ receipt[t].kind = "plain"
  \/ db = SchemaHead[backup[t]]
  \/ db = SchemaHead[active] /\ Planned(backup[t], active)

RollbackBegin(t) ==
  /\ MayBegin
  /\ backup[t] # NoTree /\ VerifyRollbackReceipt(t) /\ DatabaseAdmits(t)
  /\ job' = [job EXCEPT !["op"] =
       [Idle EXCEPT !.pc = IF journal # NoJournal THEN "recover" ELSE "b_aside", !.token = t]]
  /\ UNCHANGED <<trees, receipt, journal, migration, audit, used, committed>>

RollbackAside ==
  /\ Doing("op", "b_aside") /\ active # NoTree
  /\ active' = NoTree
  /\ job' = [job EXCEPT !["op"].pc = "b_restore", !["op"].aside = active]
  /\ UNCHANGED <<backup, candidate, receipt, journal, migration, audit, used, committed>>

RollbackRestore ==
  LET t == job["op"].token IN
  /\ Doing("op", "b_restore") /\ active = NoTree /\ backup[t] # NoTree
  /\ active' = backup[t]
  /\ backup' = [backup EXCEPT ![t] = NoTree]
  /\ Continue("op", "b_accept")
  /\ UNCHANGED <<candidate, receipt, journal, migration, audit, used, committed>>

\* The rename fails and the active tree goes back.
RollbackRestoreFails ==
  /\ Doing("op", "b_restore") /\ active = NoTree
  /\ active' = job["op"].aside
  /\ Stop("op")
  /\ UNCHANGED <<backup, candidate, receipt, journal, migration, audit, used, committed>>

\* Without an acceptance command nothing is verified.
RollbackAccept(command, passed) ==
  /\ Doing("op", "b_accept")
  /\ Continue("op", IF command => PostCutoverAcceptance(active, passed) THEN "b_audit" ELSE "b_undo")
  /\ UNCHANGED <<trees, receipt, journal, migration, audit, used, committed>>

\* A rollback that is not accepted is reverted, rename by rename.
RollbackUndo ==
  /\ Doing("op", "b_undo") /\ active # NoTree
  /\ backup' = [backup EXCEPT ![job["op"].token] = active]
  /\ active' = NoTree
  /\ Continue("op", "b_undo_aside")
  /\ UNCHANGED <<candidate, receipt, journal, migration, audit, used, committed>>

RollbackUndoAside ==
  /\ Doing("op", "b_undo_aside") /\ active = NoTree
  /\ active' = job["op"].aside
  /\ Stop("op")
  /\ UNCHANGED <<backup, candidate, receipt, journal, migration, audit, used, committed>>

\* The rollback receipt and the audit event.
AuditRollback ==
  /\ Doing("op", "b_audit") /\ active # NoTree
  /\ audit' = audit \cup {<<"rollback", active>>}
  /\ committed' = active
  /\ Continue("op", "b_clean")
  /\ UNCHANGED <<trees, receipt, journal, migration, used>>

RollbackClean ==
  /\ Doing("op", "b_clean")
  /\ receipt' = [receipt EXCEPT ![job["op"].token] = NoReceipt]
  /\ Stop("op")
  /\ UNCHANGED <<trees, journal, migration, audit, used, committed>>

Rollback ==
  \/ RollbackAside \/ RollbackRestore \/ RollbackRestoreFails
  \/ \E command, passed \in BOOLEAN : RollbackAccept(command, passed)
  \/ RollbackUndo \/ RollbackUndoAside \/ AuditRollback \/ RollbackClean

-----------------------------------------------------------------------------
(* run_guarded_migration and recover_migration_transaction.                *)

\* The operator dumps the database and a restore drill of the dump passes.
RestoreDrill ==
  /\ dump' = [taken |-> TRUE, head |-> db]
  /\ UNCHANGED <<trees, receipt, journal, db, mjournal, mreceipts, dbBackup, audit, job, used,
                 committed>>

\* create_receipt binds the dump, and the head the operator read with it, to the tree
\* that is active by then.
CreateReceipt ==
  /\ dump.taken /\ active # NoTree
  /\ dbBackup' = [tree |-> active, head |-> dump.head]
  /\ UNCHANGED <<trees, receipt, journal, db, mjournal, mreceipts, dump, audit, job, used,
                 committed>>

\* A day passes: neither the drill nor the backup receipt is accepted any more.
ReceiptAge ==
  /\ dump.taken
  /\ dump' = NoDump /\ dbBackup' = NoBackup
  /\ UNCHANGED <<trees, receipt, journal, db, mjournal, mreceipts, audit, job, used, committed>>

Backup == RestoreDrill \/ CreateReceipt \/ ReceiptAge

\* Mutation of VerifyBackupReceipt: the active tree is not compared.
VerifyBackupOfAnyTree(tree, head) == dbBackup.tree # NoTree /\ dbBackup.head = head

VerifyBackupReceipt(tree, head) == dbBackup = [tree |-> tree, head |-> head]

\* Mutation of MigrateBegin: no check for the journal of another transaction.
MigrateBeginUnchecked(release, then, d) ==
  /\ Free
  /\ job' = [job EXCEPT !["op"] =
       [Idle EXCEPT !.pc = "m_recover", !.target = release, !.then = then, !.dir = d]]
  /\ UNCHANGED <<trees, receipt, journal, migration, audit, used, committed>>

\* assert_no_conflicting_journals looks in the state_dir d. then = "idle":
\* --recover-only, which has no candidate to plan for and does not look.
MigrateBegin(release, then, d) ==
  /\ Free
  /\ then = "m_plan" /\ d = ActiveParent => journal = NoJournal
  /\ job' = [job EXCEPT !["op"] =
       [Idle EXCEPT !.pc = "m_recover", !.target = release, !.then = then, !.dir = d]]
  /\ UNCHANGED <<trees, receipt, journal, migration, audit, used, committed>>

\* The journal in the state directory of the migration under way.
Open == mjournal[job["op"].dir]
SetOpen(m) == mjournal' = [mjournal EXCEPT ![job["op"].dir] = m]

\* Mutation of MigrateRecover: a migration that did not reach its head counts as done.
MigrateRecoverGuesses ==
  /\ Doing("op", "m_recover")
  /\ SetOpen(NoMigration) /\ Continue("op", job["op"].then)
  /\ mreceipts' = IF Open = NoMigration \/ db = Open.from THEN mreceipts
                  ELSE mreceipts \cup {Open.pair}
  /\ UNCHANGED <<trees, receipt, journal, db, backups, audit, used, committed>>

\* The database says whether an interrupted migration happened; any other head is
\* ambiguous and the journal stays.
MigrateRecover ==
  /\ Doing("op", "m_recover")
  /\ IF Open = NoMigration \/ db \in {Open.from, Open.to}
     THEN SetOpen(NoMigration) /\ Continue("op", job["op"].then)
     ELSE UNCHANGED mjournal /\ Stop("op")
  /\ mreceipts' = IF Open # NoMigration /\ db = Open.to /\ db # Open.from
                  THEN mreceipts \cup {Open.pair} ELSE mreceipts
  /\ UNCHANGED <<trees, receipt, journal, db, backups, audit, used, committed>>

\* The plan, the backup receipt, the head before the migration and the journal.
MigratePlan ==
  LET release == job["op"].target IN
  /\ Doing("op", "m_plan")
  /\ IF active # NoTree /\ Required(active, release) /\ Planned(active, release)
          /\ db = SchemaHead[active] /\ VerifyBackupReceipt(active, SchemaHead[active])
     THEN /\ SetOpen([pair |-> <<active, release>>, from |-> SchemaHead[active],
                      to |-> SchemaHead[release], backup |-> dbBackup])
          /\ Continue("op", "m_command")
     ELSE UNCHANGED mjournal /\ Stop("op")
  /\ UNCHANGED <<trees, receipt, journal, db, mreceipts, backups, audit, used, committed>>

\* The migration command applies revisions one transaction each and may stop, fail or
\* time out after any of them; completed: it returned 0.
MigrateCommand(head, completed) ==
  /\ Doing("op", "m_command")
  /\ head \in db..Open.to
  /\ db' = head
  /\ IF completed THEN Continue("op", "m_probe") ELSE Stop("op")
  /\ UNCHANGED <<trees, receipt, journal, mjournal, mreceipts, backups, audit, used, committed>>

MigrateProbe ==
  /\ Doing("op", "m_probe")
  /\ IF db = Open.to THEN Continue("op", "m_receipt") ELSE Stop("op")
  /\ UNCHANGED <<trees, receipt, journal, migration, audit, used, committed>>

MigrateReceipt ==
  /\ Doing("op", "m_receipt")
  /\ mreceipts' = mreceipts \cup {Open.pair}
  /\ Continue("op", "m_audit")
  /\ UNCHANGED <<trees, receipt, journal, db, mjournal, backups, audit, used, committed>>

\* The audit chain is in ActiveParent, wherever the journal is.
AuditMigration ==
  /\ Doing("op", "m_audit")
  /\ audit' = audit \cup {<<"migration", Open.pair>>}
  /\ Continue("op", "m_unlink")
  /\ UNCHANGED <<trees, receipt, journal, migration, used, committed>>

MigrateUnlink ==
  /\ Doing("op", "m_unlink")
  /\ SetOpen(NoMigration)
  /\ Stop("op")
  /\ UNCHANGED <<trees, receipt, journal, db, mreceipts, backups, audit, used, committed>>

Migrate ==
  \/ MigrateRecover \/ MigratePlan \/ MigrateProbe \/ MigrateReceipt \/ AuditMigration \/ MigrateUnlink
  \/ \E head \in 0..Open.to, completed \in BOOLEAN : MigrateCommand(head, completed)

-----------------------------------------------------------------------------
\* The process or the host stops, or a step raises that no handler recovers.
Crash(w) ==
  /\ ~Doing(w, "idle") /\ OperationOf(job[w].pc) \in Faults
  /\ Stop(w)
  /\ UNCHANGED <<trees, receipt, journal, migration, audit, used, committed>>

Next ==
  \/ ToolBegin
  \/ \E w \in Workers : Recover(w) \/ Crash(w)
  \/ \E release \in Releases : UpdateBegin(release)
  \/ \E d \in StateDirs :
       MigrateBegin(NoTree, "idle", d) \/ \E release \in Releases : MigrateBegin(release, "m_plan", d)
  \/ \E t \in Updates : RollbackBegin(t)
  \/ Update \/ Rollback \/ Migrate \/ Backup

Spec == Init /\ [][Next]_vars

-----------------------------------------------------------------------------
(* Properties.                                                             *)

AtRest == \A w \in Workers : Doing(w, "idle")

\* transactional_release_update: with no journal and nothing running, the active
\* directory holds exactly the release that was last accepted, whatever crashed,
\* was rejected or was recovered before.
ActiveIsCommitted == AtRest /\ journal = NoJournal => active = committed

\* recover_incomplete_update: a journal that is left behind leads a recovery back to
\* the release that was last accepted.
RecoveryHasTheTree ==
  AtRest /\ journal # NoJournal =>
    \/ backup[journal.token] = committed
    \/ journal.status = "PREPARED" /\ backup[journal.token] = NoTree /\ active = committed

\* transactional_release_update.py: the accepted release is active, or the
\* next recovery has what it takes to make it so.
ReleaseIsRecoverable == ActiveIsCommitted /\ RecoveryHasTheTree

\* assert_no_conflicting_journals: an update and a migration that keep their journals in the
\* same directory are never both open.
OneTransaction == journal = NoJournal \/ mjournal[ActiveParent] = NoMigration

\* docs/UPDATE_ROLLBACK.md, Phase 191: "A surviving transaction journal from another mutation
\* class fails closed instead of allowing overlapping recovery assumptions".
OneTransactionAnywhere == journal = NoJournal \/ \A d \in StateDirs : mjournal[d] = NoMigration

\* compare_release_migrations and the migration receipt: the code that is active,
\* after any update, rollback or recovery, has a database that is not behind it, and
\* every revision the database is ahead by is previous_release_compatible.
DatabaseServesCode ==
  active # NoTree => SchemaHead[active] <= db /\ (SchemaHead[active] + 1)..db \subseteq Compatible

\* run_guarded_migration: whoever holds a migration receipt can rely on the database.
ReceiptIsTrue == \A pair \in mreceipts : SchemaHead[pair[2]] <= db

\* append_event comes before the journal is unlinked: what is in effect was audited.
CommittedIsAudited ==
  committed # Installed => {<<"update", committed>>, <<"rollback", committed>>} \cap audit # {}

\* run_post_cutover_acceptance: a candidate that fails its static binding is never
\* in effect, though it is active while it is being accepted.
CommittedIsBound == committed \in Sound \cup {Installed}

\* _verify_rollback_receipt: a receipt names the tree in the backup beside it.
ReceiptNamesBackup ==
  AtRest => \A t \in Updates : receipt[t].kind # "none" => receipt[t].tree = backup[t]

\* verify_backup_receipt: a migration under way can be undone from a backup of the very
\* tree and head it started from, however long ago the dump was taken.
MigrationHasBackup ==
  \A d \in StateDirs :
    mjournal[d] # NoMigration =>
      mjournal[d].backup = [tree |-> mjournal[d].pair[1], head |-> mjournal[d].from]

\* database_migration_guard.py: what the migrations and their journal promise of the database.
DatabaseIsInStep == DatabaseServesCode /\ OneTransaction /\ ReceiptIsTrue /\ MigrationHasBackup

\* append_event and run_post_cutover_acceptance: what an update must have passed to be in effect.
CommittedIsAccepted == CommittedIsAudited /\ CommittedIsBound

\* transactional_release_update: with no journal and nothing running, no release is active that
\* was neither installed first nor accepted, whatever stopped half way.
ActiveWasAccepted == AtRest /\ journal = NoJournal => active \in Sound \cup {Installed, NoTree}

\* database_migration_guard.py: the database serves the active code, and
\* journals, receipts and audit events say what happened.
RecordsMatchDatabase == DatabaseIsInStep /\ ReceiptNamesBackup /\ CommittedIsAccepted

\* The tools together: whatever stops half way, the accepted release can be had back, and the
\* database and its records are in step with it.
DeploymentIsSafe == ReleaseIsRecoverable /\ RecordsMatchDatabase

\* docs/UPDATE_ROLLBACK.md, Phase 192: "guarded database migration commits [...] are
\* recorded in the tamper-evident deployment audit chain".
MigrationIsAudited ==
  (\A d \in StateDirs : mjournal[d] = NoMigration) =>
    \A pair \in mreceipts : <<"migration", pair>> \in audit
=============================================================================
