-------------------------- MODULE Operations_proofs --------------------------
(***************************************************************************)
(* Proofs about the deployment transactions, for any set of releases and   *)
(* any number of updates: that the accepted release can be had back, when  *)
(* an update or a migration may stop anywhere, a recovery or a rollback    *)
(* runs to its end, and the recovery tool does not run beside an operation; *)
(* that the database stays in step, and that only what was accepted is in  *)
(* effect, when anything may stop anywhere. And about the operation lock,  *)
(* the process trees of bounded commands and local test evidence.          *)
(***************************************************************************)
EXTENDS Deployment, OperationLock, ProcessTree, LocalEvidence, FiniteSetTheorems, TLAPS

-----------------------------------------------------------------------------
(* The inductive invariant.                                                *)

\* The operation lock, and the tool that is not started beside an operation.
Solo ==
  /\ job["op"].pc = "idle" \/ job["tool"].pc = "idle"
  /\ job["tool"].pc \in RecoverSteps \cup {"idle"} /\ job["tool"].then = "idle"

\* What a recovery that starts now makes of the trees.
Recoverable ==
  IF journal = NoJournal THEN active = committed
  ELSE \/ backup[journal.token] = committed
       \/ journal.status = "PREPARED" /\ backup[journal.token] = NoTree /\ active = committed

\* A recovery under way works on the transaction of the journal.
Recovering(w) ==
  LET pc == job[w].pc  t == job[w].token IN
  /\ pc \in {"r_look", "r_aside", "r_restore", "r_discard", "r_unlink"} =>
       journal # NoJournal /\ t = journal.token
  /\ pc = "recover" => Recoverable
  /\ pc = "r_look" => Recoverable /\ job[w].status = journal.status
  /\ pc \in {"r_aside", "r_restore"} => backup[t] = committed
  /\ pc = "r_restore" => active = NoTree
  /\ pc \in {"r_discard", "r_unlink"} => active = committed
  /\ pc \in RecoverSteps /\ job[w].then = "stage" => mjournal[ActiveParent] = NoMigration

\* An update under way: the release in effect is active before the move and in the
\* backup after it, and the journal says so.
Updating ==
  LET pc == job["op"].pc  t == job["op"].token IN
  /\ pc \in UpdateSteps => mjournal[ActiveParent] = NoMigration
  /\ pc \in {"stage", "u_journal"} => journal = NoJournal
  /\ pc \in {"stage", "u_journal", "u_move"} => active = committed
  /\ pc \in UpdateSteps \ {"stage"} => t \in 1..used /\ job["op"].bound.tree = committed
  /\ pc \in {"u_journal", "u_move"} => backup[t] = NoTree
  /\ pc \in {"u_mark", "u_promote", "u_mark_promoted", "u_accept", "u_audit", "u_commit"} =>
       backup[t] = committed
  /\ pc \in {"u_journal", "u_move", "u_mark", "u_promote", "u_mark_promoted", "u_accept"} =>
       receipt[t].kind = "none"
  /\ pc \in UpdateSteps \ {"stage", "u_journal"} => journal # NoJournal /\ journal.token = t
  /\ pc \in {"u_move", "u_mark"} => journal.status = "PREPARED"
  /\ pc \in {"u_mark_promoted", "u_accept", "u_audit", "u_commit"} => active # NoTree
  /\ pc \in {"u_audit", "u_commit"} => active \in Sound
  /\ pc = "u_commit" => <<"update", active>> \in audit

\* A rollback under way: the release in effect is set aside until another one is.
RollingBack ==
  LET pc == job["op"].pc  t == job["op"].token IN
  /\ pc \in RollbackSteps => journal = NoJournal /\ mjournal[ActiveParent] = NoMigration /\ t \in 1..used
  /\ pc \in {"b_aside", "b_clean"} => active = committed
  /\ pc \in {"b_aside", "b_restore"} => receipt[t].kind # "none"
  /\ pc \in {"b_restore", "b_accept", "b_undo", "b_undo_aside"} => job["op"].aside = committed
  /\ pc \in {"b_restore", "b_undo_aside"} => active = NoTree
  /\ pc \in {"b_accept", "b_undo", "b_audit"} =>
       active \in Sound \cup {Installed} /\ receipt[t].tree = active

\* A migration under way.
Migrating ==
  LET pc == job["op"].pc IN
  /\ pc = "m_recover" =>
       \/ job["op"].then = "idle"
       \/ /\ job["op"].then = "m_plan" /\ job["op"].target # NoTree
          /\ job["op"].dir = ActiveParent => journal = NoJournal
  /\ pc = "m_plan" => job["op"].target # NoTree
  /\ pc \in MigrateSteps => Recoverable
  /\ pc \in MigrateSteps \ {"m_recover"} /\ job["op"].dir = ActiveParent => journal = NoJournal
  /\ pc \in MigrateSteps \ {"m_recover", "m_plan"} => Open # NoMigration
  /\ pc = "m_receipt" => db = Open.to

\* Nothing is known of a token that was not used yet.
FreshTokens ==
  \A t \in Updates : t > used => backup[t] = NoTree /\ receipt[t].kind = "none"

\* While its backup is put back, a receipt is ahead of it.
Restoring(t) ==
  \E w \in Workers :
    /\ job[w].token = t
    /\ job[w].pc \in {"r_discard", "b_accept", "b_undo", "b_audit", "b_clean"}

ReceiptsMatch ==
  \A t \in Updates :
    receipt[t].kind # "none" => receipt[t].tree = backup[t] \/ Restoring(t)

\* The code of a release runs on the database.
Serves(r) == SchemaHead[r] <= db /\ \A v \in (SchemaHead[r] + 1)..db : v \in Compatible

\* The database serves every tree that may become active.
TreesServed ==
  /\ active # NoTree => Serves(active)
  /\ Serves(committed)
  /\ \A t \in Updates : backup[t] # NoTree => Serves(backup[t])
  /\ \A t \in Updates : candidate[t] # NoTree => Serves(candidate[t])

\* What a migration journal says, for as long as it is there.
TrueJournal(m) ==
  m # NoMigration =>
    /\ m.pair \in Releases \X Releases
    /\ m.from = SchemaHead[m.pair[1]] /\ m.to = SchemaHead[m.pair[2]]
    /\ m.from <= db
    /\ \A v \in (m.from + 1)..m.to : v \in Compatible
    /\ m.backup = [tree |-> m.pair[1], head |-> m.from]

JournalIsTrue == \A d \in StateDirs : TrueJournal(mjournal[d])

\* Every tree that was in effect was accepted, or installed first.
BackupsBound ==
  /\ committed \in Sound \cup {Installed}
  /\ \A t \in Updates : backup[t] \in Sound \cup {Installed, NoTree}

Structure ==
  /\ Solo /\ (\A w \in Workers : Recovering(w)) /\ Updating /\ RollingBack /\ Migrating
  /\ (\A w \in Workers : job[w].pc = "idle") => Recoverable

DeploymentInv ==
  /\ TypeOK /\ Structure /\ FreshTokens /\ ReceiptsMatch /\ TreesServed /\ JournalIsTrue
  /\ BackupsBound /\ OneTransaction /\ ReceiptIsTrue /\ CommittedIsAudited
-----------------------------------------------------------------------------
(* A worker's job.                                                         *)

LEMMA ContinueJob ==
  ASSUME job \in [Workers -> Jobs], NEW w \in Workers, NEW pc \in Steps, Continue(w, pc)
  PROVE  /\ job' \in [Workers -> Jobs]
         /\ job'[w].pc = pc /\ job'[w].token = job[w].token /\ job'[w].target = job[w].target
         /\ job'[w].status = job[w].status /\ job'[w].aside = job[w].aside
         /\ job'[w].bound = job[w].bound /\ job'[w].then = job[w].then
         /\ job'[w].dir = job[w].dir
         /\ \A x \in Workers \ {w} : job'[x] = job[x]
BY DEF Continue, Jobs

LEMMA StopJob ==
  ASSUME job \in [Workers -> Jobs], NEW w \in Workers, Stop(w)
  PROVE  /\ job' \in [Workers -> Jobs]
         /\ job'[w].pc = "idle" /\ job'[w].then = "idle"
         /\ \A x \in Workers \ {w} : job'[x] = job[x]
<1>1. Idle \in Jobs
  BY DeploymentAssumption DEF Idle, Jobs, Steps, Trees, Receipts, NoReceipt
<1> QED BY <1>1 DEF Stop, Idle

-----------------------------------------------------------------------------
(* One lemma per operation, one case per action.                           *)

LEMMA WorkerNames ==
  /\ "op" \in Workers /\ "tool" \in Workers
  /\ \A x \in Workers : x = "op" \/ x = "tool"
BY DEF Workers

\* What is left of Structure once it is known what the one busy worker does.
LEMMA IsIdle ==
  ASSUME job'["op"].pc = "idle", job'["tool"].pc = "idle", job'["tool"].then = "idle",
         Recoverable'
  PROVE  Structure'
BY WorkerNames DEF Structure, Solo, Recovering, Updating, RollingBack, Migrating,
   UpdateSteps, RollbackSteps, MigrateSteps, RecoverSteps

LEMMA IsUpdating ==
  ASSUME job'["op"].pc \in UpdateSteps, job'["tool"].pc = "idle", job'["tool"].then = "idle",
         Updating'
  PROVE  Structure'
BY WorkerNames DEF Structure, Solo, Recovering, RollingBack, Migrating,
   UpdateSteps, RollbackSteps, MigrateSteps, RecoverSteps

LEMMA IsRollingBack ==
  ASSUME job'["op"].pc \in RollbackSteps, job'["tool"].pc = "idle", job'["tool"].then = "idle",
         RollingBack'
  PROVE  Structure'
BY WorkerNames DEF Structure, Solo, Recovering, Updating, Migrating,
   UpdateSteps, RollbackSteps, MigrateSteps, RecoverSteps

LEMMA IsMigrating ==
  ASSUME job'["op"].pc \in MigrateSteps, job'["tool"].pc = "idle", job'["tool"].then = "idle",
         Migrating'
  PROVE  Structure'
BY WorkerNames DEF Structure, Solo, Recovering, Updating, RollingBack,
   UpdateSteps, RollbackSteps, MigrateSteps, RecoverSteps

LEMMA IsRecovering ==
  ASSUME NEW w \in Workers, job'[w].pc \in RecoverSteps, Recovering(w)',
         \A x \in Workers \ {w} : job'[x].pc = "idle", job'["tool"].then = "idle"
  PROVE  Structure'
BY WorkerNames DEF Structure, Solo, Recovering, Updating, RollingBack, Migrating,
   UpdateSteps, RollbackSteps, MigrateSteps, RecoverSteps

\* Only the migration command changes what the database serves, and what its journals say.
LEMMA SameDatabase ==
  ASSUME db' = db, NEW r
  PROVE  (Serves(r)' <=> Serves(r)) /\ (mjournal' = mjournal => (JournalIsTrue' <=> JournalIsTrue))
BY DEF Serves, JournalIsTrue, TrueJournal

\* The journal of the migration under way is written or unlinked, and no other.
LEMMA WriteOpen ==
  ASSUME mjournal \in [StateDirs -> Migrations], job["op"].dir \in StateDirs,
         NEW m \in Migrations, SetOpen(m)
  PROVE  /\ mjournal' \in [StateDirs -> Migrations] /\ mjournal'[job["op"].dir] = m
         /\ \A d \in StateDirs \ {job["op"].dir} : mjournal'[d] = mjournal[d]
BY DEF SetOpen

LEMMA NoMigrationIsOne == NoMigration \in Migrations
BY DEF NoMigration, NoBackup, Migrations, Backups, Trees

LEMMA ClearOpen ==
  ASSUME mjournal \in [StateDirs -> Migrations], job["op"].dir \in StateDirs,
         JournalIsTrue, OneTransaction, SetOpen(NoMigration), db' = db, journal' = journal
  PROVE  mjournal' \in [StateDirs -> Migrations] /\ JournalIsTrue' /\ OneTransaction'
<1>1. /\ mjournal' \in [StateDirs -> Migrations] /\ mjournal'[job["op"].dir] = NoMigration
      /\ \A d \in StateDirs \ {job["op"].dir} : mjournal'[d] = mjournal[d]
  BY NoMigrationIsOne, WriteOpen
<1>2. JournalIsTrue'
  BY <1>1 DEF JournalIsTrue, TrueJournal
<1>3. OneTransaction'
  BY <1>1, DeploymentAssumption DEF OneTransaction
<1> QED BY <1>1, <1>2, <1>3

\* The assignments to a job.
LEMMA AsideJob ==
  ASSUME job \in [Workers -> Jobs], NEW w \in Workers, NEW pc \in Steps, NEW r \in Trees,
         job' = [job EXCEPT ![w].pc = pc, ![w].aside = r]
  PROVE  /\ job' \in [Workers -> Jobs] /\ \A x \in Workers \ {w} : job'[x] = job[x]
         /\ job'[w].pc = pc /\ job'[w].aside = r /\ job'[w].token = job[w].token
         /\ job'[w].then = job[w].then /\ job'[w].status = job[w].status
BY DEF Jobs

LEMMA NewJob ==
  ASSUME job \in [Workers -> Jobs], NEW w \in Workers, NEW r \in Jobs,
         job' = [job EXCEPT ![w] = r]
  PROVE  /\ job' \in [Workers -> Jobs] /\ \A x \in Workers \ {w} : job'[x] = job[x]
         /\ job'[w] = r
OBVIOUS

LEMMA IdleIsJob == Idle \in Jobs
BY DeploymentAssumption DEF Idle, Jobs, Steps, Trees, Receipts, NoReceipt

LEMMA RetryJob ==
  ASSUME NEW pc \in Steps
  PROVE  LET new == [Idle EXCEPT !.pc = pc]
         IN  new \in Jobs /\ new.pc = pc /\ new.then = "idle"
<1>1. Idle.then = "idle"
  BY DEF Idle
<1> QED BY <1>1, IdleIsJob DEF Jobs

LEMMA UpdateSafe ==
  ASSUME DeploymentInv, Update
  PROVE  DeploymentInv'
<1> USE WorkerNames DEF Doing, migration, trees, backups, Updates
<1>0. /\ TypeOK /\ Structure /\ FreshTokens /\ ReceiptsMatch /\ TreesServed /\ JournalIsTrue
      /\ BackupsBound /\ OneTransaction /\ ReceiptIsTrue /\ CommittedIsAudited
  BY DEF DeploymentInv
<1>1. CASE Stage
  <2> USE <1>1 DEF Stage
  <2> DEFINE b == [kind |-> IF Required(active, job["op"].target) THEN "migrated" ELSE "plain",
                   tree |-> active]
  <2>a. b \in Receipts /\ b.tree = active
    BY <1>0 DEF TypeOK, Receipts
  <2>b. used + 1 \in Updates /\ "u_journal" \in Steps
    BY <1>0, DeploymentAssumption DEF TypeOK, Steps, UpdateSteps
  <2>c. job["op"].target \in Trees
    BY <1>0 DEF TypeOK, Jobs
  <2> DEFINE r == [job["op"] EXCEPT !.pc = "u_journal", !.token = used + 1, !.bound = b]
  <2>d. job["op"] \in Jobs /\ job' = [job EXCEPT !["op"] = r]
    BY <1>0 DEF TypeOK
  <2> HIDE DEF b
  <2>f. /\ r \in Jobs /\ r.pc = "u_journal" /\ r.token = used + 1 /\ r.bound = b
        /\ r.target = job["op"].target /\ r.then = job["op"].then
    BY <2>a, <2>b, <2>d DEF Jobs
  <2> HIDE DEF r
  <2>1. /\ job["tool"].pc = "idle" /\ job["tool"].then = "idle" /\ journal = NoJournal
        /\ active = committed /\ mjournal[ActiveParent] = NoMigration
    BY <1>0 DEF TypeOK, Structure, Solo, Recovering, Updating, RollingBack, Migrating, Recoverable,
      UpdateSteps, RollbackSteps, MigrateSteps, RecoverSteps
  <2>2. /\ job' \in [Workers -> Jobs] /\ (\A x \in Workers \ {"op"} : job'[x] = job[x])
        /\ job'["op"].pc = "u_journal" /\ job'["op"].token = used + 1
        /\ job'["op"].target = job["op"].target /\ job'["op"].then = job["op"].then
        /\ job'["op"].bound.tree = active
    BY <1>0, <2>a, <2>d, <2>f, NewJob DEF TypeOK
  <2>3. TypeOK'
    BY DeploymentAssumption, <1>0, <2>1, <2>2, <2>b, <2>c DEF TypeOK, Trees
  <2>4. Updating'
    BY DeploymentAssumption, <1>0, <2>1, <2>2 DEF TypeOK, Updating, UpdateSteps, NoJournal, FreshTokens
  <2>5. Structure'
    BY <2>1, <2>2, <2>4, IsUpdating DEF UpdateSteps
  <2>6. FreshTokens' /\ ReceiptsMatch'
    BY <1>0, <2>1, <2>2 DEF TypeOK, FreshTokens, ReceiptsMatch, Restoring
  <2>e. Serves(job["op"].target)
    BY DeploymentAssumption, <1>0, <2>1 DEF TypeOK, TreesServed, Serves, Planned, Required,
      VerifyMigrationReceipt, ReceiptIsTrue
  <2>7. TreesServed' /\ JournalIsTrue'
    BY <1>0, <2>1, <2>e, SameDatabase DEF TypeOK, TreesServed, JournalIsTrue
  <2>8. BackupsBound' /\ OneTransaction' /\ ReceiptIsTrue' /\ CommittedIsAudited'
    BY DeploymentAssumption, <1>0, <2>1 DEF TypeOK, BackupsBound, OneTransaction, ReceiptIsTrue,
      CommittedIsAudited
  <2> QED BY <2>3, <2>5, <2>6, <2>7, <2>8 DEF DeploymentInv
<1>2. CASE Prepare
  <2> USE <1>2 DEF Prepare, Record
  <2>1. /\ job["tool"].pc = "idle" /\ job["tool"].then = "idle" /\ mjournal[ActiveParent] = NoMigration
        /\ job["op"].token \in 1..used /\ job["op"].bound.tree = committed
        /\ active = committed /\ backup[job["op"].token] = NoTree
        /\ receipt[job["op"].token].kind = "none"
    BY <1>0 DEF TypeOK, Structure, Solo, Recovering, Updating, RollingBack, Migrating, Recoverable,
      UpdateSteps, RollbackSteps, MigrateSteps, RecoverSteps
  <2>2. /\ job' \in [Workers -> Jobs] /\ (\A x \in Workers \ {"op"} : job'[x] = job[x])
        /\ job'["op"].pc = "u_move" /\ job'["op"].token = job["op"].token
        /\ job'["op"].target = job["op"].target /\ job'["op"].status = job["op"].status
        /\ job'["op"].aside = job["op"].aside /\ job'["op"].bound = job["op"].bound
        /\ job'["op"].then = job["op"].then
    BY <1>0, ContinueJob DEF TypeOK, Steps, UpdateSteps, RollbackSteps, MigrateSteps, RecoverSteps
  <2>3. TypeOK'
    BY DeploymentAssumption, <1>0, <2>1, <2>2 DEF TypeOK, Trees, Journals, Statuses
  <2>4. Updating'
    BY DeploymentAssumption, <1>0, <2>1, <2>2 DEF TypeOK, Updating, UpdateSteps, NoJournal
  <2>5. Structure'
    BY <2>1, <2>2, <2>4, IsUpdating DEF UpdateSteps
  <2>6. FreshTokens' /\ ReceiptsMatch'
    BY <1>0, <2>1, <2>2 DEF TypeOK, FreshTokens, ReceiptsMatch, Restoring
  <2>7. TreesServed' /\ JournalIsTrue'
    BY <1>0, <2>1, SameDatabase DEF TypeOK, TreesServed, JournalIsTrue
  <2>8. BackupsBound' /\ OneTransaction' /\ ReceiptIsTrue' /\ CommittedIsAudited'
    BY DeploymentAssumption, <1>0, <2>1 DEF TypeOK, BackupsBound, OneTransaction, ReceiptIsTrue,
      CommittedIsAudited
  <2> QED BY <2>3, <2>5, <2>6, <2>7, <2>8 DEF DeploymentInv
<1>3. CASE MarkMoved
  <2> USE <1>3 DEF MarkMoved, Record
  <2>1. /\ job["tool"].pc = "idle" /\ job["tool"].then = "idle" /\ mjournal[ActiveParent] = NoMigration
        /\ job["op"].token \in 1..used /\ job["op"].bound.tree = committed
        /\ backup[job["op"].token] = committed /\ receipt[job["op"].token].kind = "none"
        /\ journal # NoJournal /\ journal.token = job["op"].token
    BY <1>0 DEF TypeOK, Structure, Solo, Recovering, Updating, RollingBack, Migrating, Recoverable,
      UpdateSteps, RollbackSteps, MigrateSteps, RecoverSteps
  <2>2. /\ job' \in [Workers -> Jobs] /\ (\A x \in Workers \ {"op"} : job'[x] = job[x])
        /\ job'["op"].pc = "u_promote" /\ job'["op"].token = job["op"].token
        /\ job'["op"].target = job["op"].target /\ job'["op"].status = job["op"].status
        /\ job'["op"].aside = job["op"].aside /\ job'["op"].bound = job["op"].bound
        /\ job'["op"].then = job["op"].then
    BY <1>0, ContinueJob DEF TypeOK, Steps, UpdateSteps, RollbackSteps, MigrateSteps, RecoverSteps
  <2>3. TypeOK'
    BY DeploymentAssumption, <1>0, <2>1, <2>2 DEF TypeOK, Trees, Journals, Statuses
  <2>4. Updating'
    BY DeploymentAssumption, <1>0, <2>1, <2>2 DEF TypeOK, Updating, UpdateSteps, NoJournal
  <2>5. Structure'
    BY <2>1, <2>2, <2>4, IsUpdating DEF UpdateSteps
  <2>6. FreshTokens' /\ ReceiptsMatch'
    BY <1>0, <2>1, <2>2 DEF TypeOK, FreshTokens, ReceiptsMatch, Restoring
  <2>7. TreesServed' /\ JournalIsTrue'
    BY <1>0, <2>1, SameDatabase DEF TypeOK, TreesServed, JournalIsTrue
  <2>8. BackupsBound' /\ OneTransaction' /\ ReceiptIsTrue' /\ CommittedIsAudited'
    BY DeploymentAssumption, <1>0, <2>1 DEF TypeOK, BackupsBound, OneTransaction, ReceiptIsTrue,
      CommittedIsAudited
  <2> QED BY <2>3, <2>5, <2>6, <2>7, <2>8 DEF DeploymentInv
<1>4. CASE MarkPromoted
  <2> USE <1>4 DEF MarkPromoted, Record
  <2>1. /\ job["tool"].pc = "idle" /\ job["tool"].then = "idle" /\ mjournal[ActiveParent] = NoMigration
        /\ job["op"].token \in 1..used /\ job["op"].bound.tree = committed
        /\ backup[job["op"].token] = committed /\ receipt[job["op"].token].kind = "none"
        /\ active # NoTree /\ journal # NoJournal
        /\ journal.token = job["op"].token
    BY <1>0 DEF TypeOK, Structure, Solo, Recovering, Updating, RollingBack, Migrating, Recoverable,
      UpdateSteps, RollbackSteps, MigrateSteps, RecoverSteps
  <2>2. /\ job' \in [Workers -> Jobs] /\ (\A x \in Workers \ {"op"} : job'[x] = job[x])
        /\ job'["op"].pc = "u_accept" /\ job'["op"].token = job["op"].token
        /\ job'["op"].target = job["op"].target /\ job'["op"].status = job["op"].status
        /\ job'["op"].aside = job["op"].aside /\ job'["op"].bound = job["op"].bound
        /\ job'["op"].then = job["op"].then
    BY <1>0, ContinueJob DEF TypeOK, Steps, UpdateSteps, RollbackSteps, MigrateSteps, RecoverSteps
  <2>3. TypeOK'
    BY DeploymentAssumption, <1>0, <2>1, <2>2 DEF TypeOK, Trees, Journals, Statuses
  <2>4. Updating'
    BY DeploymentAssumption, <1>0, <2>1, <2>2 DEF TypeOK, Updating, UpdateSteps, NoJournal
  <2>5. Structure'
    BY <2>1, <2>2, <2>4, IsUpdating DEF UpdateSteps
  <2>6. FreshTokens' /\ ReceiptsMatch'
    BY <1>0, <2>1, <2>2 DEF TypeOK, FreshTokens, ReceiptsMatch, Restoring
  <2>7. TreesServed' /\ JournalIsTrue'
    BY <1>0, <2>1, SameDatabase DEF TypeOK, TreesServed, JournalIsTrue
  <2>8. BackupsBound' /\ OneTransaction' /\ ReceiptIsTrue' /\ CommittedIsAudited'
    BY DeploymentAssumption, <1>0, <2>1 DEF TypeOK, BackupsBound, OneTransaction, ReceiptIsTrue,
      CommittedIsAudited
  <2> QED BY <2>3, <2>5, <2>6, <2>7, <2>8 DEF DeploymentInv
<1>5. CASE MoveActive
  <2> USE <1>5 DEF MoveActive
  <2>1. /\ job["tool"].pc = "idle" /\ job["tool"].then = "idle" /\ mjournal[ActiveParent] = NoMigration
        /\ job["op"].token \in 1..used /\ job["op"].bound.tree = committed
        /\ active = committed /\ backup[job["op"].token] = NoTree
        /\ receipt[job["op"].token].kind = "none" /\ journal.status = "PREPARED"
        /\ journal # NoJournal /\ journal.token = job["op"].token
    BY <1>0 DEF TypeOK, Structure, Solo, Recovering, Updating, RollingBack, Migrating, Recoverable,
      UpdateSteps, RollbackSteps, MigrateSteps, RecoverSteps
  <2>2. /\ job' \in [Workers -> Jobs] /\ (\A x \in Workers \ {"op"} : job'[x] = job[x])
        /\ job'["op"].pc = "u_mark" /\ job'["op"].token = job["op"].token
        /\ job'["op"].target = job["op"].target /\ job'["op"].status = job["op"].status
        /\ job'["op"].aside = job["op"].aside /\ job'["op"].bound = job["op"].bound
        /\ job'["op"].then = job["op"].then
    BY <1>0, ContinueJob DEF TypeOK, Steps, UpdateSteps, RollbackSteps, MigrateSteps, RecoverSteps
  <2>3. TypeOK'
    BY DeploymentAssumption, <1>0, <2>1, <2>2 DEF TypeOK, Trees
  <2>4. Updating'
    BY DeploymentAssumption, <1>0, <2>1, <2>2 DEF TypeOK, Updating, UpdateSteps, NoJournal
  <2>5. Structure'
    BY <2>1, <2>2, <2>4, IsUpdating DEF UpdateSteps
  <2>6. FreshTokens' /\ ReceiptsMatch'
    BY <1>0, <2>1, <2>2 DEF TypeOK, FreshTokens, ReceiptsMatch, Restoring
  <2>7. TreesServed' /\ JournalIsTrue'
    BY <1>0, <2>1, SameDatabase DEF TypeOK, TreesServed, JournalIsTrue
  <2>8. BackupsBound' /\ OneTransaction' /\ ReceiptIsTrue' /\ CommittedIsAudited'
    BY DeploymentAssumption, <1>0, <2>1 DEF TypeOK, BackupsBound, OneTransaction, ReceiptIsTrue,
      CommittedIsAudited
  <2> QED BY <2>3, <2>5, <2>6, <2>7, <2>8 DEF DeploymentInv
<1>6. CASE Promote
  <2> USE <1>6 DEF Promote
  <2>1. /\ job["tool"].pc = "idle" /\ job["tool"].then = "idle" /\ mjournal[ActiveParent] = NoMigration
        /\ job["op"].token \in 1..used /\ job["op"].bound.tree = committed
        /\ backup[job["op"].token] = committed /\ receipt[job["op"].token].kind = "none"
        /\ journal # NoJournal /\ journal.token = job["op"].token
    BY <1>0 DEF TypeOK, Structure, Solo, Recovering, Updating, RollingBack, Migrating, Recoverable,
      UpdateSteps, RollbackSteps, MigrateSteps, RecoverSteps
  <2>2. /\ job' \in [Workers -> Jobs] /\ (\A x \in Workers \ {"op"} : job'[x] = job[x])
        /\ job'["op"].pc = "u_mark_promoted" /\ job'["op"].token = job["op"].token
        /\ job'["op"].target = job["op"].target /\ job'["op"].status = job["op"].status
        /\ job'["op"].aside = job["op"].aside /\ job'["op"].bound = job["op"].bound
        /\ job'["op"].then = job["op"].then
    BY <1>0, ContinueJob DEF TypeOK, Steps, UpdateSteps, RollbackSteps, MigrateSteps, RecoverSteps
  <2>3. TypeOK'
    BY DeploymentAssumption, <1>0, <2>1, <2>2 DEF TypeOK, Trees
  <2>4. Updating'
    BY DeploymentAssumption, <1>0, <2>1, <2>2 DEF TypeOK, Updating, UpdateSteps, NoJournal
  <2>5. Structure'
    BY <2>1, <2>2, <2>4, IsUpdating DEF UpdateSteps
  <2>6. FreshTokens' /\ ReceiptsMatch'
    BY <1>0, <2>1, <2>2 DEF TypeOK, FreshTokens, ReceiptsMatch, Restoring
  <2>a. job["op"].token \in Updates /\ Serves(candidate[job["op"].token])
    BY DeploymentAssumption, <1>0, <2>1 DEF TypeOK, TreesServed
  <2>7. TreesServed' /\ JournalIsTrue'
    BY <1>0, <2>1, <2>a, SameDatabase DEF TypeOK, TreesServed, JournalIsTrue
  <2>8. BackupsBound' /\ OneTransaction' /\ ReceiptIsTrue' /\ CommittedIsAudited'
    BY DeploymentAssumption, <1>0, <2>1 DEF TypeOK, BackupsBound, OneTransaction, ReceiptIsTrue,
      CommittedIsAudited
  <2> QED BY <2>3, <2>5, <2>6, <2>7, <2>8 DEF DeploymentInv
<1>7. CASE Accept
  <2> USE <1>7 DEF Accept
  <2>1. /\ job["tool"].pc = "idle" /\ job["tool"].then = "idle" /\ mjournal[ActiveParent] = NoMigration
        /\ job["op"].token \in 1..used /\ job["op"].bound.tree = committed
        /\ backup[job["op"].token] = committed /\ receipt[job["op"].token].kind = "none"
        /\ active # NoTree /\ journal # NoJournal
        /\ journal.token = job["op"].token
    BY <1>0 DEF TypeOK, Structure, Solo, Recovering, Updating, RollingBack, Migrating, Recoverable,
      UpdateSteps, RollbackSteps, MigrateSteps, RecoverSteps
  <2>2. /\ job' \in [Workers -> Jobs] /\ (\A x \in Workers \ {"op"} : job'[x] = job[x])
        /\ job'["op"].pc = "u_audit" /\ job'["op"].token = job["op"].token
        /\ job'["op"].target = job["op"].target /\ job'["op"].status = job["op"].status
        /\ job'["op"].aside = job["op"].aside /\ job'["op"].bound = job["op"].bound
        /\ job'["op"].then = job["op"].then
    BY <1>0, ContinueJob DEF TypeOK, Steps, UpdateSteps, RollbackSteps, MigrateSteps, RecoverSteps
  <2>3. TypeOK'
    BY DeploymentAssumption, <1>0, <2>1, <2>2 DEF TypeOK, Trees, Jobs
  <2>4. Updating'
    BY DeploymentAssumption, <1>0, <2>1, <2>2 DEF TypeOK, Updating, UpdateSteps, NoJournal, PostCutoverAcceptance, VerifyRuntimeBinding
  <2>5. Structure'
    BY <2>1, <2>2, <2>4, IsUpdating DEF UpdateSteps
  <2>6. FreshTokens' /\ ReceiptsMatch'
    <3>1. /\ receipt' = [receipt EXCEPT ![job["op"].token] = job["op"].bound]
          /\ job["op"].bound.tree = committed /\ job["op"].token \in Updates
      BY <1>0, <2>1, DeploymentAssumption DEF TypeOK
    <3>2. \A t \in Updates : receipt'[t] =
            IF t = job["op"].token THEN job["op"].bound ELSE receipt[t]
      BY <1>0, <3>1 DEF TypeOK
    <3>3. \A t \in Updates : Restoring(t) => Restoring(t)'
      BY <1>0, <2>1, <2>2 DEF Restoring
    <3> QED BY <1>0, <2>1, <2>2, <3>1, <3>2, <3>3 DEF TypeOK, FreshTokens, ReceiptsMatch
  <2>7. TreesServed' /\ JournalIsTrue'
    BY <1>0, <2>1, SameDatabase DEF TypeOK, TreesServed, JournalIsTrue
  <2>8. BackupsBound' /\ OneTransaction' /\ ReceiptIsTrue' /\ CommittedIsAudited'
    BY DeploymentAssumption, <1>0, <2>1 DEF TypeOK, BackupsBound, OneTransaction, ReceiptIsTrue,
      CommittedIsAudited
  <2> QED BY <2>3, <2>5, <2>6, <2>7, <2>8 DEF DeploymentInv
<1>8. CASE AuditUpdate
  <2> USE <1>8 DEF AuditUpdate
  <2>1. /\ job["tool"].pc = "idle" /\ job["tool"].then = "idle" /\ mjournal[ActiveParent] = NoMigration
        /\ job["op"].token \in 1..used /\ job["op"].bound.tree = committed
        /\ backup[job["op"].token] = committed /\ active # NoTree
        /\ active \in Sound /\ journal # NoJournal
        /\ journal.token = job["op"].token
    BY <1>0 DEF TypeOK, Structure, Solo, Recovering, Updating, RollingBack, Migrating, Recoverable,
      UpdateSteps, RollbackSteps, MigrateSteps, RecoverSteps
  <2>2. /\ job' \in [Workers -> Jobs] /\ (\A x \in Workers \ {"op"} : job'[x] = job[x])
        /\ job'["op"].pc = "u_commit" /\ job'["op"].token = job["op"].token
        /\ job'["op"].target = job["op"].target /\ job'["op"].status = job["op"].status
        /\ job'["op"].aside = job["op"].aside /\ job'["op"].bound = job["op"].bound
        /\ job'["op"].then = job["op"].then
    BY <1>0, ContinueJob DEF TypeOK, Steps, UpdateSteps, RollbackSteps, MigrateSteps, RecoverSteps
  <2>3. TypeOK'
    BY DeploymentAssumption, <1>0, <2>1, <2>2 DEF TypeOK, Trees
  <2>4. Updating'
    BY DeploymentAssumption, <1>0, <2>1, <2>2 DEF TypeOK, Updating, UpdateSteps, NoJournal
  <2>5. Structure'
    BY <2>1, <2>2, <2>4, IsUpdating DEF UpdateSteps
  <2>6. FreshTokens' /\ ReceiptsMatch'
    BY <1>0, <2>1, <2>2 DEF TypeOK, FreshTokens, ReceiptsMatch, Restoring
  <2>7. TreesServed' /\ JournalIsTrue'
    BY <1>0, <2>1, SameDatabase DEF TypeOK, TreesServed, JournalIsTrue
  <2>8. BackupsBound' /\ OneTransaction' /\ ReceiptIsTrue' /\ CommittedIsAudited'
    BY DeploymentAssumption, <1>0, <2>1 DEF TypeOK, BackupsBound, OneTransaction, ReceiptIsTrue,
      CommittedIsAudited
  <2> QED BY <2>3, <2>5, <2>6, <2>7, <2>8 DEF DeploymentInv
<1>9. CASE Commit
  <2> USE <1>9 DEF Commit
  <2>1. /\ job["tool"].pc = "idle" /\ job["tool"].then = "idle" /\ mjournal[ActiveParent] = NoMigration
        /\ job["op"].token \in 1..used /\ job["op"].bound.tree = committed
        /\ active # NoTree /\ active \in Sound
        /\ <<"update", active>> \in audit /\ journal # NoJournal
        /\ journal.token = job["op"].token
    BY <1>0 DEF TypeOK, Structure, Solo, Recovering, Updating, RollingBack, Migrating, Recoverable,
      UpdateSteps, RollbackSteps, MigrateSteps, RecoverSteps
  <2>2. /\ job' \in [Workers -> Jobs] /\ (\A x \in Workers \ {"op"} : job'[x] = job[x])
        /\ job'["op"].pc = "idle" /\ job'["op"].then = "idle"
    BY <1>0, StopJob DEF TypeOK
  <2>3. TypeOK'
    BY DeploymentAssumption, <1>0, <2>1, <2>2 DEF TypeOK, Trees, Journals
  <2>4. Recoverable'
    BY DeploymentAssumption, <1>0, <2>1, <2>2 DEF TypeOK, Recoverable, NoJournal
  <2>5. Structure'
    BY <2>1, <2>2, <2>4, IsIdle
  <2>6. FreshTokens' /\ ReceiptsMatch'
    BY <1>0, <2>1, <2>2 DEF TypeOK, FreshTokens, ReceiptsMatch, Restoring
  <2>7. TreesServed' /\ JournalIsTrue'
    BY <1>0, <2>1, SameDatabase DEF TypeOK, TreesServed, JournalIsTrue
  <2>8. BackupsBound' /\ OneTransaction' /\ ReceiptIsTrue' /\ CommittedIsAudited'
    BY DeploymentAssumption, <1>0, <2>1 DEF TypeOK, BackupsBound, OneTransaction, ReceiptIsTrue,
      CommittedIsAudited
  <2> QED BY <2>3, <2>5, <2>6, <2>7, <2>8 DEF DeploymentInv
<1>10. CASE UpdateRaises /\ journal # NoJournal
  <2> USE <1>10 DEF UpdateRaises
  <2>a. "recover" \in Steps
    BY DEF Steps, RecoverSteps
  <2> DEFINE r == [Idle EXCEPT !.pc = "recover"]
  <2>b. r \in Jobs /\ r.pc = "recover" /\ r.then = "idle"
    BY <2>a, RetryJob
  <2>c. job' = [job EXCEPT !["op"] = r]
    OBVIOUS
  <2> HIDE DEF r
  <2>1. /\ job["tool"].pc = "idle" /\ job["tool"].then = "idle" /\ Recoverable
        /\ mjournal[ActiveParent] = NoMigration
    BY <1>0 DEF TypeOK, Structure, Solo, Recovering, Updating, RollingBack, Migrating, Recoverable,
      UpdateSteps, RollbackSteps, MigrateSteps, RecoverSteps
  <2>2. /\ job' \in [Workers -> Jobs] /\ (\A x \in Workers \ {"op"} : job'[x] = job[x])
        /\ job'["op"].pc = "recover" /\ job'["op"].then = "idle"
    BY <1>0, <2>b, <2>c, NewJob DEF TypeOK
  <2>3. TypeOK'
    BY DeploymentAssumption, <1>0, <2>1, <2>2 DEF TypeOK, Trees
  <2>4. Recovering("op")'
    BY DeploymentAssumption, <1>0, <2>1, <2>2 DEF TypeOK, Recovering, Recoverable, NoJournal, RecoverSteps
  <2>5. Structure'
    BY <2>1, <2>2, <2>4, IsRecovering DEF RecoverSteps
  <2>6. FreshTokens' /\ ReceiptsMatch'
    BY <1>0, <2>1, <2>2 DEF TypeOK, FreshTokens, ReceiptsMatch, Restoring, Structure, Updating, UpdateSteps
  <2>7. TreesServed' /\ JournalIsTrue'
    BY <1>0, <2>1, SameDatabase DEF TypeOK, TreesServed, JournalIsTrue
  <2>8. BackupsBound' /\ OneTransaction' /\ ReceiptIsTrue' /\ CommittedIsAudited'
    BY DeploymentAssumption, <1>0, <2>1 DEF TypeOK, BackupsBound, OneTransaction, ReceiptIsTrue,
      CommittedIsAudited
  <2> QED BY <2>3, <2>5, <2>6, <2>7, <2>8 DEF DeploymentInv
<1>11. CASE UpdateRaises /\ journal = NoJournal
  <2> USE <1>11 DEF UpdateRaises
  <2>1. /\ job["tool"].pc = "idle" /\ job["tool"].then = "idle" /\ active = committed
    BY <1>0 DEF TypeOK, Structure, Solo, Recovering, Updating, RollingBack, Migrating, Recoverable,
      UpdateSteps, RollbackSteps, MigrateSteps, RecoverSteps
  <2>2. /\ job' \in [Workers -> Jobs] /\ (\A x \in Workers \ {"op"} : job'[x] = job[x])
        /\ job'["op"].pc = "idle" /\ job'["op"].then = "idle"
    BY <1>0, StopJob DEF TypeOK
  <2>3. TypeOK'
    BY DeploymentAssumption, <1>0, <2>1, <2>2 DEF TypeOK, Trees
  <2>4. Recoverable'
    BY DeploymentAssumption, <1>0, <2>1, <2>2 DEF TypeOK, Recoverable, NoJournal
  <2>5. Structure'
    BY <2>1, <2>2, <2>4, IsIdle
  <2>6. FreshTokens' /\ ReceiptsMatch'
    BY <1>0, <2>1, <2>2 DEF TypeOK, FreshTokens, ReceiptsMatch, Restoring, Structure, Updating, UpdateSteps
  <2>7. TreesServed' /\ JournalIsTrue'
    BY <1>0, <2>1, SameDatabase DEF TypeOK, TreesServed, JournalIsTrue
  <2>8. BackupsBound' /\ OneTransaction' /\ ReceiptIsTrue' /\ CommittedIsAudited'
    BY DeploymentAssumption, <1>0, <2>1 DEF TypeOK, BackupsBound, OneTransaction, ReceiptIsTrue,
      CommittedIsAudited
  <2> QED BY <2>3, <2>5, <2>6, <2>7, <2>8 DEF DeploymentInv
<1> QED BY <1>1, <1>2, <1>3, <1>4, <1>5, <1>6, <1>7, <1>8, <1>9, <1>10, <1>11 DEF Update

LEMMA RecoverSafe ==
  ASSUME DeploymentInv, NEW w \in Workers, Recover(w)
  PROVE  DeploymentInv'
<1> USE WorkerNames DEF Doing, migration, trees, backups, Updates
<1>0. /\ TypeOK /\ Structure /\ FreshTokens /\ ReceiptsMatch /\ TreesServed /\ JournalIsTrue
      /\ BackupsBound /\ OneTransaction /\ ReceiptIsTrue /\ CommittedIsAudited
  BY DEF DeploymentInv
<1>1. CASE RecoverRead(w) /\ journal = NoJournal /\ job[w].then = "stage"
  <2> USE <1>1 DEF RecoverRead
  <2>a. w = "op"
    BY <1>0 DEF Structure, Solo
  <2>b. Continue("op", "stage")
    BY <1>0, <2>a, DeploymentAssumption DEF Structure, Recovering, Recoverable, Resume, TypeOK
  <2>1. /\ job["tool"].pc = "idle" /\ job["tool"].then = "idle" /\ active = committed
        /\ mjournal[ActiveParent] = NoMigration
    BY <1>0, <2>a DEF TypeOK, Structure, Solo, Recovering, Updating, RollingBack, Migrating, Recoverable,
      UpdateSteps, RollbackSteps, MigrateSteps, RecoverSteps
  <2>2. /\ job' \in [Workers -> Jobs] /\ (\A x \in Workers \ {"op"} : job'[x] = job[x])
        /\ job'["op"].pc = "stage" /\ job'["op"].token = job["op"].token
        /\ job'["op"].target = job["op"].target /\ job'["op"].status = job["op"].status
        /\ job'["op"].aside = job["op"].aside /\ job'["op"].bound = job["op"].bound
        /\ job'["op"].then = job["op"].then
    BY <1>0, <2>a, <2>b, ContinueJob DEF TypeOK, Steps, UpdateSteps, RollbackSteps, MigrateSteps, RecoverSteps
  <2>3. TypeOK'
    BY DeploymentAssumption, <1>0, <2>1, <2>2 DEF TypeOK, Trees
  <2>4. Updating'
    BY DeploymentAssumption, <1>0, <2>1, <2>2 DEF TypeOK, Updating, UpdateSteps, NoJournal
  <2>5. Structure'
    BY <2>1, <2>2, <2>4, IsUpdating DEF UpdateSteps
  <2>6. FreshTokens' /\ ReceiptsMatch'
    BY <1>0, <2>1, <2>2 DEF TypeOK, FreshTokens, ReceiptsMatch, Restoring
  <2>7. TreesServed' /\ JournalIsTrue'
    BY <1>0, <2>1, SameDatabase DEF TypeOK, TreesServed, JournalIsTrue
  <2>8. BackupsBound' /\ OneTransaction' /\ ReceiptIsTrue' /\ CommittedIsAudited'
    BY DeploymentAssumption, <1>0, <2>1 DEF TypeOK, BackupsBound, OneTransaction, ReceiptIsTrue,
      CommittedIsAudited
  <2> QED BY <2>3, <2>5, <2>6, <2>7, <2>8 DEF DeploymentInv
<1>2. CASE RecoverRead(w) /\ journal = NoJournal /\ job[w].then # "stage"
  <2> USE <1>2 DEF RecoverRead, Resume
  <2>1. /\ (\A x \in Workers \ {w} : job[x].pc = "idle") /\ job["tool"].then = "idle"
        /\ active = committed
    BY <1>0 DEF TypeOK, Structure, Solo, Recovering, Updating, RollingBack, Migrating, Recoverable,
      UpdateSteps, RollbackSteps, MigrateSteps, RecoverSteps
  <2>2. /\ job' \in [Workers -> Jobs] /\ (\A x \in Workers \ {w} : job'[x] = job[x])
        /\ job'[w].pc = "idle" /\ job'[w].then = "idle"
    BY <1>0, StopJob DEF TypeOK
  <2>3. TypeOK'
    BY DeploymentAssumption, <1>0, <2>1, <2>2 DEF TypeOK, Trees
  <2>4. Recoverable'
    BY DeploymentAssumption, <1>0, <2>1, <2>2 DEF TypeOK, Recoverable, NoJournal
  <2>5. Structure'
    BY <2>1, <2>2, <2>4, IsIdle
  <2>6. FreshTokens' /\ ReceiptsMatch'
    BY <1>0, <2>1, <2>2 DEF TypeOK, FreshTokens, ReceiptsMatch, Restoring
  <2>7. TreesServed' /\ JournalIsTrue'
    BY <1>0, <2>1, SameDatabase DEF TypeOK, TreesServed, JournalIsTrue
  <2>8. BackupsBound' /\ OneTransaction' /\ ReceiptIsTrue' /\ CommittedIsAudited'
    BY DeploymentAssumption, <1>0, <2>1 DEF TypeOK, BackupsBound, OneTransaction, ReceiptIsTrue,
      CommittedIsAudited
  <2> QED BY <2>3, <2>5, <2>6, <2>7, <2>8 DEF DeploymentInv
<1>3. CASE RecoverRead(w) /\ journal # NoJournal
  <2> USE <1>3 DEF RecoverRead
  <2>a. journal.token \in Updates /\ journal.status \in Statuses /\ "r_look" \in Steps
    BY <1>0 DEF TypeOK, Journals, Steps, RecoverSteps
  <2> DEFINE r == [job[w] EXCEPT !.pc = "r_look", !.token = journal.token, !.status = journal.status]
  <2>b. job[w] \in Jobs /\ job' = [job EXCEPT ![w] = r]
    BY <1>0 DEF TypeOK
  <2>c. /\ r \in Jobs /\ r.pc = "r_look" /\ r.token = journal.token
        /\ r.status = journal.status /\ r.then = job[w].then
    BY <2>a, <2>b DEF Jobs
  <2> HIDE DEF r
  <2>1. /\ (\A x \in Workers \ {w} : job[x].pc = "idle") /\ job["tool"].then = "idle"
        /\ Recoverable /\ (job[w].then = "stage" => mjournal[ActiveParent] = NoMigration)
    BY <1>0 DEF TypeOK, Structure, Solo, Recovering, Updating, RollingBack, Migrating, Recoverable,
      UpdateSteps, RollbackSteps, MigrateSteps, RecoverSteps
  <2>2. /\ job' \in [Workers -> Jobs] /\ (\A x \in Workers \ {w} : job'[x] = job[x])
        /\ job'[w].pc = "r_look" /\ job'[w].token = journal.token
        /\ job'[w].status = journal.status /\ job'[w].then = job[w].then
    BY <1>0, <2>b, <2>c, NewJob DEF TypeOK
  <2>3. TypeOK'
    BY DeploymentAssumption, <1>0, <2>1, <2>2 DEF TypeOK, Trees
  <2>4. Recovering(w)'
    BY DeploymentAssumption, <1>0, <2>1, <2>2 DEF TypeOK, Recovering, Recoverable, NoJournal, RecoverSteps
  <2>5. Structure'
    BY <2>1, <2>2, <2>4, IsRecovering DEF RecoverSteps
  <2>6. FreshTokens' /\ ReceiptsMatch'
    BY <1>0, <2>1, <2>2 DEF TypeOK, FreshTokens, ReceiptsMatch, Restoring
  <2>7. TreesServed' /\ JournalIsTrue'
    BY <1>0, <2>1, SameDatabase DEF TypeOK, TreesServed, JournalIsTrue
  <2>8. BackupsBound' /\ OneTransaction' /\ ReceiptIsTrue' /\ CommittedIsAudited'
    BY DeploymentAssumption, <1>0, <2>1 DEF TypeOK, BackupsBound, OneTransaction, ReceiptIsTrue,
      CommittedIsAudited
  <2> QED BY <2>3, <2>5, <2>6, <2>7, <2>8 DEF DeploymentInv
<1>4. CASE RecoverLook(w) /\ backup[job[w].token] # NoTree /\ active # NoTree
  <2> USE <1>4 DEF RecoverLook
  <2>1. /\ (\A x \in Workers \ {w} : job[x].pc = "idle") /\ job["tool"].then = "idle"
        /\ (job[w].then = "stage" => mjournal[ActiveParent] = NoMigration) /\ backup[job[w].token] = committed
        /\ journal # NoJournal /\ job[w].token = journal.token
    BY <1>0 DEF TypeOK, Structure, Solo, Recovering, Updating, RollingBack, Migrating, Recoverable,
      UpdateSteps, RollbackSteps, MigrateSteps, RecoverSteps
  <2>2. /\ job' \in [Workers -> Jobs] /\ (\A x \in Workers \ {w} : job'[x] = job[x])
        /\ job'[w].pc = "r_aside" /\ job'[w].token = job[w].token
        /\ job'[w].target = job[w].target /\ job'[w].status = job[w].status
        /\ job'[w].aside = job[w].aside /\ job'[w].bound = job[w].bound
        /\ job'[w].then = job[w].then
    BY <1>0, ContinueJob DEF TypeOK, Steps, UpdateSteps, RollbackSteps, MigrateSteps, RecoverSteps
  <2>3. TypeOK'
    BY DeploymentAssumption, <1>0, <2>1, <2>2 DEF TypeOK, Trees
  <2>4. Recovering(w)'
    BY DeploymentAssumption, <1>0, <2>1, <2>2 DEF TypeOK, Recovering, Recoverable, NoJournal, RecoverSteps
  <2>5. Structure'
    BY <2>1, <2>2, <2>4, IsRecovering DEF RecoverSteps
  <2>6. FreshTokens' /\ ReceiptsMatch'
    BY <1>0, <2>1, <2>2 DEF TypeOK, FreshTokens, ReceiptsMatch, Restoring
  <2>7. TreesServed' /\ JournalIsTrue'
    BY <1>0, <2>1, SameDatabase DEF TypeOK, TreesServed, JournalIsTrue
  <2>8. BackupsBound' /\ OneTransaction' /\ ReceiptIsTrue' /\ CommittedIsAudited'
    BY DeploymentAssumption, <1>0, <2>1 DEF TypeOK, BackupsBound, OneTransaction, ReceiptIsTrue,
      CommittedIsAudited
  <2> QED BY <2>3, <2>5, <2>6, <2>7, <2>8 DEF DeploymentInv
<1>5. CASE RecoverLook(w) /\ backup[job[w].token] # NoTree /\ active = NoTree
  <2> USE <1>5 DEF RecoverLook
  <2>1. /\ (\A x \in Workers \ {w} : job[x].pc = "idle") /\ job["tool"].then = "idle"
        /\ (job[w].then = "stage" => mjournal[ActiveParent] = NoMigration) /\ backup[job[w].token] = committed
        /\ journal # NoJournal /\ job[w].token = journal.token
    BY <1>0 DEF TypeOK, Structure, Solo, Recovering, Updating, RollingBack, Migrating, Recoverable,
      UpdateSteps, RollbackSteps, MigrateSteps, RecoverSteps
  <2>2. /\ job' \in [Workers -> Jobs] /\ (\A x \in Workers \ {w} : job'[x] = job[x])
        /\ job'[w].pc = "r_restore" /\ job'[w].token = job[w].token
        /\ job'[w].target = job[w].target /\ job'[w].status = job[w].status
        /\ job'[w].aside = job[w].aside /\ job'[w].bound = job[w].bound
        /\ job'[w].then = job[w].then
    BY <1>0, ContinueJob DEF TypeOK, Steps, UpdateSteps, RollbackSteps, MigrateSteps, RecoverSteps
  <2>3. TypeOK'
    BY DeploymentAssumption, <1>0, <2>1, <2>2 DEF TypeOK, Trees
  <2>4. Recovering(w)'
    BY DeploymentAssumption, <1>0, <2>1, <2>2 DEF TypeOK, Recovering, Recoverable, NoJournal, RecoverSteps
  <2>5. Structure'
    BY <2>1, <2>2, <2>4, IsRecovering DEF RecoverSteps
  <2>6. FreshTokens' /\ ReceiptsMatch'
    BY <1>0, <2>1, <2>2 DEF TypeOK, FreshTokens, ReceiptsMatch, Restoring
  <2>7. TreesServed' /\ JournalIsTrue'
    BY <1>0, <2>1, SameDatabase DEF TypeOK, TreesServed, JournalIsTrue
  <2>8. BackupsBound' /\ OneTransaction' /\ ReceiptIsTrue' /\ CommittedIsAudited'
    BY DeploymentAssumption, <1>0, <2>1 DEF TypeOK, BackupsBound, OneTransaction, ReceiptIsTrue,
      CommittedIsAudited
  <2> QED BY <2>3, <2>5, <2>6, <2>7, <2>8 DEF DeploymentInv
<1>6. CASE RecoverLook(w) /\ backup[job[w].token] = NoTree
  <2> USE <1>6 DEF RecoverLook
  <2>1. /\ (\A x \in Workers \ {w} : job[x].pc = "idle") /\ job["tool"].then = "idle"
        /\ (job[w].then = "stage" => mjournal[ActiveParent] = NoMigration) /\ active = committed
        /\ job[w].status = "PREPARED" /\ journal # NoJournal
        /\ job[w].token = journal.token
    BY DeploymentAssumption, <1>0 DEF TypeOK, Structure, Solo, Recovering, Updating, RollingBack, Migrating, Recoverable,
      UpdateSteps, RollbackSteps, MigrateSteps, RecoverSteps
  <2>2. /\ job' \in [Workers -> Jobs] /\ (\A x \in Workers \ {w} : job'[x] = job[x])
        /\ job'[w].pc = "r_discard" /\ job'[w].token = job[w].token
        /\ job'[w].target = job[w].target /\ job'[w].status = job[w].status
        /\ job'[w].aside = job[w].aside /\ job'[w].bound = job[w].bound
        /\ job'[w].then = job[w].then
    BY <1>0, <2>1, ContinueJob DEF TypeOK, Steps, UpdateSteps, RollbackSteps, MigrateSteps, RecoverSteps
  <2>3. TypeOK'
    BY DeploymentAssumption, <1>0, <2>1, <2>2 DEF TypeOK, Trees
  <2>4. Recovering(w)'
    BY DeploymentAssumption, <1>0, <2>1, <2>2 DEF TypeOK, Recovering, Recoverable, NoJournal, RecoverSteps
  <2>5. Structure'
    BY <2>1, <2>2, <2>4, IsRecovering DEF RecoverSteps
  <2>6. FreshTokens' /\ ReceiptsMatch'
    BY <1>0, <2>1, <2>2 DEF TypeOK, FreshTokens, ReceiptsMatch, Restoring
  <2>7. TreesServed' /\ JournalIsTrue'
    BY <1>0, <2>1, SameDatabase DEF TypeOK, TreesServed, JournalIsTrue
  <2>8. BackupsBound' /\ OneTransaction' /\ ReceiptIsTrue' /\ CommittedIsAudited'
    BY DeploymentAssumption, <1>0, <2>1 DEF TypeOK, BackupsBound, OneTransaction, ReceiptIsTrue,
      CommittedIsAudited
  <2> QED BY <2>3, <2>5, <2>6, <2>7, <2>8 DEF DeploymentInv
<1>7. CASE RecoverAside(w) /\ active # NoTree
  <2> USE <1>7 DEF RecoverAside
  <2>a. active \in Trees /\ "r_restore" \in Steps
    BY <1>0 DEF TypeOK, Steps, RecoverSteps
  <2>1. /\ (\A x \in Workers \ {w} : job[x].pc = "idle") /\ job["tool"].then = "idle"
        /\ (job[w].then = "stage" => mjournal[ActiveParent] = NoMigration) /\ backup[job[w].token] = committed
        /\ journal # NoJournal /\ job[w].token = journal.token
    BY <1>0 DEF TypeOK, Structure, Solo, Recovering, Updating, RollingBack, Migrating, Recoverable,
      UpdateSteps, RollbackSteps, MigrateSteps, RecoverSteps
  <2>2. /\ job' \in [Workers -> Jobs] /\ (\A x \in Workers \ {w} : job'[x] = job[x])
        /\ job'[w].pc = "r_restore" /\ job'[w].token = job[w].token
        /\ job'[w].then = job[w].then
    BY <1>0, <2>a, AsideJob DEF TypeOK
  <2>3. TypeOK'
    BY DeploymentAssumption, <1>0, <2>1, <2>2 DEF TypeOK, Trees
  <2>4. Recovering(w)'
    BY DeploymentAssumption, <1>0, <2>1, <2>2 DEF TypeOK, Recovering, Recoverable, NoJournal, RecoverSteps
  <2>5. Structure'
    BY <2>1, <2>2, <2>4, IsRecovering DEF RecoverSteps
  <2>6. FreshTokens' /\ ReceiptsMatch'
    BY <1>0, <2>1, <2>2 DEF TypeOK, FreshTokens, ReceiptsMatch, Restoring
  <2>7. TreesServed' /\ JournalIsTrue'
    BY <1>0, <2>1, SameDatabase DEF TypeOK, TreesServed, JournalIsTrue
  <2>8. BackupsBound' /\ OneTransaction' /\ ReceiptIsTrue' /\ CommittedIsAudited'
    BY DeploymentAssumption, <1>0, <2>1 DEF TypeOK, BackupsBound, OneTransaction, ReceiptIsTrue,
      CommittedIsAudited
  <2> QED BY <2>3, <2>5, <2>6, <2>7, <2>8 DEF DeploymentInv
<1>8. CASE RecoverAside(w) /\ active = NoTree
  <2> USE <1>8 DEF RecoverAside
  <2>1. /\ (\A x \in Workers \ {w} : job[x].pc = "idle") /\ job["tool"].then = "idle"
        /\ backup[job[w].token] = committed /\ journal # NoJournal
        /\ job[w].token = journal.token
    BY <1>0 DEF TypeOK, Structure, Solo, Recovering, Updating, RollingBack, Migrating, Recoverable,
      UpdateSteps, RollbackSteps, MigrateSteps, RecoverSteps
  <2>2. /\ job' \in [Workers -> Jobs] /\ (\A x \in Workers \ {w} : job'[x] = job[x])
        /\ job'[w].pc = "idle" /\ job'[w].then = "idle"
    BY <1>0, StopJob DEF TypeOK
  <2>3. TypeOK'
    BY DeploymentAssumption, <1>0, <2>1, <2>2 DEF TypeOK, Trees
  <2>4. Recoverable'
    BY DeploymentAssumption, <1>0, <2>1, <2>2 DEF TypeOK, Recoverable, NoJournal
  <2>5. Structure'
    BY <2>1, <2>2, <2>4, IsIdle
  <2>6. FreshTokens' /\ ReceiptsMatch'
    BY <1>0, <2>1, <2>2 DEF TypeOK, FreshTokens, ReceiptsMatch, Restoring
  <2>7. TreesServed' /\ JournalIsTrue'
    BY <1>0, <2>1, SameDatabase DEF TypeOK, TreesServed, JournalIsTrue
  <2>8. BackupsBound' /\ OneTransaction' /\ ReceiptIsTrue' /\ CommittedIsAudited'
    BY DeploymentAssumption, <1>0, <2>1 DEF TypeOK, BackupsBound, OneTransaction, ReceiptIsTrue,
      CommittedIsAudited
  <2> QED BY <2>3, <2>5, <2>6, <2>7, <2>8 DEF DeploymentInv
<1>9. CASE RecoverRestore(w)
  <2> USE <1>9 DEF RecoverRestore
  <2>1. /\ (\A x \in Workers \ {w} : job[x].pc = "idle") /\ job["tool"].then = "idle"
        /\ (job[w].then = "stage" => mjournal[ActiveParent] = NoMigration) /\ backup[job[w].token] = committed
        /\ active = NoTree /\ job[w].token \in Updates
        /\ journal # NoJournal /\ job[w].token = journal.token
    BY <1>0 DEF TypeOK, Structure, Solo, Recovering, Updating, RollingBack, Migrating, Recoverable,
      UpdateSteps, RollbackSteps, MigrateSteps, RecoverSteps, Journals, NoJournal
  <2>a. /\ active' = backup[job[w].token] /\ backup' = [backup EXCEPT ![job[w].token] = NoTree]
        /\ Continue(w, "r_discard")
    BY DeploymentAssumption, <1>0, <2>1 DEF TypeOK
  <2>2. /\ job' \in [Workers -> Jobs] /\ (\A x \in Workers \ {w} : job'[x] = job[x])
        /\ job'[w].pc = "r_discard" /\ job'[w].token = job[w].token
        /\ job'[w].target = job[w].target /\ job'[w].status = job[w].status
        /\ job'[w].aside = job[w].aside /\ job'[w].bound = job[w].bound
        /\ job'[w].then = job[w].then
    BY DeploymentAssumption, <1>0, <2>1, <2>a, ContinueJob DEF TypeOK, Steps, UpdateSteps, RollbackSteps, MigrateSteps, RecoverSteps
  <2>3. TypeOK'
    BY DeploymentAssumption, <1>0, <2>1, <2>2, <2>a DEF TypeOK, Trees
  <2>4. Recovering(w)'
    BY DeploymentAssumption, <1>0, <2>1, <2>2, <2>a DEF TypeOK, Recovering, Recoverable, NoJournal, RecoverSteps
  <2>5. Structure'
    BY <2>1, <2>2, <2>4, IsRecovering DEF RecoverSteps
  <2>6. FreshTokens' /\ ReceiptsMatch'
    BY <1>0, <2>1, <2>2, <2>a DEF TypeOK, FreshTokens, ReceiptsMatch, Restoring
  <2>7. TreesServed' /\ JournalIsTrue'
    BY <1>0, <2>1, <2>a, SameDatabase DEF TypeOK, TreesServed, JournalIsTrue
  <2>8. BackupsBound' /\ OneTransaction' /\ ReceiptIsTrue' /\ CommittedIsAudited'
    BY DeploymentAssumption, <1>0, <2>1, <2>a DEF TypeOK, BackupsBound, OneTransaction, ReceiptIsTrue,
      CommittedIsAudited
  <2> QED BY <2>3, <2>5, <2>6, <2>7, <2>8 DEF DeploymentInv
<1>10. CASE RecoverDiscard(w)
  <2> USE <1>10 DEF RecoverDiscard
  <2>1. /\ (\A x \in Workers \ {w} : job[x].pc = "idle") /\ job["tool"].then = "idle"
        /\ (job[w].then = "stage" => mjournal[ActiveParent] = NoMigration) /\ active = committed
        /\ journal # NoJournal /\ job[w].token = journal.token
        /\ job[w].token \in Updates
    BY <1>0 DEF TypeOK, Structure, Solo, Recovering, Updating, RollingBack, Migrating, Recoverable,
      UpdateSteps, RollbackSteps, MigrateSteps, RecoverSteps, Journals, NoJournal
  <2>2. /\ job' \in [Workers -> Jobs] /\ (\A x \in Workers \ {w} : job'[x] = job[x])
        /\ job'[w].pc = "r_unlink" /\ job'[w].token = job[w].token
        /\ job'[w].target = job[w].target /\ job'[w].status = job[w].status
        /\ job'[w].aside = job[w].aside /\ job'[w].bound = job[w].bound
        /\ job'[w].then = job[w].then
    BY <1>0, ContinueJob DEF TypeOK, Steps, UpdateSteps, RollbackSteps, MigrateSteps, RecoverSteps
  <2>3. TypeOK'
    BY DeploymentAssumption, <1>0, <2>1, <2>2 DEF TypeOK, Trees, Receipts, NoReceipt
  <2>4. Recovering(w)'
    BY DeploymentAssumption, <1>0, <2>1, <2>2 DEF TypeOK, Recovering, Recoverable, NoJournal, RecoverSteps
  <2>5. Structure'
    BY <2>1, <2>2, <2>4, IsRecovering DEF RecoverSteps
  <2>6. FreshTokens' /\ ReceiptsMatch'
    BY <1>0, <2>1, <2>2 DEF TypeOK, FreshTokens, ReceiptsMatch, Restoring, NoReceipt
  <2>7. TreesServed' /\ JournalIsTrue'
    BY <1>0, <2>1, SameDatabase DEF TypeOK, TreesServed, JournalIsTrue
  <2>8. BackupsBound' /\ OneTransaction' /\ ReceiptIsTrue' /\ CommittedIsAudited'
    BY DeploymentAssumption, <1>0, <2>1 DEF TypeOK, BackupsBound, OneTransaction, ReceiptIsTrue,
      CommittedIsAudited
  <2> QED BY <2>3, <2>5, <2>6, <2>7, <2>8 DEF DeploymentInv
<1>11. CASE RecoverForget(w) /\ job[w].then = "stage"
  <2> USE <1>11 DEF RecoverForget
  <2>a. w = "op"
    BY <1>0 DEF Structure, Solo
  <2>b. Continue("op", "stage")
    BY <1>0, <2>a, DeploymentAssumption DEF Structure, Recovering, RecoverSteps, Resume, TypeOK
  <2>1. /\ job["tool"].pc = "idle" /\ job["tool"].then = "idle" /\ active = committed
        /\ mjournal[ActiveParent] = NoMigration /\ journal # NoJournal
    BY <1>0, <2>a DEF TypeOK, Structure, Solo, Recovering, Updating, RollingBack, Migrating, Recoverable,
      UpdateSteps, RollbackSteps, MigrateSteps, RecoverSteps
  <2>2. /\ job' \in [Workers -> Jobs] /\ (\A x \in Workers \ {"op"} : job'[x] = job[x])
        /\ job'["op"].pc = "stage" /\ job'["op"].token = job["op"].token
        /\ job'["op"].target = job["op"].target /\ job'["op"].status = job["op"].status
        /\ job'["op"].aside = job["op"].aside /\ job'["op"].bound = job["op"].bound
        /\ job'["op"].then = job["op"].then
    BY <1>0, <2>a, <2>b, ContinueJob DEF TypeOK, Steps, UpdateSteps, RollbackSteps, MigrateSteps, RecoverSteps
  <2>3. TypeOK'
    BY DeploymentAssumption, <1>0, <2>1, <2>2 DEF TypeOK, Trees, Journals
  <2>4. Updating'
    BY DeploymentAssumption, <1>0, <2>1, <2>2 DEF TypeOK, Updating, UpdateSteps, NoJournal
  <2>5. Structure'
    BY <2>1, <2>2, <2>4, IsUpdating DEF UpdateSteps
  <2>6. FreshTokens' /\ ReceiptsMatch'
    BY <1>0, <2>1, <2>2 DEF TypeOK, FreshTokens, ReceiptsMatch, Restoring
  <2>7. TreesServed' /\ JournalIsTrue'
    BY <1>0, <2>1, SameDatabase DEF TypeOK, TreesServed, JournalIsTrue
  <2>8. BackupsBound' /\ OneTransaction' /\ ReceiptIsTrue' /\ CommittedIsAudited'
    BY DeploymentAssumption, <1>0, <2>1 DEF TypeOK, BackupsBound, OneTransaction, ReceiptIsTrue,
      CommittedIsAudited
  <2> QED BY <2>3, <2>5, <2>6, <2>7, <2>8 DEF DeploymentInv
<1>12. CASE RecoverForget(w) /\ job[w].then # "stage"
  <2> USE <1>12 DEF RecoverForget, Resume
  <2>1. /\ (\A x \in Workers \ {w} : job[x].pc = "idle") /\ job["tool"].then = "idle"
        /\ active = committed /\ journal # NoJournal
    BY <1>0 DEF TypeOK, Structure, Solo, Recovering, Updating, RollingBack, Migrating, Recoverable,
      UpdateSteps, RollbackSteps, MigrateSteps, RecoverSteps
  <2>2. /\ job' \in [Workers -> Jobs] /\ (\A x \in Workers \ {w} : job'[x] = job[x])
        /\ job'[w].pc = "idle" /\ job'[w].then = "idle"
    BY <1>0, StopJob DEF TypeOK
  <2>3. TypeOK'
    BY DeploymentAssumption, <1>0, <2>1, <2>2 DEF TypeOK, Trees, Journals
  <2>4. Recoverable'
    BY DeploymentAssumption, <1>0, <2>1, <2>2 DEF TypeOK, Recoverable, NoJournal
  <2>5. Structure'
    BY <2>1, <2>2, <2>4, IsIdle
  <2>6. FreshTokens' /\ ReceiptsMatch'
    BY <1>0, <2>1, <2>2 DEF TypeOK, FreshTokens, ReceiptsMatch, Restoring
  <2>7. TreesServed' /\ JournalIsTrue'
    BY <1>0, <2>1, SameDatabase DEF TypeOK, TreesServed, JournalIsTrue
  <2>8. BackupsBound' /\ OneTransaction' /\ ReceiptIsTrue' /\ CommittedIsAudited'
    BY DeploymentAssumption, <1>0, <2>1 DEF TypeOK, BackupsBound, OneTransaction, ReceiptIsTrue,
      CommittedIsAudited
  <2> QED BY <2>3, <2>5, <2>6, <2>7, <2>8 DEF DeploymentInv
<1> QED BY <1>1, <1>2, <1>3, <1>4, <1>5, <1>6, <1>7, <1>8, <1>9, <1>10, <1>11, <1>12 DEF Recover

LEMMA BeginSafe ==
  ASSUME DeploymentInv, ToolMayOverlap = FALSE,
         \/ ToolBegin
         \/ \E release \in Releases : UpdateBegin(release)
         \/ \E t \in Updates : RollbackBegin(t)
         \/ \E release \in Trees, then \in {"idle", "m_plan"}, d \in StateDirs :
              (then = "m_plan" => release # NoTree) /\ MigrateBegin(release, then, d)
  PROVE  DeploymentInv'
<1> USE WorkerNames DEF Doing, migration, trees, backups, Updates
<1>0. /\ TypeOK /\ Structure /\ FreshTokens /\ ReceiptsMatch /\ TreesServed /\ JournalIsTrue
      /\ BackupsBound /\ OneTransaction /\ ReceiptIsTrue /\ CommittedIsAudited
  BY DEF DeploymentInv
<1>1. CASE ToolBegin
  <2> USE <1>1 DEF ToolBegin
  <2>1. /\ (\A x \in Workers \ {"tool"} : job[x].pc = "idle") /\ job["tool"].then = "idle"
        /\ Recoverable
    BY <1>0 DEF TypeOK, Structure, Solo, Recovering, Updating, RollingBack, Migrating, Recoverable,
      UpdateSteps, RollbackSteps, MigrateSteps, RecoverSteps
  <2>2. /\ job' \in [Workers -> Jobs] /\ (\A x \in Workers \ {"tool"} : job'[x] = job[x])
        /\ job'["tool"].pc = "recover" /\ job'["tool"].token = job["tool"].token
        /\ job'["tool"].target = job["tool"].target /\ job'["tool"].status = job["tool"].status
        /\ job'["tool"].aside = job["tool"].aside /\ job'["tool"].bound = job["tool"].bound
        /\ job'["tool"].then = job["tool"].then
    BY <1>0, ContinueJob DEF TypeOK, Steps, UpdateSteps, RollbackSteps, MigrateSteps, RecoverSteps
  <2>3. TypeOK'
    BY DeploymentAssumption, <1>0, <2>1, <2>2 DEF TypeOK, Trees
  <2>4. Recovering("tool")'
    BY DeploymentAssumption, <1>0, <2>1, <2>2 DEF TypeOK, Recovering, Recoverable, NoJournal, RecoverSteps
  <2>5. Structure'
    BY <2>1, <2>2, <2>4, IsRecovering DEF RecoverSteps
  <2>6. FreshTokens' /\ ReceiptsMatch'
    BY <1>0, <2>1, <2>2 DEF TypeOK, FreshTokens, ReceiptsMatch, Restoring
  <2>7. TreesServed' /\ JournalIsTrue'
    BY <1>0, <2>1, SameDatabase DEF TypeOK, TreesServed, JournalIsTrue
  <2>8. BackupsBound' /\ OneTransaction' /\ ReceiptIsTrue' /\ CommittedIsAudited'
    BY DeploymentAssumption, <1>0, <2>1 DEF TypeOK, BackupsBound, OneTransaction, ReceiptIsTrue,
      CommittedIsAudited
  <2> QED BY <2>3, <2>5, <2>6, <2>7, <2>8 DEF DeploymentInv
<1>2. CASE \E release \in Releases : UpdateBegin(release)
  <2>p. PICK release \in Releases : UpdateBegin(release)
    BY <1>2
  <2> DEFINE r == [Idle EXCEPT !.pc = "recover", !.target = release, !.then = "stage"]
  <2>a. release \in Trees /\ "recover" \in Steps /\ Idle \in Jobs /\ Idle.then = "idle"
    BY IdleIsJob DEF Idle, Trees, Steps, RecoverSteps, RollbackSteps, MigrateSteps
  <2>b. r \in Jobs /\ r.pc = "recover" /\ r.then = "stage"
    BY <2>a DEF Jobs
  <2>c. /\ job' = [job EXCEPT !["op"] = r] /\ Free /\ mjournal[ActiveParent] = NoMigration
        /\ UNCHANGED <<trees, receipt, journal, migration, audit, used, committed>>
    BY <1>2, <2>p DEF UpdateBegin, MayBegin
  <2> HIDE DEF r
  <2> USE <2>c DEF Free
  <2>1. /\ job["tool"].pc = "idle" /\ job["tool"].then = "idle" /\ job["op"].pc = "idle"
        /\ Recoverable
    BY <1>0 DEF TypeOK, Structure, Solo, Recovering, Updating, RollingBack, Migrating, Recoverable,
      UpdateSteps, RollbackSteps, MigrateSteps, RecoverSteps
  <2>2. /\ job' \in [Workers -> Jobs] /\ (\A x \in Workers \ {"op"} : job'[x] = job[x])
        /\ job'["op"].pc = "recover" /\ job'["op"].then = "stage"
    BY <1>0, <2>b, <2>c, NewJob DEF TypeOK
  <2>3. TypeOK'
    BY DeploymentAssumption, <1>0, <2>1, <2>2 DEF TypeOK, Trees
  <2>4. Recovering("op")'
    BY DeploymentAssumption, <1>0, <2>1, <2>2 DEF TypeOK, Recovering, Recoverable, NoJournal, RecoverSteps
  <2>5. Structure'
    BY <2>1, <2>2, <2>4, IsRecovering DEF RecoverSteps
  <2>6. FreshTokens' /\ ReceiptsMatch'
    BY <1>0, <2>1, <2>2 DEF TypeOK, FreshTokens, ReceiptsMatch, Restoring
  <2>7. TreesServed' /\ JournalIsTrue'
    BY <1>0, <2>1, SameDatabase DEF TypeOK, TreesServed, JournalIsTrue
  <2>8. BackupsBound' /\ OneTransaction' /\ ReceiptIsTrue' /\ CommittedIsAudited'
    BY DeploymentAssumption, <1>0, <2>1 DEF TypeOK, BackupsBound, OneTransaction, ReceiptIsTrue,
      CommittedIsAudited
  <2> QED BY <2>3, <2>5, <2>6, <2>7, <2>8 DEF DeploymentInv
<1>3. CASE (\E t \in Updates : RollbackBegin(t)) /\ journal # NoJournal
  <2>p. PICK t \in Updates : RollbackBegin(t)
    BY <1>3
  <2> DEFINE r == [Idle EXCEPT !.pc = "recover", !.token = t]
  <2>a. "recover" \in Steps /\ Idle \in Jobs /\ Idle.then = "idle"
    BY IdleIsJob DEF Idle, Trees, Steps, RecoverSteps, RollbackSteps, MigrateSteps
  <2>b. r \in Jobs /\ r.pc = "recover" /\ r.token = t /\ r.then = "idle"
    BY <2>a DEF Jobs
  <2>c. /\ job' = [job EXCEPT !["op"] = r] /\ Free /\ mjournal[ActiveParent] = NoMigration /\ journal # NoJournal
        /\ receipt[t].kind # "none"
        /\ UNCHANGED <<trees, receipt, journal, migration, audit, used, committed>>
    BY <1>3, <2>p DEF RollbackBegin, MayBegin, VerifyRollbackReceipt
  <2> HIDE DEF r
  <2> USE <2>c DEF Free
  <2>1. /\ job["tool"].pc = "idle" /\ job["tool"].then = "idle" /\ job["op"].pc = "idle"
        /\ Recoverable
    BY <1>0 DEF TypeOK, Structure, Solo, Recovering, Updating, RollingBack, Migrating, Recoverable,
      UpdateSteps, RollbackSteps, MigrateSteps, RecoverSteps
  <2>2. /\ job' \in [Workers -> Jobs] /\ (\A x \in Workers \ {"op"} : job'[x] = job[x])
        /\ job'["op"].pc = "recover" /\ job'["op"].token = t
        /\ job'["op"].then = "idle"
    BY <1>0, <2>b, <2>c, NewJob DEF TypeOK
  <2>3. TypeOK'
    BY DeploymentAssumption, <1>0, <2>1, <2>2 DEF TypeOK, Trees
  <2>4. Recovering("op")'
    BY DeploymentAssumption, <1>0, <2>1, <2>2 DEF TypeOK, Recovering, Recoverable, NoJournal, RecoverSteps
  <2>5. Structure'
    BY <2>1, <2>2, <2>4, IsRecovering DEF RecoverSteps
  <2>6. FreshTokens' /\ ReceiptsMatch'
    BY <1>0, <2>1, <2>2 DEF TypeOK, FreshTokens, ReceiptsMatch, Restoring
  <2>7. TreesServed' /\ JournalIsTrue'
    BY <1>0, <2>1, SameDatabase DEF TypeOK, TreesServed, JournalIsTrue
  <2>8. BackupsBound' /\ OneTransaction' /\ ReceiptIsTrue' /\ CommittedIsAudited'
    BY DeploymentAssumption, <1>0, <2>1 DEF TypeOK, BackupsBound, OneTransaction, ReceiptIsTrue,
      CommittedIsAudited
  <2> QED BY <2>3, <2>5, <2>6, <2>7, <2>8 DEF DeploymentInv
<1>4. CASE (\E t \in Updates : RollbackBegin(t)) /\ journal = NoJournal
  <2>p. PICK t \in Updates : RollbackBegin(t)
    BY <1>4
  <2> DEFINE r == [Idle EXCEPT !.pc = "b_aside", !.token = t]
  <2>a. "b_aside" \in Steps /\ Idle \in Jobs /\ Idle.then = "idle"
    BY IdleIsJob DEF Idle, Trees, Steps, RecoverSteps, RollbackSteps, MigrateSteps
  <2>b. r \in Jobs /\ r.pc = "b_aside" /\ r.token = t /\ r.then = "idle"
    BY <2>a DEF Jobs
  <2>c. /\ job' = [job EXCEPT !["op"] = r] /\ Free /\ mjournal[ActiveParent] = NoMigration /\ journal = NoJournal
        /\ receipt[t].kind # "none"
        /\ UNCHANGED <<trees, receipt, journal, migration, audit, used, committed>>
    BY <1>4, <2>p DEF RollbackBegin, MayBegin, VerifyRollbackReceipt
  <2> HIDE DEF r
  <2> USE <2>c DEF Free
  <2>1. /\ job["tool"].pc = "idle" /\ job["tool"].then = "idle" /\ job["op"].pc = "idle"
        /\ active = committed
    BY <1>0 DEF TypeOK, Structure, Solo, Recovering, Updating, RollingBack, Migrating, Recoverable,
      UpdateSteps, RollbackSteps, MigrateSteps, RecoverSteps
  <2>2. /\ job' \in [Workers -> Jobs] /\ (\A x \in Workers \ {"op"} : job'[x] = job[x])
        /\ job'["op"].pc = "b_aside" /\ job'["op"].token = t
        /\ job'["op"].then = "idle"
    BY <1>0, <2>b, <2>c, NewJob DEF TypeOK
  <2>3. TypeOK'
    BY DeploymentAssumption, <1>0, <2>1, <2>2 DEF TypeOK, Trees
  <2>4. RollingBack'
    BY DeploymentAssumption, <1>0, <2>1, <2>2 DEF TypeOK, RollingBack, RollbackSteps, FreshTokens
  <2>5. Structure'
    BY <2>1, <2>2, <2>4, IsRollingBack DEF RollbackSteps
  <2>6. FreshTokens' /\ ReceiptsMatch'
    BY <1>0, <2>1, <2>2 DEF TypeOK, FreshTokens, ReceiptsMatch, Restoring
  <2>7. TreesServed' /\ JournalIsTrue'
    BY <1>0, <2>1, SameDatabase DEF TypeOK, TreesServed, JournalIsTrue
  <2>8. BackupsBound' /\ OneTransaction' /\ ReceiptIsTrue' /\ CommittedIsAudited'
    BY DeploymentAssumption, <1>0, <2>1 DEF TypeOK, BackupsBound, OneTransaction, ReceiptIsTrue,
      CommittedIsAudited
  <2> QED BY <2>3, <2>5, <2>6, <2>7, <2>8 DEF DeploymentInv
<1>5. CASE \E release \in Trees, then \in {"idle", "m_plan"}, d \in StateDirs :
            (then = "m_plan" => release # NoTree) /\ MigrateBegin(release, then, d)
  <2>p. PICK release \in Trees, then \in {"idle", "m_plan"}, d \in StateDirs :
          (then = "m_plan" => release # NoTree) /\ MigrateBegin(release, then, d)
    BY <1>5
  <2> DEFINE r == [Idle EXCEPT !.pc = "m_recover", !.target = release, !.then = then, !.dir = d]
  <2>a. "m_recover" \in Steps /\ Idle \in Jobs /\ Idle.then = "idle"
    BY IdleIsJob DEF Idle, Trees, Steps, RecoverSteps, RollbackSteps, MigrateSteps
  <2>b. r \in Jobs /\ r.pc = "m_recover" /\ r.target = release /\ r.then = then
        /\ r.dir = d
    BY <2>a DEF Jobs
  <2>c. /\ job' = [job EXCEPT !["op"] = r] /\ Free
        /\ (then = "m_plan" /\ d = ActiveParent => journal = NoJournal)
        /\ (then = "m_plan" => release # NoTree)
        /\ UNCHANGED <<trees, receipt, journal, migration, audit, used, committed>>
    BY <1>5, <2>p DEF MigrateBegin
  <2> HIDE DEF r
  <2> USE <2>c DEF Free
  <2>1. /\ job["tool"].pc = "idle" /\ job["tool"].then = "idle" /\ job["op"].pc = "idle"
        /\ Recoverable
    BY <1>0 DEF TypeOK, Structure, Solo, Recovering, Updating, RollingBack, Migrating, Recoverable,
      UpdateSteps, RollbackSteps, MigrateSteps, RecoverSteps
  <2>2. /\ job' \in [Workers -> Jobs] /\ (\A x \in Workers \ {"op"} : job'[x] = job[x])
        /\ job'["op"].pc = "m_recover" /\ job'["op"].then = then
        /\ job'["op"].target = release /\ job'["op"].dir = d
    BY <1>0, <2>b, <2>c, NewJob DEF TypeOK
  <2>3. TypeOK'
    BY DeploymentAssumption, <1>0, <2>1, <2>2 DEF TypeOK, Trees
  <2>4. Migrating'
    BY DeploymentAssumption, <1>0, <2>1, <2>2 DEF TypeOK, Migrating, Recoverable, MigrateSteps
  <2>5. Structure'
    BY <2>1, <2>2, <2>4, IsMigrating DEF MigrateSteps
  <2>6. FreshTokens' /\ ReceiptsMatch'
    BY <1>0, <2>1, <2>2 DEF TypeOK, FreshTokens, ReceiptsMatch, Restoring
  <2>7. TreesServed' /\ JournalIsTrue'
    BY <1>0, <2>1, SameDatabase DEF TypeOK, TreesServed, JournalIsTrue
  <2>8. BackupsBound' /\ OneTransaction' /\ ReceiptIsTrue' /\ CommittedIsAudited'
    BY DeploymentAssumption, <1>0, <2>1 DEF TypeOK, BackupsBound, OneTransaction, ReceiptIsTrue,
      CommittedIsAudited
  <2> QED BY <2>3, <2>5, <2>6, <2>7, <2>8 DEF DeploymentInv
<1> QED BY <1>1, <1>2, <1>3, <1>4, <1>5

LEMMA RollbackSafe ==
  ASSUME DeploymentInv, Rollback
  PROVE  DeploymentInv'
<1> USE WorkerNames DEF Doing, migration, trees, backups, Updates
<1>0. /\ TypeOK /\ Structure /\ FreshTokens /\ ReceiptsMatch /\ TreesServed /\ JournalIsTrue
      /\ BackupsBound /\ OneTransaction /\ ReceiptIsTrue /\ CommittedIsAudited
  BY DEF DeploymentInv
<1>1. CASE RollbackAside
  <2> USE <1>1 DEF RollbackAside
  <2>a. active \in Trees /\ "b_restore" \in Steps
    BY <1>0 DEF TypeOK, Steps, RollbackSteps
  <2> DEFINE r == [job["op"] EXCEPT !.pc = "b_restore", !.aside = active]
  <2>b. job["op"] \in Jobs /\ job' = [job EXCEPT !["op"] = r]
    BY <1>0 DEF TypeOK
  <2>c. /\ r \in Jobs /\ r.pc = "b_restore" /\ r.token = job["op"].token
        /\ r.aside = active /\ r.then = job["op"].then
    BY <2>a, <2>b DEF Jobs
  <2> HIDE DEF r
  <2>1. /\ job["tool"].pc = "idle" /\ job["tool"].then = "idle" /\ active = committed
        /\ receipt[job["op"].token].kind # "none" /\ mjournal[ActiveParent] = NoMigration
        /\ journal = NoJournal /\ job["op"].token \in 1..used
        /\ job["op"].token \in Updates
    BY DeploymentAssumption, <1>0 DEF TypeOK, Structure, Solo, Recovering, Updating, RollingBack, Migrating, Recoverable,
      UpdateSteps, RollbackSteps, MigrateSteps, RecoverSteps
  <2>2. /\ job' \in [Workers -> Jobs] /\ (\A x \in Workers \ {"op"} : job'[x] = job[x])
        /\ job'["op"].pc = "b_restore" /\ job'["op"].token = job["op"].token
        /\ job'["op"].aside = active /\ job'["op"].then = job["op"].then
    BY <1>0, <2>b, <2>c, NewJob DEF TypeOK
  <2>3. TypeOK'
    BY DeploymentAssumption, <1>0, <2>1, <2>2 DEF TypeOK, Trees
  <2>4. RollingBack'
    BY DeploymentAssumption, <1>0, <2>1, <2>2 DEF TypeOK, RollingBack, RollbackSteps
  <2>5. Structure'
    BY <2>1, <2>2, <2>4, IsRollingBack DEF RollbackSteps
  <2>6. FreshTokens' /\ ReceiptsMatch'
    BY <1>0, <2>1, <2>2 DEF TypeOK, FreshTokens, ReceiptsMatch, Restoring
  <2>7. TreesServed' /\ JournalIsTrue'
    BY <1>0, <2>1, SameDatabase DEF TypeOK, TreesServed, JournalIsTrue
  <2>8. BackupsBound' /\ OneTransaction' /\ ReceiptIsTrue' /\ CommittedIsAudited'
    BY DeploymentAssumption, <1>0, <2>1 DEF TypeOK, BackupsBound, OneTransaction, ReceiptIsTrue,
      CommittedIsAudited
  <2> QED BY <2>3, <2>5, <2>6, <2>7, <2>8 DEF DeploymentInv
<1>2. CASE RollbackRestore
  <2> USE <1>2 DEF RollbackRestore
  <2>1. /\ job["tool"].pc = "idle" /\ job["tool"].then = "idle" /\ job["op"].aside = committed
        /\ receipt[job["op"].token].kind # "none" /\ mjournal[ActiveParent] = NoMigration
        /\ journal = NoJournal /\ job["op"].token \in 1..used
        /\ job["op"].token \in Updates
    BY DeploymentAssumption, <1>0 DEF TypeOK, Structure, Solo, Recovering, Updating, RollingBack, Migrating, Recoverable,
      UpdateSteps, RollbackSteps, MigrateSteps, RecoverSteps
  <2>a. receipt[job["op"].token].tree = backup[job["op"].token]
    BY <1>0, <2>1 DEF ReceiptsMatch, Restoring
  <2>b. backup[job["op"].token] \in Sound \cup {Installed} /\ Serves(backup[job["op"].token])
    BY <1>0, <2>1 DEF BackupsBound, TreesServed
  <2>2. /\ job' \in [Workers -> Jobs] /\ (\A x \in Workers \ {"op"} : job'[x] = job[x])
        /\ job'["op"].pc = "b_accept" /\ job'["op"].token = job["op"].token
        /\ job'["op"].target = job["op"].target /\ job'["op"].status = job["op"].status
        /\ job'["op"].aside = job["op"].aside /\ job'["op"].bound = job["op"].bound
        /\ job'["op"].then = job["op"].then
    BY <1>0, ContinueJob DEF TypeOK, Steps, UpdateSteps, RollbackSteps, MigrateSteps, RecoverSteps
  <2>3. TypeOK'
    BY DeploymentAssumption, <1>0, <2>1, <2>2 DEF TypeOK, Trees
  <2>4. RollingBack'
    BY DeploymentAssumption, <1>0, <2>1, <2>2, <2>a, <2>b DEF TypeOK, RollingBack, RollbackSteps
  <2>5. Structure'
    BY <2>1, <2>2, <2>4, IsRollingBack DEF RollbackSteps
  <2>6. FreshTokens' /\ ReceiptsMatch'
    BY <1>0, <2>1, <2>2, <2>a, <2>b DEF TypeOK, FreshTokens, ReceiptsMatch, Restoring
  <2>7. TreesServed' /\ JournalIsTrue'
    BY <1>0, <2>1, <2>a, <2>b, SameDatabase DEF TypeOK, TreesServed, JournalIsTrue
  <2>8. BackupsBound' /\ OneTransaction' /\ ReceiptIsTrue' /\ CommittedIsAudited'
    BY DeploymentAssumption, <1>0, <2>1, <2>a, <2>b DEF TypeOK, BackupsBound, OneTransaction, ReceiptIsTrue,
      CommittedIsAudited
  <2> QED BY <2>3, <2>5, <2>6, <2>7, <2>8 DEF DeploymentInv
<1>3. CASE RollbackRestoreFails
  <2> USE <1>3 DEF RollbackRestoreFails
  <2>1. /\ job["tool"].pc = "idle" /\ job["tool"].then = "idle" /\ job["op"].aside = committed
        /\ mjournal[ActiveParent] = NoMigration /\ journal = NoJournal
        /\ job["op"].token \in 1..used /\ job["op"].token \in Updates
    BY DeploymentAssumption, <1>0 DEF TypeOK, Structure, Solo, Recovering, Updating, RollingBack, Migrating, Recoverable,
      UpdateSteps, RollbackSteps, MigrateSteps, RecoverSteps
  <2>2. /\ job' \in [Workers -> Jobs] /\ (\A x \in Workers \ {"op"} : job'[x] = job[x])
        /\ job'["op"].pc = "idle" /\ job'["op"].then = "idle"
    BY <1>0, StopJob DEF TypeOK
  <2>3. TypeOK'
    BY DeploymentAssumption, <1>0, <2>1, <2>2 DEF TypeOK, Trees
  <2>4. Recoverable'
    BY DeploymentAssumption, <1>0, <2>1, <2>2 DEF TypeOK, Recoverable, NoJournal
  <2>5. Structure'
    BY <2>1, <2>2, <2>4, IsIdle
  <2>6. FreshTokens' /\ ReceiptsMatch'
    BY <1>0, <2>1, <2>2 DEF TypeOK, FreshTokens, ReceiptsMatch, Restoring
  <2>7. TreesServed' /\ JournalIsTrue'
    BY <1>0, <2>1, SameDatabase DEF TypeOK, TreesServed, JournalIsTrue
  <2>8. BackupsBound' /\ OneTransaction' /\ ReceiptIsTrue' /\ CommittedIsAudited'
    BY DeploymentAssumption, <1>0, <2>1 DEF TypeOK, BackupsBound, OneTransaction, ReceiptIsTrue,
      CommittedIsAudited
  <2> QED BY <2>3, <2>5, <2>6, <2>7, <2>8 DEF DeploymentInv
<1>4. CASE \E command, passed \in BOOLEAN : RollbackAccept(command, passed)
  <2>p. PICK next \in {"b_audit", "b_undo"} :
          /\ Doing("op", "b_accept") /\ Continue("op", next)
          /\ UNCHANGED <<trees, receipt, journal, migration, audit, used, committed>>
    BY <1>4 DEF RollbackAccept
  <2> USE <2>p
  <2>1. /\ job["tool"].pc = "idle" /\ job["tool"].then = "idle" /\ job["op"].aside = committed
        /\ receipt[job["op"].token].tree = active /\ active \in Sound \cup {Installed}
        /\ mjournal[ActiveParent] = NoMigration /\ journal = NoJournal
        /\ job["op"].token \in 1..used /\ job["op"].token \in Updates
    BY DeploymentAssumption, <1>0 DEF TypeOK, Structure, Solo, Recovering, Updating, RollingBack, Migrating, Recoverable,
      UpdateSteps, RollbackSteps, MigrateSteps, RecoverSteps
  <2>2. /\ job' \in [Workers -> Jobs] /\ (\A x \in Workers \ {"op"} : job'[x] = job[x])
        /\ job'["op"].pc = next /\ job'["op"].token = job["op"].token
        /\ job'["op"].target = job["op"].target /\ job'["op"].status = job["op"].status
        /\ job'["op"].aside = job["op"].aside /\ job'["op"].bound = job["op"].bound
        /\ job'["op"].then = job["op"].then
    BY <1>0, ContinueJob DEF TypeOK, Steps, UpdateSteps, RollbackSteps, MigrateSteps, RecoverSteps
  <2>3. TypeOK'
    BY DeploymentAssumption, <1>0, <2>1, <2>2 DEF TypeOK, Trees
  <2>4. RollingBack'
    BY DeploymentAssumption, <1>0, <2>1, <2>2 DEF TypeOK, RollingBack, RollbackSteps
  <2>5. Structure'
    BY <2>1, <2>2, <2>4, IsRollingBack DEF RollbackSteps
  <2>6. FreshTokens' /\ ReceiptsMatch'
    BY <1>0, <2>1, <2>2 DEF TypeOK, FreshTokens, ReceiptsMatch, Restoring
  <2>7. TreesServed' /\ JournalIsTrue'
    BY <1>0, <2>1, SameDatabase DEF TypeOK, TreesServed, JournalIsTrue
  <2>8. BackupsBound' /\ OneTransaction' /\ ReceiptIsTrue' /\ CommittedIsAudited'
    BY DeploymentAssumption, <1>0, <2>1 DEF TypeOK, BackupsBound, OneTransaction, ReceiptIsTrue,
      CommittedIsAudited
  <2> QED BY <2>3, <2>5, <2>6, <2>7, <2>8 DEF DeploymentInv
<1>5. CASE RollbackUndo
  <2> USE <1>5 DEF RollbackUndo
  <2>1. /\ job["tool"].pc = "idle" /\ job["tool"].then = "idle" /\ job["op"].aside = committed
        /\ receipt[job["op"].token].tree = active /\ active \in Sound \cup {Installed}
        /\ mjournal[ActiveParent] = NoMigration /\ journal = NoJournal
        /\ job["op"].token \in 1..used /\ job["op"].token \in Updates
    BY DeploymentAssumption, <1>0 DEF TypeOK, Structure, Solo, Recovering, Updating, RollingBack, Migrating, Recoverable,
      UpdateSteps, RollbackSteps, MigrateSteps, RecoverSteps
  <2>2. /\ job' \in [Workers -> Jobs] /\ (\A x \in Workers \ {"op"} : job'[x] = job[x])
        /\ job'["op"].pc = "b_undo_aside" /\ job'["op"].token = job["op"].token
        /\ job'["op"].target = job["op"].target /\ job'["op"].status = job["op"].status
        /\ job'["op"].aside = job["op"].aside /\ job'["op"].bound = job["op"].bound
        /\ job'["op"].then = job["op"].then
    BY <1>0, ContinueJob DEF TypeOK, Steps, UpdateSteps, RollbackSteps, MigrateSteps, RecoverSteps
  <2>3. TypeOK'
    BY DeploymentAssumption, <1>0, <2>1, <2>2 DEF TypeOK, Trees
  <2>4. RollingBack'
    BY DeploymentAssumption, <1>0, <2>1, <2>2 DEF TypeOK, RollingBack, RollbackSteps
  <2>5. Structure'
    BY <2>1, <2>2, <2>4, IsRollingBack DEF RollbackSteps
  <2>6. FreshTokens' /\ ReceiptsMatch'
    BY <1>0, <2>1, <2>2 DEF TypeOK, FreshTokens, ReceiptsMatch, Restoring
  <2>7. TreesServed' /\ JournalIsTrue'
    BY <1>0, <2>1, SameDatabase DEF TypeOK, TreesServed, JournalIsTrue
  <2>8. BackupsBound' /\ OneTransaction' /\ ReceiptIsTrue' /\ CommittedIsAudited'
    BY DeploymentAssumption, <1>0, <2>1 DEF TypeOK, BackupsBound, OneTransaction, ReceiptIsTrue,
      CommittedIsAudited
  <2> QED BY <2>3, <2>5, <2>6, <2>7, <2>8 DEF DeploymentInv
<1>6. CASE RollbackUndoAside
  <2> USE <1>6 DEF RollbackUndoAside
  <2>1. /\ job["tool"].pc = "idle" /\ job["tool"].then = "idle" /\ job["op"].aside = committed
        /\ mjournal[ActiveParent] = NoMigration /\ journal = NoJournal
        /\ job["op"].token \in 1..used /\ job["op"].token \in Updates
    BY DeploymentAssumption, <1>0 DEF TypeOK, Structure, Solo, Recovering, Updating, RollingBack, Migrating, Recoverable,
      UpdateSteps, RollbackSteps, MigrateSteps, RecoverSteps
  <2>2. /\ job' \in [Workers -> Jobs] /\ (\A x \in Workers \ {"op"} : job'[x] = job[x])
        /\ job'["op"].pc = "idle" /\ job'["op"].then = "idle"
    BY <1>0, StopJob DEF TypeOK
  <2>3. TypeOK'
    BY DeploymentAssumption, <1>0, <2>1, <2>2 DEF TypeOK, Trees
  <2>4. Recoverable'
    BY DeploymentAssumption, <1>0, <2>1, <2>2 DEF TypeOK, Recoverable, NoJournal
  <2>5. Structure'
    BY <2>1, <2>2, <2>4, IsIdle
  <2>6. FreshTokens' /\ ReceiptsMatch'
    BY <1>0, <2>1, <2>2 DEF TypeOK, FreshTokens, ReceiptsMatch, Restoring
  <2>7. TreesServed' /\ JournalIsTrue'
    BY <1>0, <2>1, SameDatabase DEF TypeOK, TreesServed, JournalIsTrue
  <2>8. BackupsBound' /\ OneTransaction' /\ ReceiptIsTrue' /\ CommittedIsAudited'
    BY DeploymentAssumption, <1>0, <2>1 DEF TypeOK, BackupsBound, OneTransaction, ReceiptIsTrue,
      CommittedIsAudited
  <2> QED BY <2>3, <2>5, <2>6, <2>7, <2>8 DEF DeploymentInv
<1>7. CASE AuditRollback
  <2> USE <1>7 DEF AuditRollback
  <2>1. /\ job["tool"].pc = "idle" /\ job["tool"].then = "idle" /\ receipt[job["op"].token].tree = active
        /\ active \in Sound \cup {Installed} /\ mjournal[ActiveParent] = NoMigration
        /\ journal = NoJournal /\ job["op"].token \in 1..used
        /\ job["op"].token \in Updates
    BY DeploymentAssumption, <1>0 DEF TypeOK, Structure, Solo, Recovering, Updating, RollingBack, Migrating, Recoverable,
      UpdateSteps, RollbackSteps, MigrateSteps, RecoverSteps
  <2>2. /\ job' \in [Workers -> Jobs] /\ (\A x \in Workers \ {"op"} : job'[x] = job[x])
        /\ job'["op"].pc = "b_clean" /\ job'["op"].token = job["op"].token
        /\ job'["op"].target = job["op"].target /\ job'["op"].status = job["op"].status
        /\ job'["op"].aside = job["op"].aside /\ job'["op"].bound = job["op"].bound
        /\ job'["op"].then = job["op"].then
    BY <1>0, ContinueJob DEF TypeOK, Steps, UpdateSteps, RollbackSteps, MigrateSteps, RecoverSteps
  <2>3. TypeOK'
    BY DeploymentAssumption, <1>0, <2>1, <2>2 DEF TypeOK, Trees
  <2>4. RollingBack'
    BY DeploymentAssumption, <1>0, <2>1, <2>2 DEF TypeOK, RollingBack, RollbackSteps
  <2>5. Structure'
    BY <2>1, <2>2, <2>4, IsRollingBack DEF RollbackSteps
  <2>6. FreshTokens' /\ ReceiptsMatch'
    BY <1>0, <2>1, <2>2 DEF TypeOK, FreshTokens, ReceiptsMatch, Restoring
  <2>7. TreesServed' /\ JournalIsTrue'
    BY <1>0, <2>1, SameDatabase DEF TypeOK, TreesServed, JournalIsTrue
  <2>8. BackupsBound' /\ OneTransaction' /\ ReceiptIsTrue' /\ CommittedIsAudited'
    BY DeploymentAssumption, <1>0, <2>1 DEF TypeOK, BackupsBound, OneTransaction, ReceiptIsTrue,
      CommittedIsAudited
  <2> QED BY <2>3, <2>5, <2>6, <2>7, <2>8 DEF DeploymentInv
<1>8. CASE RollbackClean
  <2> USE <1>8 DEF RollbackClean
  <2>1. /\ job["tool"].pc = "idle" /\ job["tool"].then = "idle" /\ active = committed
        /\ mjournal[ActiveParent] = NoMigration /\ journal = NoJournal
        /\ job["op"].token \in 1..used /\ job["op"].token \in Updates
    BY DeploymentAssumption, <1>0 DEF TypeOK, Structure, Solo, Recovering, Updating, RollingBack, Migrating, Recoverable,
      UpdateSteps, RollbackSteps, MigrateSteps, RecoverSteps
  <2>2. /\ job' \in [Workers -> Jobs] /\ (\A x \in Workers \ {"op"} : job'[x] = job[x])
        /\ job'["op"].pc = "idle" /\ job'["op"].then = "idle"
    BY <1>0, StopJob DEF TypeOK
  <2>3. TypeOK'
    BY DeploymentAssumption, <1>0, <2>1, <2>2 DEF TypeOK, Trees, Receipts, NoReceipt
  <2>4. Recoverable'
    BY DeploymentAssumption, <1>0, <2>1, <2>2 DEF TypeOK, Recoverable, NoJournal
  <2>5. Structure'
    BY <2>1, <2>2, <2>4, IsIdle
  <2>6. FreshTokens' /\ ReceiptsMatch'
    BY <1>0, <2>1, <2>2 DEF TypeOK, FreshTokens, ReceiptsMatch, Restoring, NoReceipt
  <2>7. TreesServed' /\ JournalIsTrue'
    BY <1>0, <2>1, SameDatabase DEF TypeOK, TreesServed, JournalIsTrue
  <2>8. BackupsBound' /\ OneTransaction' /\ ReceiptIsTrue' /\ CommittedIsAudited'
    BY DeploymentAssumption, <1>0, <2>1 DEF TypeOK, BackupsBound, OneTransaction, ReceiptIsTrue,
      CommittedIsAudited
  <2> QED BY <2>3, <2>5, <2>6, <2>7, <2>8 DEF DeploymentInv
<1> QED BY <1>1, <1>2, <1>3, <1>4, <1>5, <1>6, <1>7, <1>8 DEF Rollback

\* A database that moves forward leaves what the journals say.
LEMMA JournalsKeep ==
  ASSUME mjournal \in [StateDirs -> Migrations], db \in Nat, db' \in Nat, db <= db',
         mjournal' = mjournal, JournalIsTrue
  PROVE  JournalIsTrue'
<1> SUFFICES ASSUME NEW d \in StateDirs PROVE TrueJournal(mjournal[d])'
  BY DEF JournalIsTrue
<1>1. TrueJournal(mjournal[d]) /\ mjournal[d].from \in Nat
  BY DEF JournalIsTrue, Migrations
<1> QED BY <1>1 DEF TrueJournal

LEMMA MigrateSafe ==
  ASSUME DeploymentInv, Migrate
  PROVE  DeploymentInv'
<1> USE WorkerNames DEF Doing, migration, trees, backups, Updates
<1>0. /\ TypeOK /\ Structure /\ FreshTokens /\ ReceiptsMatch /\ TreesServed /\ JournalIsTrue
      /\ BackupsBound /\ OneTransaction /\ ReceiptIsTrue /\ CommittedIsAudited
  BY DEF DeploymentInv
<1>o. job["op"].dir \in StateDirs /\ Open = mjournal[job["op"].dir] /\ Open \in Migrations
  BY <1>0 DEF TypeOK, Jobs, Open
<1>t. TrueJournal(Open)
  BY <1>0, <1>o DEF JournalIsTrue
<1>1. CASE /\ MigrateRecover /\ job["op"].then = "m_plan"
           /\ Open = NoMigration \/ db \in {Open.from, Open.to}
  <2> USE <1>1 DEF MigrateRecover
  <2>a. /\ mreceipts' \subseteq Releases \X Releases
        /\ \A pair \in mreceipts' : SchemaHead[pair[2]] <= db
    BY <1>0, <1>t DEF TypeOK, TrueJournal, ReceiptIsTrue
  <2>k. mjournal' \in [StateDirs -> Migrations] /\ JournalIsTrue' /\ OneTransaction'
    BY <1>0, <1>o, ClearOpen DEF TypeOK
  <2>1. /\ job["tool"].pc = "idle" /\ job["tool"].then = "idle" /\ Recoverable
        /\ job["op"].target # NoTree /\ (job["op"].dir = ActiveParent => journal = NoJournal)
    BY <1>0 DEF TypeOK, Structure, Solo, Recovering, Updating, RollingBack, Migrating, Recoverable,
      UpdateSteps, RollbackSteps, MigrateSteps, RecoverSteps
  <2>2. /\ job' \in [Workers -> Jobs] /\ (\A x \in Workers \ {"op"} : job'[x] = job[x])
        /\ job'["op"].pc = "m_plan" /\ job'["op"].token = job["op"].token
        /\ job'["op"].target = job["op"].target /\ job'["op"].status = job["op"].status
        /\ job'["op"].aside = job["op"].aside /\ job'["op"].bound = job["op"].bound
        /\ job'["op"].then = job["op"].then /\ job'["op"].dir = job["op"].dir
    BY <1>0, ContinueJob DEF TypeOK, Steps, UpdateSteps, RollbackSteps, MigrateSteps, RecoverSteps
  <2>3. TypeOK'
    BY DeploymentAssumption, <2>k, <1>0, <2>1, <2>2, <2>a DEF TypeOK, Trees
  <2>4. Migrating'
    BY DeploymentAssumption, <1>0, <2>1, <2>2, <2>a DEF TypeOK, Migrating, Recoverable, MigrateSteps
  <2>5. Structure'
    BY <2>1, <2>2, <2>4, IsMigrating DEF MigrateSteps
  <2>6. FreshTokens' /\ ReceiptsMatch'
    BY <1>0, <2>1, <2>2, <2>a DEF TypeOK, FreshTokens, ReceiptsMatch, Restoring
  <2>7. TreesServed' /\ JournalIsTrue'
    BY <2>k, <1>0, <2>1, <2>a, SameDatabase DEF TypeOK, TreesServed
  <2>8. BackupsBound' /\ OneTransaction' /\ ReceiptIsTrue' /\ CommittedIsAudited'
    BY <2>k, DeploymentAssumption, <1>0, <2>1, <2>a DEF TypeOK, BackupsBound, ReceiptIsTrue,
      CommittedIsAudited
  <2> QED BY <2>3, <2>5, <2>6, <2>7, <2>8 DEF DeploymentInv
<1>2. CASE /\ MigrateRecover /\ job["op"].then = "idle"
           /\ Open = NoMigration \/ db \in {Open.from, Open.to}
  <2> USE <1>2 DEF MigrateRecover
  <2>a. /\ mreceipts' \subseteq Releases \X Releases
        /\ \A pair \in mreceipts' : SchemaHead[pair[2]] <= db
    BY <1>0, <1>t DEF TypeOK, TrueJournal, ReceiptIsTrue
  <2>k. mjournal' \in [StateDirs -> Migrations] /\ JournalIsTrue' /\ OneTransaction'
    BY <1>0, <1>o, ClearOpen DEF TypeOK
  <2>1. /\ job["tool"].pc = "idle" /\ job["tool"].then = "idle" /\ Recoverable
    BY <1>0 DEF TypeOK, Structure, Solo, Recovering, Updating, RollingBack, Migrating, Recoverable,
      UpdateSteps, RollbackSteps, MigrateSteps, RecoverSteps
  <2>2. /\ job' \in [Workers -> Jobs] /\ (\A x \in Workers \ {"op"} : job'[x] = job[x])
        /\ job'["op"].pc = "idle" /\ job'["op"].token = job["op"].token
        /\ job'["op"].target = job["op"].target /\ job'["op"].status = job["op"].status
        /\ job'["op"].aside = job["op"].aside /\ job'["op"].bound = job["op"].bound
        /\ job'["op"].then = job["op"].then /\ job'["op"].dir = job["op"].dir
    BY <1>0, ContinueJob DEF TypeOK, Steps, UpdateSteps, RollbackSteps, MigrateSteps, RecoverSteps
  <2>3. TypeOK'
    BY DeploymentAssumption, <2>k, <1>0, <2>1, <2>2, <2>a DEF TypeOK, Trees
  <2>4. Recoverable'
    BY DeploymentAssumption, <1>0, <2>1, <2>2, <2>a DEF TypeOK, Recoverable, NoJournal
  <2>5. Structure'
    BY <2>1, <2>2, <2>4, IsIdle
  <2>6. FreshTokens' /\ ReceiptsMatch'
    BY <1>0, <2>1, <2>2, <2>a DEF TypeOK, FreshTokens, ReceiptsMatch, Restoring
  <2>7. TreesServed' /\ JournalIsTrue'
    BY <2>k, <1>0, <2>1, <2>a, SameDatabase DEF TypeOK, TreesServed
  <2>8. BackupsBound' /\ OneTransaction' /\ ReceiptIsTrue' /\ CommittedIsAudited'
    BY <2>k, DeploymentAssumption, <1>0, <2>1, <2>a DEF TypeOK, BackupsBound, ReceiptIsTrue,
      CommittedIsAudited
  <2> QED BY <2>3, <2>5, <2>6, <2>7, <2>8 DEF DeploymentInv
<1>3. CASE /\ MigrateRecover
           /\ ~(Open = NoMigration \/ db \in {Open.from, Open.to})
  <2> USE <1>3 DEF MigrateRecover
  <2>a. /\ mreceipts' \subseteq Releases \X Releases
        /\ \A pair \in mreceipts' : SchemaHead[pair[2]] <= db
    BY <1>0, <1>t DEF TypeOK, TrueJournal, ReceiptIsTrue
  <2>1. /\ job["tool"].pc = "idle" /\ job["tool"].then = "idle" /\ Recoverable
    BY <1>0 DEF TypeOK, Structure, Solo, Recovering, Updating, RollingBack, Migrating, Recoverable,
      UpdateSteps, RollbackSteps, MigrateSteps, RecoverSteps
  <2>2. /\ job' \in [Workers -> Jobs] /\ (\A x \in Workers \ {"op"} : job'[x] = job[x])
        /\ job'["op"].pc = "idle" /\ job'["op"].then = "idle"
    BY <1>0, StopJob DEF TypeOK
  <2>3. TypeOK'
    BY DeploymentAssumption, <1>0, <2>1, <2>2, <2>a DEF TypeOK, Trees
  <2>4. Recoverable'
    BY DeploymentAssumption, <1>0, <2>1, <2>2, <2>a DEF TypeOK, Recoverable, NoJournal
  <2>5. Structure'
    BY <2>1, <2>2, <2>4, IsIdle
  <2>6. FreshTokens' /\ ReceiptsMatch'
    BY <1>0, <2>1, <2>2, <2>a DEF TypeOK, FreshTokens, ReceiptsMatch, Restoring
  <2>7. TreesServed' /\ JournalIsTrue'
    BY <1>0, <2>1, <2>a, SameDatabase DEF TypeOK, TreesServed, JournalIsTrue
  <2>8. BackupsBound' /\ OneTransaction' /\ ReceiptIsTrue' /\ CommittedIsAudited'
    BY DeploymentAssumption, <1>0, <2>1, <2>a DEF TypeOK, BackupsBound, OneTransaction, ReceiptIsTrue,
      CommittedIsAudited
  <2> QED BY <2>3, <2>5, <2>6, <2>7, <2>8 DEF DeploymentInv
<1>4. CASE /\ MigratePlan /\ active # NoTree /\ Required(active, job["op"].target) /\ Planned(active, job["op"].target)
                   /\ db = SchemaHead[active] /\ VerifyBackupReceipt(active, SchemaHead[active])
  <2> USE <1>4 DEF MigratePlan
  <2>1. /\ job["tool"].pc = "idle" /\ job["tool"].then = "idle" /\ Recoverable
        /\ job["op"].target # NoTree /\ (job["op"].dir = ActiveParent => journal = NoJournal)
    BY <1>0 DEF TypeOK, Structure, Solo, Recovering, Updating, RollingBack, Migrating, Recoverable,
      UpdateSteps, RollbackSteps, MigrateSteps, RecoverSteps
  <2>a. /\ active \in Releases /\ job["op"].target \in Releases
        /\ SchemaHead[active] \in Nat /\ SchemaHead[job["op"].target] \in Nat
        /\ SchemaHead[active] # SchemaHead[job["op"].target]
    BY <1>0, <2>1, DeploymentAssumption DEF TypeOK, Jobs, Trees, Required
  <2>b. active \in Trees /\ job["op"].target \in Trees /\ dbBackup \in Backups
    BY <1>0, <2>a DEF TypeOK, Trees
  <2> DEFINE plan == [pair |-> <<active, job["op"].target>>, from |-> SchemaHead[active],
                      to |-> SchemaHead[job["op"].target], backup |-> dbBackup]
  <2>d. plan \in Migrations /\ SetOpen(plan)
    BY <2>a, <2>b DEF Migrations
  <2>e. TrueJournal(plan) /\ plan # NoMigration
    BY <1>0, <2>a DEF TypeOK, TrueJournal, Planned, VerifyBackupReceipt, NoMigration
  <2> HIDE DEF plan
  <2>c. /\ mjournal' \in [StateDirs -> Migrations] /\ mjournal'[job["op"].dir] = plan
        /\ \A d \in StateDirs \ {job["op"].dir} : mjournal'[d] = mjournal[d]
    BY <1>0, <1>o, <2>d, WriteOpen DEF TypeOK
  <2>j. JournalIsTrue'
    <3>1. \A n : TrueJournal(n) => TrueJournal(n)'
      BY DEF TrueJournal
    <3> QED BY <1>0, <1>o, <2>c, <2>e, <3>1 DEF JournalIsTrue
  <2>2. /\ job' \in [Workers -> Jobs] /\ (\A x \in Workers \ {"op"} : job'[x] = job[x])
        /\ job'["op"].pc = "m_command" /\ job'["op"].token = job["op"].token
        /\ job'["op"].target = job["op"].target /\ job'["op"].status = job["op"].status
        /\ job'["op"].aside = job["op"].aside /\ job'["op"].bound = job["op"].bound
        /\ job'["op"].then = job["op"].then /\ job'["op"].dir = job["op"].dir
    BY <1>0, ContinueJob DEF TypeOK, Steps, UpdateSteps, RollbackSteps, MigrateSteps, RecoverSteps
  <2>3. TypeOK'
    BY DeploymentAssumption, <1>0, <2>1, <2>2, <2>c DEF TypeOK, Trees
  <2>4. Migrating'
    <3>1. Open' = plan /\ Open' # NoMigration
      BY <2>2, <2>c, <2>e DEF Open
    <3> QED BY <1>0, <2>1, <2>2, <3>1 DEF TypeOK, Migrating, Recoverable, MigrateSteps
  <2>5. Structure'
    BY <2>1, <2>2, <2>4, IsMigrating DEF MigrateSteps
  <2>6. FreshTokens' /\ ReceiptsMatch'
    BY <1>0, <2>1, <2>2, <2>a DEF TypeOK, FreshTokens, ReceiptsMatch, Restoring
  <2>7. TreesServed' /\ JournalIsTrue'
    BY <1>0, <2>1, <2>j, SameDatabase DEF TypeOK, TreesServed
  <2>8. BackupsBound' /\ OneTransaction' /\ ReceiptIsTrue' /\ CommittedIsAudited'
    BY DeploymentAssumption, <1>0, <2>1, <2>c DEF TypeOK, BackupsBound, OneTransaction, ReceiptIsTrue,
      CommittedIsAudited
  <2> QED BY <2>3, <2>5, <2>6, <2>7, <2>8 DEF DeploymentInv
<1>5. CASE MigratePlan /\ ~(active # NoTree /\ Required(active, job["op"].target) /\ Planned(active, job["op"].target)
                   /\ db = SchemaHead[active] /\ VerifyBackupReceipt(active, SchemaHead[active]))
  <2> USE <1>5 DEF MigratePlan
  <2>1. /\ job["tool"].pc = "idle" /\ job["tool"].then = "idle" /\ Recoverable
    BY <1>0 DEF TypeOK, Structure, Solo, Recovering, Updating, RollingBack, Migrating, Recoverable,
      UpdateSteps, RollbackSteps, MigrateSteps, RecoverSteps
  <2>2. /\ job' \in [Workers -> Jobs] /\ (\A x \in Workers \ {"op"} : job'[x] = job[x])
        /\ job'["op"].pc = "idle" /\ job'["op"].then = "idle"
    BY <1>0, StopJob DEF TypeOK
  <2>3. TypeOK'
    BY DeploymentAssumption, <1>0, <2>1, <2>2 DEF TypeOK, Trees
  <2>4. Recoverable'
    BY DeploymentAssumption, <1>0, <2>1, <2>2 DEF TypeOK, Recoverable, NoJournal
  <2>5. Structure'
    BY <2>1, <2>2, <2>4, IsIdle
  <2>6. FreshTokens' /\ ReceiptsMatch'
    BY <1>0, <2>1, <2>2 DEF TypeOK, FreshTokens, ReceiptsMatch, Restoring
  <2>7. TreesServed' /\ JournalIsTrue'
    BY <1>0, <2>1, SameDatabase DEF TypeOK, TreesServed, JournalIsTrue
  <2>8. BackupsBound' /\ OneTransaction' /\ ReceiptIsTrue' /\ CommittedIsAudited'
    BY DeploymentAssumption, <1>0, <2>1 DEF TypeOK, BackupsBound, OneTransaction, ReceiptIsTrue,
      CommittedIsAudited
  <2> QED BY <2>3, <2>5, <2>6, <2>7, <2>8 DEF DeploymentInv
<1>6. CASE \E head \in 0..Open.to : MigrateCommand(head, TRUE)
  <2> USE <1>6 DEF MigrateCommand
  <2>p. PICK head \in 0..Open.to : MigrateCommand(head, TRUE)
    BY <1>6
  <2> USE <2>p
  <2>1. /\ job["tool"].pc = "idle" /\ job["tool"].then = "idle" /\ Recoverable
        /\ Open # NoMigration /\ (job["op"].dir = ActiveParent => journal = NoJournal)
    BY <1>0 DEF TypeOK, Structure, Solo, Recovering, Updating, RollingBack, Migrating, Recoverable,
      UpdateSteps, RollbackSteps, MigrateSteps, RecoverSteps
  <2>q. /\ Open.from \in Nat /\ Open.to \in Nat /\ db \in Nat /\ db' \in Nat
        /\ Open.from <= db /\ db <= db' /\ db' <= Open.to
        /\ \A v \in (Open.from + 1)..Open.to : v \in Compatible
    BY <1>0, <1>o, <1>t, <2>1 DEF TypeOK, Migrations, TrueJournal
  <2>2. /\ job' \in [Workers -> Jobs] /\ (\A x \in Workers \ {"op"} : job'[x] = job[x])
        /\ job'["op"].pc = "m_probe" /\ job'["op"].token = job["op"].token
        /\ job'["op"].target = job["op"].target /\ job'["op"].status = job["op"].status
        /\ job'["op"].aside = job["op"].aside /\ job'["op"].bound = job["op"].bound
        /\ job'["op"].then = job["op"].then /\ job'["op"].dir = job["op"].dir
    BY <1>0, ContinueJob DEF TypeOK, Steps, UpdateSteps, RollbackSteps, MigrateSteps, RecoverSteps
  <2>3. TypeOK'
    BY DeploymentAssumption, <1>0, <2>1, <2>2, <2>q DEF TypeOK, Trees
  <2>4. Migrating'
    BY DeploymentAssumption, <1>0, <2>1, <2>2, <2>q DEF TypeOK, Migrating, Recoverable, MigrateSteps, Open
  <2>5. Structure'
    BY <2>1, <2>2, <2>4, IsMigrating DEF MigrateSteps
  <2>6. FreshTokens' /\ ReceiptsMatch'
    BY <1>0, <2>1, <2>2, <2>q DEF TypeOK, FreshTokens, ReceiptsMatch, Restoring
  <2>7. TreesServed' /\ JournalIsTrue'
    <3>1. \A r \in Releases : Serves(r) => Serves(r)'
      BY <2>p, <2>q, DeploymentAssumption DEF Serves
    <3>2. JournalIsTrue'
      BY <1>0, <2>q, JournalsKeep DEF TypeOK
    <3> QED BY <1>0, <2>1, <2>p, <2>q, <3>1, <3>2 DEF TypeOK, Trees, TreesServed
  <2>8. BackupsBound' /\ OneTransaction' /\ ReceiptIsTrue' /\ CommittedIsAudited'
    BY DeploymentAssumption, <1>0, <2>1, <2>q DEF TypeOK, BackupsBound, OneTransaction, ReceiptIsTrue,
      CommittedIsAudited
  <2> QED BY <2>3, <2>5, <2>6, <2>7, <2>8 DEF DeploymentInv
<1>7. CASE \E head \in 0..Open.to : MigrateCommand(head, FALSE)
  <2> USE <1>7 DEF MigrateCommand
  <2>p. PICK head \in 0..Open.to : MigrateCommand(head, FALSE)
    BY <1>7
  <2> USE <2>p
  <2>1. /\ job["tool"].pc = "idle" /\ job["tool"].then = "idle" /\ Recoverable
        /\ Open # NoMigration /\ (job["op"].dir = ActiveParent => journal = NoJournal)
    BY <1>0 DEF TypeOK, Structure, Solo, Recovering, Updating, RollingBack, Migrating, Recoverable,
      UpdateSteps, RollbackSteps, MigrateSteps, RecoverSteps
  <2>q. /\ Open.from \in Nat /\ Open.to \in Nat /\ db \in Nat /\ db' \in Nat
        /\ Open.from <= db /\ db <= db' /\ db' <= Open.to
        /\ \A v \in (Open.from + 1)..Open.to : v \in Compatible
    BY <1>0, <1>o, <1>t, <2>1 DEF TypeOK, Migrations, TrueJournal
  <2>2. /\ job' \in [Workers -> Jobs] /\ (\A x \in Workers \ {"op"} : job'[x] = job[x])
        /\ job'["op"].pc = "idle" /\ job'["op"].then = "idle"
    BY <1>0, StopJob DEF TypeOK
  <2>3. TypeOK'
    BY DeploymentAssumption, <1>0, <2>1, <2>2, <2>q DEF TypeOK, Trees
  <2>4. Recoverable'
    BY DeploymentAssumption, <1>0, <2>1, <2>2, <2>q DEF TypeOK, Recoverable, NoJournal
  <2>5. Structure'
    BY <2>1, <2>2, <2>4, IsIdle
  <2>6. FreshTokens' /\ ReceiptsMatch'
    BY <1>0, <2>1, <2>2, <2>q DEF TypeOK, FreshTokens, ReceiptsMatch, Restoring
  <2>7. TreesServed' /\ JournalIsTrue'
    <3>1. \A r \in Releases : Serves(r) => Serves(r)'
      BY <2>p, <2>q, DeploymentAssumption DEF Serves
    <3>2. JournalIsTrue'
      BY <1>0, <2>q, JournalsKeep DEF TypeOK
    <3> QED BY <1>0, <2>1, <2>p, <2>q, <3>1, <3>2 DEF TypeOK, Trees, TreesServed
  <2>8. BackupsBound' /\ OneTransaction' /\ ReceiptIsTrue' /\ CommittedIsAudited'
    BY DeploymentAssumption, <1>0, <2>1, <2>q DEF TypeOK, BackupsBound, OneTransaction, ReceiptIsTrue,
      CommittedIsAudited
  <2> QED BY <2>3, <2>5, <2>6, <2>7, <2>8 DEF DeploymentInv
<1>8. CASE MigrateProbe /\ db = Open.to
  <2> USE <1>8 DEF MigrateProbe
  <2>1. /\ job["tool"].pc = "idle" /\ job["tool"].then = "idle" /\ Recoverable
        /\ Open # NoMigration /\ (job["op"].dir = ActiveParent => journal = NoJournal)
    BY <1>0 DEF TypeOK, Structure, Solo, Recovering, Updating, RollingBack, Migrating, Recoverable,
      UpdateSteps, RollbackSteps, MigrateSteps, RecoverSteps
  <2>2. /\ job' \in [Workers -> Jobs] /\ (\A x \in Workers \ {"op"} : job'[x] = job[x])
        /\ job'["op"].pc = "m_receipt" /\ job'["op"].token = job["op"].token
        /\ job'["op"].target = job["op"].target /\ job'["op"].status = job["op"].status
        /\ job'["op"].aside = job["op"].aside /\ job'["op"].bound = job["op"].bound
        /\ job'["op"].then = job["op"].then /\ job'["op"].dir = job["op"].dir
    BY <1>0, ContinueJob DEF TypeOK, Steps, UpdateSteps, RollbackSteps, MigrateSteps, RecoverSteps
  <2>3. TypeOK'
    BY DeploymentAssumption, <1>0, <2>1, <2>2 DEF TypeOK, Trees
  <2>4. Migrating'
    BY DeploymentAssumption, <1>0, <2>1, <2>2 DEF TypeOK, Migrating, Recoverable, MigrateSteps, Open
  <2>5. Structure'
    BY <2>1, <2>2, <2>4, IsMigrating DEF MigrateSteps
  <2>6. FreshTokens' /\ ReceiptsMatch'
    BY <1>0, <2>1, <2>2 DEF TypeOK, FreshTokens, ReceiptsMatch, Restoring
  <2>7. TreesServed' /\ JournalIsTrue'
    BY <1>0, <2>1, SameDatabase DEF TypeOK, TreesServed, JournalIsTrue
  <2>8. BackupsBound' /\ OneTransaction' /\ ReceiptIsTrue' /\ CommittedIsAudited'
    BY DeploymentAssumption, <1>0, <2>1 DEF TypeOK, BackupsBound, OneTransaction, ReceiptIsTrue,
      CommittedIsAudited
  <2> QED BY <2>3, <2>5, <2>6, <2>7, <2>8 DEF DeploymentInv
<1>9. CASE MigrateProbe /\ db # Open.to
  <2> USE <1>9 DEF MigrateProbe
  <2>1. /\ job["tool"].pc = "idle" /\ job["tool"].then = "idle" /\ Recoverable
    BY <1>0 DEF TypeOK, Structure, Solo, Recovering, Updating, RollingBack, Migrating, Recoverable,
      UpdateSteps, RollbackSteps, MigrateSteps, RecoverSteps
  <2>2. /\ job' \in [Workers -> Jobs] /\ (\A x \in Workers \ {"op"} : job'[x] = job[x])
        /\ job'["op"].pc = "idle" /\ job'["op"].then = "idle"
    BY <1>0, StopJob DEF TypeOK
  <2>3. TypeOK'
    BY DeploymentAssumption, <1>0, <2>1, <2>2 DEF TypeOK, Trees
  <2>4. Recoverable'
    BY DeploymentAssumption, <1>0, <2>1, <2>2 DEF TypeOK, Recoverable, NoJournal
  <2>5. Structure'
    BY <2>1, <2>2, <2>4, IsIdle
  <2>6. FreshTokens' /\ ReceiptsMatch'
    BY <1>0, <2>1, <2>2 DEF TypeOK, FreshTokens, ReceiptsMatch, Restoring
  <2>7. TreesServed' /\ JournalIsTrue'
    BY <1>0, <2>1, SameDatabase DEF TypeOK, TreesServed, JournalIsTrue
  <2>8. BackupsBound' /\ OneTransaction' /\ ReceiptIsTrue' /\ CommittedIsAudited'
    BY DeploymentAssumption, <1>0, <2>1 DEF TypeOK, BackupsBound, OneTransaction, ReceiptIsTrue,
      CommittedIsAudited
  <2> QED BY <2>3, <2>5, <2>6, <2>7, <2>8 DEF DeploymentInv
<1>10. CASE MigrateReceipt
  <2> USE <1>10 DEF MigrateReceipt
  <2>1. /\ job["tool"].pc = "idle" /\ job["tool"].then = "idle" /\ Recoverable
        /\ Open # NoMigration /\ (job["op"].dir = ActiveParent => journal = NoJournal)
        /\ db = Open.to
    BY <1>0 DEF TypeOK, Structure, Solo, Recovering, Updating, RollingBack, Migrating, Recoverable,
      UpdateSteps, RollbackSteps, MigrateSteps, RecoverSteps
  <2>a. /\ mreceipts' \subseteq Releases \X Releases
        /\ \A pair \in mreceipts' : SchemaHead[pair[2]] <= db
    BY <1>0, <1>t, <2>1 DEF TypeOK, TrueJournal, ReceiptIsTrue
  <2>2. /\ job' \in [Workers -> Jobs] /\ (\A x \in Workers \ {"op"} : job'[x] = job[x])
        /\ job'["op"].pc = "m_audit" /\ job'["op"].token = job["op"].token
        /\ job'["op"].target = job["op"].target /\ job'["op"].status = job["op"].status
        /\ job'["op"].aside = job["op"].aside /\ job'["op"].bound = job["op"].bound
        /\ job'["op"].then = job["op"].then /\ job'["op"].dir = job["op"].dir
    BY <1>0, ContinueJob DEF TypeOK, Steps, UpdateSteps, RollbackSteps, MigrateSteps, RecoverSteps
  <2>3. TypeOK'
    BY DeploymentAssumption, <1>0, <2>1, <2>2, <2>a DEF TypeOK, Trees
  <2>4. Migrating'
    BY DeploymentAssumption, <1>0, <2>1, <2>2, <2>a DEF TypeOK, Migrating, Recoverable, MigrateSteps, Open
  <2>5. Structure'
    BY <2>1, <2>2, <2>4, IsMigrating DEF MigrateSteps
  <2>6. FreshTokens' /\ ReceiptsMatch'
    BY <1>0, <2>1, <2>2, <2>a DEF TypeOK, FreshTokens, ReceiptsMatch, Restoring
  <2>7. TreesServed' /\ JournalIsTrue'
    BY <1>0, <2>1, <2>a, SameDatabase DEF TypeOK, TreesServed, JournalIsTrue
  <2>8. BackupsBound' /\ OneTransaction' /\ ReceiptIsTrue' /\ CommittedIsAudited'
    BY DeploymentAssumption, <1>0, <2>1, <2>a DEF TypeOK, BackupsBound, OneTransaction, ReceiptIsTrue,
      CommittedIsAudited
  <2> QED BY <2>3, <2>5, <2>6, <2>7, <2>8 DEF DeploymentInv
<1>11. CASE AuditMigration
  <2> USE <1>11 DEF AuditMigration
  <2>1. /\ job["tool"].pc = "idle" /\ job["tool"].then = "idle" /\ Recoverable
        /\ Open # NoMigration /\ (job["op"].dir = ActiveParent => journal = NoJournal)
    BY <1>0 DEF TypeOK, Structure, Solo, Recovering, Updating, RollingBack, Migrating, Recoverable,
      UpdateSteps, RollbackSteps, MigrateSteps, RecoverSteps
  <2>2. /\ job' \in [Workers -> Jobs] /\ (\A x \in Workers \ {"op"} : job'[x] = job[x])
        /\ job'["op"].pc = "m_unlink" /\ job'["op"].token = job["op"].token
        /\ job'["op"].target = job["op"].target /\ job'["op"].status = job["op"].status
        /\ job'["op"].aside = job["op"].aside /\ job'["op"].bound = job["op"].bound
        /\ job'["op"].then = job["op"].then /\ job'["op"].dir = job["op"].dir
    BY <1>0, ContinueJob DEF TypeOK, Steps, UpdateSteps, RollbackSteps, MigrateSteps, RecoverSteps
  <2>3. TypeOK'
    <3>1. audit' \subseteq ({"update", "rollback"} \X Releases) \cup ({"migration"} \X (Releases \X Releases))
      BY <1>0, <1>t, <2>1 DEF TypeOK, TrueJournal
    <3> QED BY <1>0, <2>1, <2>2, <3>1 DEF TypeOK
  <2>4. Migrating'
    BY DeploymentAssumption, <1>0, <2>1, <2>2 DEF TypeOK, Migrating, Recoverable, MigrateSteps, Open
  <2>5. Structure'
    BY <2>1, <2>2, <2>4, IsMigrating DEF MigrateSteps
  <2>6. FreshTokens' /\ ReceiptsMatch'
    BY <1>0, <2>1, <2>2 DEF TypeOK, FreshTokens, ReceiptsMatch, Restoring
  <2>7. TreesServed' /\ JournalIsTrue'
    BY <1>0, <2>1, SameDatabase DEF TypeOK, TreesServed, JournalIsTrue
  <2>8. BackupsBound' /\ OneTransaction' /\ ReceiptIsTrue' /\ CommittedIsAudited'
    BY DeploymentAssumption, <1>0, <2>1 DEF TypeOK, BackupsBound, OneTransaction, ReceiptIsTrue,
      CommittedIsAudited
  <2> QED BY <2>3, <2>5, <2>6, <2>7, <2>8 DEF DeploymentInv
<1>12. CASE MigrateUnlink
  <2> USE <1>12 DEF MigrateUnlink
  <2>k. mjournal' \in [StateDirs -> Migrations] /\ JournalIsTrue' /\ OneTransaction'
    BY <1>0, <1>o, ClearOpen DEF TypeOK
  <2>1. /\ job["tool"].pc = "idle" /\ job["tool"].then = "idle" /\ Recoverable
    BY <1>0 DEF TypeOK, Structure, Solo, Recovering, Updating, RollingBack, Migrating, Recoverable,
      UpdateSteps, RollbackSteps, MigrateSteps, RecoverSteps
  <2>2. /\ job' \in [Workers -> Jobs] /\ (\A x \in Workers \ {"op"} : job'[x] = job[x])
        /\ job'["op"].pc = "idle" /\ job'["op"].then = "idle"
    BY <1>0, StopJob DEF TypeOK
  <2>3. TypeOK'
    BY DeploymentAssumption, <2>k, <1>0, <2>1, <2>2 DEF TypeOK, Trees
  <2>4. Recoverable'
    BY DeploymentAssumption, <1>0, <2>1, <2>2 DEF TypeOK, Recoverable, NoJournal
  <2>5. Structure'
    BY <2>1, <2>2, <2>4, IsIdle
  <2>6. FreshTokens' /\ ReceiptsMatch'
    BY <1>0, <2>1, <2>2 DEF TypeOK, FreshTokens, ReceiptsMatch, Restoring
  <2>7. TreesServed' /\ JournalIsTrue'
    BY <2>k, <1>0, <2>1, SameDatabase DEF TypeOK, TreesServed
  <2>8. BackupsBound' /\ OneTransaction' /\ ReceiptIsTrue' /\ CommittedIsAudited'
    BY <2>k, DeploymentAssumption, <1>0, <2>1 DEF TypeOK, BackupsBound, ReceiptIsTrue,
      CommittedIsAudited
  <2> QED BY <2>3, <2>5, <2>6, <2>7, <2>8 DEF DeploymentInv
<1> QED BY <1>0, <1>1, <1>2, <1>3, <1>4, <1>5, <1>6, <1>7, <1>8, <1>9, <1>10, <1>11, <1>12 DEF Migrate, Migrating, MigrateRecover, Structure, Doing

\* Neither a stuttering step nor a new backup of the database touches the invariant.
LEMMA BackupSafe ==
  ASSUME DeploymentInv, Backup \/ UNCHANGED vars
  PROVE  DeploymentInv'
<1> USE DEF migration, trees, backups
<1>1. UNCHANGED <<active, backup, candidate, receipt, journal, db, mjournal, mreceipts, audit,
                  job, used, committed>>
  BY DEF Backup, RestoreDrill, CreateReceipt, ReceiptAge, vars
<1>2. dump' \in [taken : BOOLEAN, head : Nat] /\ dbBackup' \in Backups
  <2>1. /\ dump \in [taken : BOOLEAN, head : Nat] /\ dbBackup \in Backups
        /\ db \in Nat /\ active \in Trees /\ dump.head \in Nat
    BY DEF DeploymentInv, TypeOK
  <2>2. CASE RestoreDrill
    BY <2>1, <2>2 DEF RestoreDrill
  <2>3. CASE CreateReceipt
    BY <2>1, <2>3 DEF CreateReceipt, Backups
  <2>4. CASE ReceiptAge
    BY <2>4 DEF ReceiptAge, NoDump, NoBackup, Backups, Trees
  <2>5. CASE UNCHANGED vars
    BY <2>1, <2>5 DEF vars
  <2> QED BY <2>2, <2>3, <2>4, <2>5 DEF Backup
<1>3. TypeOK'
  BY <1>1, <1>2 DEF DeploymentInv, TypeOK
<1>4. Structure'
  BY <1>1 DEF DeploymentInv, Structure, Solo, Recovering, Updating, RollingBack, Migrating, Recoverable, Open
<1>5. FreshTokens' /\ ReceiptsMatch' /\ TreesServed' /\ JournalIsTrue'
  BY <1>1 DEF DeploymentInv, FreshTokens, ReceiptsMatch, Restoring, TreesServed, Serves, JournalIsTrue, TrueJournal
<1>6. BackupsBound' /\ OneTransaction' /\ ReceiptIsTrue' /\ CommittedIsAudited'
  BY <1>1 DEF DeploymentInv, BackupsBound, OneTransaction, ReceiptIsTrue, CommittedIsAudited
<1> QED BY <1>3, <1>4, <1>5, <1>6 DEF DeploymentInv

LEMMA CrashSafe ==
  ASSUME DeploymentInv, NEW w \in Workers, Faults \subseteq {"update", "migrate"}, Crash(w)
  PROVE  DeploymentInv'
<1> USE WorkerNames DEF Doing, migration, trees, backups, Updates
<1>0. /\ TypeOK /\ Structure /\ FreshTokens /\ ReceiptsMatch /\ TreesServed /\ JournalIsTrue
      /\ BackupsBound /\ OneTransaction /\ ReceiptIsTrue /\ CommittedIsAudited
  BY DEF DeploymentInv
<1>1. CASE Crash(w) /\ job[w].pc \in UpdateSteps
  <2> USE <1>1 DEF Crash
  <2>a. w = "op" /\ Stop("op")
    BY <1>0 DEF Structure, Solo, RecoverSteps, UpdateSteps, MigrateSteps
  <2> USE <2>a
  <2>1. /\ job["tool"].pc = "idle" /\ job["tool"].then = "idle" /\ Recoverable
    BY <1>0 DEF TypeOK, Structure, Solo, Recovering, Updating, RollingBack, Migrating, Recoverable,
      UpdateSteps, RollbackSteps, MigrateSteps, RecoverSteps
  <2>2. /\ job' \in [Workers -> Jobs] /\ (\A x \in Workers \ {"op"} : job'[x] = job[x])
        /\ job'["op"].pc = "idle" /\ job'["op"].then = "idle"
    BY <1>0, StopJob DEF TypeOK
  <2>3. TypeOK'
    BY DeploymentAssumption, <1>0, <2>1, <2>2 DEF TypeOK, Trees
  <2>4. Recoverable'
    BY DeploymentAssumption, <1>0, <2>1, <2>2 DEF TypeOK, Recoverable, NoJournal
  <2>5. Structure'
    BY <2>1, <2>2, <2>4, IsIdle
  <2>6. FreshTokens' /\ ReceiptsMatch'
    BY <1>0, <2>1, <2>2 DEF TypeOK, FreshTokens, ReceiptsMatch, Restoring, UpdateSteps, MigrateSteps
  <2>7. TreesServed' /\ JournalIsTrue'
    BY <1>0, <2>1, SameDatabase DEF TypeOK, TreesServed, JournalIsTrue
  <2>8. BackupsBound' /\ OneTransaction' /\ ReceiptIsTrue' /\ CommittedIsAudited'
    BY DeploymentAssumption, <1>0, <2>1 DEF TypeOK, BackupsBound, OneTransaction, ReceiptIsTrue,
      CommittedIsAudited
  <2> QED BY <2>3, <2>5, <2>6, <2>7, <2>8 DEF DeploymentInv
<1>2. CASE Crash(w) /\ job[w].pc \in MigrateSteps
  <2> USE <1>2 DEF Crash
  <2>a. w = "op" /\ Stop("op")
    BY <1>0 DEF Structure, Solo, RecoverSteps, UpdateSteps, MigrateSteps
  <2> USE <2>a
  <2>1. /\ job["tool"].pc = "idle" /\ job["tool"].then = "idle" /\ Recoverable
    BY <1>0 DEF TypeOK, Structure, Solo, Recovering, Updating, RollingBack, Migrating, Recoverable,
      UpdateSteps, RollbackSteps, MigrateSteps, RecoverSteps
  <2>2. /\ job' \in [Workers -> Jobs] /\ (\A x \in Workers \ {"op"} : job'[x] = job[x])
        /\ job'["op"].pc = "idle" /\ job'["op"].then = "idle"
    BY <1>0, StopJob DEF TypeOK
  <2>3. TypeOK'
    BY DeploymentAssumption, <1>0, <2>1, <2>2 DEF TypeOK, Trees
  <2>4. Recoverable'
    BY DeploymentAssumption, <1>0, <2>1, <2>2 DEF TypeOK, Recoverable, NoJournal
  <2>5. Structure'
    BY <2>1, <2>2, <2>4, IsIdle
  <2>6. FreshTokens' /\ ReceiptsMatch'
    BY <1>0, <2>1, <2>2 DEF TypeOK, FreshTokens, ReceiptsMatch, Restoring, UpdateSteps, MigrateSteps
  <2>7. TreesServed' /\ JournalIsTrue'
    BY <1>0, <2>1, SameDatabase DEF TypeOK, TreesServed, JournalIsTrue
  <2>8. BackupsBound' /\ OneTransaction' /\ ReceiptIsTrue' /\ CommittedIsAudited'
    BY DeploymentAssumption, <1>0, <2>1 DEF TypeOK, BackupsBound, OneTransaction, ReceiptIsTrue,
      CommittedIsAudited
  <2> QED BY <2>3, <2>5, <2>6, <2>7, <2>8 DEF DeploymentInv
<1>3. job[w].pc \in UpdateSteps \cup MigrateSteps
  <2>1. job[w].pc \in Steps \ {"idle"}
    BY <1>0 DEF TypeOK, Jobs, Crash
  <2> QED BY <2>1 DEF Crash, OperationOf, Steps, UpdateSteps, RollbackSteps, MigrateSteps, RecoverSteps
<1> QED BY <1>1, <1>2, <1>3

LEMMA DeploymentInitially == Init => DeploymentInv
<1> SUFFICES ASSUME Init PROVE DeploymentInv
  OBVIOUS
<1> USE DeploymentAssumption DEF Init
<1>1. \A w \in Workers : job[w] = Idle /\ job[w].pc = "idle" /\ job[w].then = "idle"
  BY DEF Idle
<1>2. TypeOK
  <2>1. job \in [Workers -> Jobs]
    BY IdleIsJob
  <2>2. NoReceipt \in Receipts /\ NoTree \in Trees /\ Installed \in Trees
    BY DEF NoReceipt, Receipts, Trees
  <2>3. /\ mjournal \in [StateDirs -> Migrations]
        /\ dump \in [taken : BOOLEAN, head : Nat] /\ dbBackup \in Backups
    BY <2>2, NoMigrationIsOne DEF NoBackup, NoDump, Backups
  <2> QED BY <2>1, <2>2, <2>3 DEF TypeOK, Journals
<1>3. Structure
  BY <1>1, WorkerNames DEF Structure, Solo, Recovering, Updating, RollingBack, Migrating, Recoverable,
     UpdateSteps, RollbackSteps, MigrateSteps, RecoverSteps
<1>4. FreshTokens /\ ReceiptsMatch /\ TreesServed /\ JournalIsTrue
  BY DEF FreshTokens, ReceiptsMatch, NoReceipt, TreesServed, Serves, JournalIsTrue, TrueJournal
<1>5. BackupsBound /\ OneTransaction /\ ReceiptIsTrue /\ CommittedIsAudited
  BY DEF BackupsBound, OneTransaction, ReceiptIsTrue, CommittedIsAudited
<1> QED BY <1>2, <1>3, <1>4, <1>5 DEF DeploymentInv

LEMMA DeploymentStep ==
  ASSUME Faults \subseteq {"update", "migrate"}, ToolMayOverlap = FALSE,
         DeploymentInv, [Next]_vars
  PROVE  DeploymentInv'
<1>1. CASE \E w \in Workers : Recover(w)
  BY <1>1, RecoverSafe
<1>2. CASE \E w \in Workers : Crash(w)
  BY <1>2, CrashSafe
<1>3. CASE ToolBegin \/ (\E release \in Releases : UpdateBegin(release))
           \/ (\E t \in Updates : RollbackBegin(t))
  BY <1>3, BeginSafe
<1>4. CASE \E d \in StateDirs :
             \/ MigrateBegin(NoTree, "idle", d)
             \/ \E release \in Releases : MigrateBegin(release, "m_plan", d)
  <2>1. \E release \in Trees, then \in {"idle", "m_plan"}, d \in StateDirs :
          (then = "m_plan" => release # NoTree) /\ MigrateBegin(release, then, d)
    BY <1>4, DeploymentAssumption DEF Trees
  <2> QED BY <2>1, BeginSafe
<1>5. CASE Update \/ Rollback \/ Migrate
  BY <1>5, UpdateSafe, RollbackSafe, MigrateSafe
<1>6. CASE Backup \/ UNCHANGED vars
  BY <1>6, BackupSafe
<1> QED BY <1>1, <1>2, <1>3, <1>4, <1>5, <1>6 DEF Next

LEMMA DeploymentAlways ==
  ASSUME Faults \subseteq {"update", "migrate"}, ToolMayOverlap = FALSE
  PROVE  Spec => []DeploymentInv
<1>1. Init => DeploymentInv
  BY DeploymentInitially
<1>2. DeploymentInv /\ [Next]_vars => DeploymentInv'
  BY DeploymentStep
<1> QED BY <1>1, <1>2, PTL DEF Spec

\* transactional_release_update.py: however often an update or a migration stops half way,
\* the accepted release is active when nothing runs and no journal is left, and the journal
\* that is left leads the next recovery back to it.
THEOREM UpdateIsAtomic ==
  ASSUME Faults \subseteq {"update", "migrate"}, ToolMayOverlap = FALSE
  PROVE  Spec => []ReleaseIsRecoverable
<1>1. DeploymentInv => ReleaseIsRecoverable
  BY DEF DeploymentInv, Structure, Recoverable, ReleaseIsRecoverable, ActiveIsCommitted,
    RecoveryHasTheTree, AtRest, Doing
<1> QED BY <1>1, DeploymentAlways, PTL

\* database_migration_guard.py: the database always serves the code that is active, wherever
\* migrations keep their journals and whatever update is left half way beside one; an update
\* and a migration whose journal is beside the update's are never both open; and the receipts,
\* the backup of each migration under way and the audit chain say what happened.
THEOREM DatabaseServesRelease ==
  ASSUME Faults \subseteq {"update", "migrate"}, ToolMayOverlap = FALSE
  PROVE  Spec => []RecordsMatchDatabase
<1>1. ASSUME DeploymentInv PROVE RecordsMatchDatabase
  <2>1. TypeOK /\ DatabaseServesCode
    BY <1>1 DEF DeploymentInv, TreesServed, Serves, DatabaseServesCode
  <2>2. OneTransaction /\ ReceiptIsTrue /\ MigrationHasBackup
    BY <1>1 DEF DeploymentInv, JournalIsTrue, TrueJournal, MigrationHasBackup
  <2>3. ReceiptNamesBackup
    BY <1>1 DEF DeploymentInv, ReceiptsMatch, Restoring, ReceiptNamesBackup, AtRest, Doing
  <2>4. CommittedIsAudited /\ CommittedIsBound
    BY <1>1 DEF DeploymentInv, BackupsBound, CommittedIsBound
  <2> QED BY <2>1, <2>2, <2>3, <2>4 DEF RecordsMatchDatabase, DatabaseIsInStep, CommittedIsAccepted
<1> QED BY <1>1, DeploymentAlways, PTL

\* transactional_release_update.py and database_migration_guard.py: both at once.
THEOREM DeploymentHolds ==
  ASSUME Faults \subseteq {"update", "migrate"}, ToolMayOverlap = FALSE
  PROVE  Spec => []DeploymentIsSafe
BY UpdateIsAtomic, DatabaseServesRelease, PTL DEF DeploymentIsSafe

-----------------------------------------------------------------------------
(* Whatever fails: any operation may stop at any step, a recovery and a    *)
(* rollback too, and the tool may recover beside an operation. A tree may   *)
(* be lost then, but the database serves every tree that is left.           *)

\* The trees the database serves, wherever they are.
Servable == {r \in Trees : r # NoTree => Serves(r)}

EveryTreeServed ==
  /\ active \in Servable
  /\ backup \in [Updates -> Servable] /\ candidate \in [Updates -> Servable]
  /\ \A w \in Workers : job[w].aside \in Servable

\* As TypeOK; of the release in effect nothing is said, since an update whose tree was taken
\* away by a recovery beside it puts none into effect.
DatabaseTypes ==
  /\ receipt \in [Updates -> Receipts] /\ journal \in Journals /\ used \in 0..MaxUpdates
  /\ db \in Nat /\ dbBackup \in Backups /\ dump \in [taken : BOOLEAN, head : Nat]
  /\ mjournal \in [StateDirs -> Migrations]
  /\ mreceipts \subseteq Releases \X Releases
  /\ job \in [Workers -> Jobs]

\* The job of a worker knows its transaction.
TokenOK(j) ==
  j.pc \in (UpdateSteps \cup RollbackSteps \cup RecoverSteps) \ {"stage", "recover"} =>
    j.token \in Updates

\* What keeps an update and a migration apart once one of them has begun.
OperationOK(j) ==
  /\ TokenOK(j)
  /\ j.pc \in UpdateSteps => j.then = "stage"
  /\ j.then = "stage" => mjournal[ActiveParent] = NoMigration /\ j.target \in Releases
  /\ j.pc \in MigrateSteps \ {"m_recover"} => j.then = "m_plan"
  /\ j.then = "m_plan" => (j.dir = ActiveParent => journal = NoJournal) /\ j.target \in Releases
  /\ j.pc \in MigrateSteps \ {"m_recover", "m_plan"} => mjournal[j.dir] # NoMigration
  /\ j.pc = "m_receipt" => db = mjournal[j.dir].to

ToolOK(j) == TokenOK(j) /\ j.pc \in RecoverSteps \cup {"idle"} /\ j.then = "idle"

WorkerOK(w, j) == IF w = "op" THEN OperationOK(j) ELSE ToolOK(j)

DatabaseInv ==
  /\ DatabaseTypes /\ EveryTreeServed /\ JournalIsTrue /\ OneTransaction /\ ReceiptIsTrue
  /\ \A w \in Workers : WorkerOK(w, job[w])

\* A step of one worker that leaves the database alone.
LEMMA WorkerMoves ==
  ASSUME DatabaseInv, NEW w \in Workers, NEW j \in Jobs,
         job' = [job EXCEPT ![w] = j], WorkerOK(w, j), j.aside \in Servable,
         UNCHANGED <<db, mjournal, mreceipts, dump, dbBackup>>,
         journal' \in Journals,
         journal' \in {journal, NoJournal} \/ (w = "op" /\ j.then = "stage"),
         used' \in 0..MaxUpdates, receipt' \in [Updates -> Receipts],
         active' \in Servable, backup' \in [Updates -> Servable],
         candidate' \in [Updates -> Servable]
  PROVE  DatabaseInv'
  <1>1. Servable' = Servable
    BY SameDatabase DEF Servable
  <1>2. job' \in [Workers -> Jobs] /\ job'[w] = j /\ \A x \in Workers \ {w} : job'[x] = job[x]
    BY NewJob DEF DatabaseInv, DatabaseTypes
  <1>3. DatabaseTypes'
    BY <1>2 DEF DatabaseInv, DatabaseTypes
  <1>4. EveryTreeServed'
    BY <1>1, <1>2 DEF DatabaseInv, EveryTreeServed
  <1>5. JournalIsTrue' /\ ReceiptIsTrue'
    BY DEF DatabaseInv, JournalIsTrue, TrueJournal, ReceiptIsTrue
  <1>6. j.then = "stage" /\ w = "op" => mjournal[ActiveParent] = NoMigration
    BY DEF WorkerOK, OperationOK
  <1>7. OneTransaction'
    BY <1>6 DEF DatabaseInv, OneTransaction
  <1>8. ASSUME NEW x \in Workers PROVE WorkerOK(x, job[x])'
    <2>1. WorkerOK(x, job'[x]) /\ (journal' \in {journal, NoJournal} \/ x # "op" \/ job'[x].then = "stage")
      BY <1>2, WorkerNames DEF DatabaseInv
    <2>2. CASE x = "op"
      BY <2>1, <2>2 DEF WorkerOK, OperationOK, TokenOK
    <2>3. CASE x # "op"
      BY <2>1, <2>3 DEF WorkerOK, ToolOK, TokenOK
    <2> QED BY <2>2, <2>3
  <1> QED BY <1>3, <1>4, <1>5, <1>7, <1>8 DEF DatabaseInv

\* The next step of a job that is not a migration.
LEMMA GoesOn ==
  ASSUME NEW w \in Workers, NEW i \in Jobs, NEW j \in Jobs, WorkerOK(w, i),
         j.then = i.then, j.target = i.target, j.dir = i.dir, TokenOK(j),
         \/ j.pc \in RecoverSteps
         \/ w = "op" /\ j.pc \in UpdateSteps /\ i.then = "stage"
         \/ w = "op" /\ j.pc \in RollbackSteps
  PROVE  WorkerOK(w, j)
  <1>1. CASE w = "op"
    BY <1>1 DEF WorkerOK, OperationOK, UpdateSteps, RollbackSteps, MigrateSteps, RecoverSteps
  <1>2. CASE w # "op"
    BY <1>2 DEF WorkerOK, ToolOK
  <1> QED BY <1>1, <1>2

LEMMA RestsOK ==
  ASSUME NEW w \in Workers
  PROVE  WorkerOK(w, Idle) /\ Idle \in Jobs /\ Idle.aside = NoTree /\ NoTree \in Servable
BY IdleIsJob DEF Idle, WorkerOK, OperationOK, ToolOK, TokenOK, Trees, Servable,
   UpdateSteps, RollbackSteps, MigrateSteps, RecoverSteps

\* Continue.
LEMMA OnlyStep ==
  ASSUME NEW i \in Jobs, NEW pc \in Steps
  PROVE  LET j == [i EXCEPT !.pc = pc]
         IN  /\ j \in Jobs /\ j.pc = pc /\ j.token = i.token /\ j.then = i.then
             /\ j.target = i.target /\ j.aside = i.aside /\ j.dir = i.dir
BY DEF Jobs

\* The job rests: Stop.
LEMMA WorkerStops ==
  ASSUME DatabaseInv, NEW w \in Workers, Stop(w), UNCHANGED <<db, mjournal, mreceipts, dump, dbBackup>>,
         journal' \in {journal, NoJournal}, used' \in 0..MaxUpdates, receipt' \in [Updates -> Receipts],
         active' \in Servable, backup' \in [Updates -> Servable],
         candidate' \in [Updates -> Servable]
  PROVE  DatabaseInv'
  <1>1. journal' \in Journals
    BY DEF DatabaseInv, DatabaseTypes, Journals
  <1>2. WorkerOK(w, Idle) /\ Idle \in Jobs /\ Idle.aside \in Servable
    BY RestsOK
  <1>3. job' = [job EXCEPT ![w] = Idle]
    BY DEF Stop
  <1> QED BY <1>1, <1>2, <1>3, WorkerMoves

\* Another release in a place of its own: the database serves it there too.
LEMMA PutServed ==
  ASSUME NEW f \in [Updates -> Servable], NEW t \in Updates, NEW r \in Servable
  PROVE  [f EXCEPT ![t] = r] \in [Updates -> Servable]
OBVIOUS

LEMMA RecoverKeeps ==
  ASSUME DatabaseInv, NEW w \in Workers, Recover(w)
  PROVE  DatabaseInv'
  <1> USE DEF Doing, migration, trees, backups
  <1> DEFINE i == job[w]
             t == job[w].token
  <1>0. /\ i \in Jobs /\ WorkerOK(w, i) /\ i.aside \in Servable /\ NoTree \in Servable
        /\ active \in Servable /\ backup \in [Updates -> Servable]
        /\ candidate \in [Updates -> Servable] /\ journal \in Journals /\ used \in 0..MaxUpdates
        /\ receipt \in [Updates -> Receipts] /\ NoJournal \in Journals /\ NoReceipt \in Receipts
    BY DEF DatabaseInv, DatabaseTypes, EveryTreeServed, Servable, Trees, Journals, NoReceipt, Receipts
  <1>1. TokenOK(i) /\ job \in [Workers -> Jobs]
    BY <1>0 DEF WorkerOK, OperationOK, ToolOK, DatabaseInv, DatabaseTypes
  \* A step to another one of the recovery, or back to the update that waits for it.
  <1>2. ASSUME NEW pc \in RecoverSteps \cup {"stage"}, Continue(w, pc),
               pc = "stage" => i.then = "stage", pc \notin {"stage", "recover"} => t \in Updates,
               UNCHANGED <<db, mjournal, mreceipts, dump, dbBackup, used>>,
               journal' \in {journal, NoJournal}, receipt' \in [Updates -> Receipts],
               active' \in Servable, backup' \in [Updates -> Servable],
               candidate' \in [Updates -> Servable]
        PROVE  DatabaseInv'
    <2> DEFINE j == [i EXCEPT !.pc = pc]
    <2>1. pc \in Steps /\ job' = [job EXCEPT ![w] = j]
      BY <1>1, <1>2 DEF Continue, Steps, UpdateSteps
    <2>2. /\ j \in Jobs /\ j.pc = pc /\ j.token = t /\ j.then = i.then
          /\ j.target = i.target /\ j.aside = i.aside /\ j.dir = i.dir
      BY <1>0, <2>1, OnlyStep
    <2> HIDE DEF j, i, t
    <2>3. WorkerOK(w, j)
      <3>1. TokenOK(j)
        BY <1>2, <2>2 DEF TokenOK
      <3>2. pc = "stage" => w = "op"
        BY <1>0, <1>2 DEF WorkerOK, ToolOK
      <3> QED BY <1>0, <1>2, <2>2, <3>1, <3>2, GoesOn DEF UpdateSteps
    <2> QED BY <1>0, <1>2, <2>1, <2>2, <2>3, WorkerMoves
  <1>3. ASSUME Resume(w), UNCHANGED <<db, mjournal, mreceipts, dump, dbBackup, used, active, backup, candidate, receipt>>,
               journal' \in {journal, NoJournal}
        PROVE  DatabaseInv'
    BY <1>0, <1>2, <1>3, WorkerStops DEF Resume
  <1>4. CASE RecoverRead(w)
    <2>1. CASE journal = NoJournal
      BY <1>3, <1>4, <2>1 DEF RecoverRead
    <2>2. CASE journal # NoJournal
      <3> DEFINE j == [i EXCEPT !.pc = "r_look", !.token = journal.token, !.status = journal.status]
      <3>1. journal.token \in Updates /\ journal.status \in Statuses
        BY <1>0, <2>2 DEF Journals
      <3>2. /\ j \in Jobs /\ j.pc = "r_look" /\ j.token = journal.token /\ j.then = i.then
            /\ j.target = i.target /\ j.aside = i.aside /\ j.dir = i.dir
        BY <1>0, <3>1 DEF Jobs, Steps, RecoverSteps
      <3>3. job' = [job EXCEPT ![w] = j]
        BY <1>1, <1>4, <2>2 DEF RecoverRead
      <3> HIDE DEF j, i, t
      <3>4. WorkerOK(w, j)
        BY <1>0, <3>1, <3>2, GoesOn DEF TokenOK, RecoverSteps
      <3> QED BY <1>0, <1>4, <3>2, <3>3, <3>4, WorkerMoves DEF RecoverRead
    <2> QED BY <2>1, <2>2
  <1>5. i.pc \in RecoverSteps \ {"recover"} => t \in Updates
    BY <1>1 DEF TokenOK, RecoverSteps
  <1>6. CASE RecoverLook(w)
    <2>1. t \in Updates /\ UNCHANGED <<db, mjournal, mreceipts, dump, dbBackup, used, active, backup, candidate, receipt, journal>>
      BY <1>5, <1>6 DEF RecoverLook, RecoverSteps
    <2>2. Stop(w) \/ \E pc \in {"r_aside", "r_restore", "r_discard"} : Continue(w, pc)
      BY <1>6 DEF RecoverLook
    <2> QED BY <1>0, <1>2, <2>1, <2>2, WorkerStops DEF RecoverSteps
  <1>7. CASE RecoverAside(w)
    <2>1. /\ t \in Updates /\ active' = NoTree
          /\ UNCHANGED <<db, mjournal, mreceipts, dump, dbBackup, used, backup, candidate, receipt, journal>>
      BY <1>5, <1>7 DEF RecoverAside, RecoverSteps
    <2>2. CASE Stop(w)
      BY <1>0, <2>1, <2>2, WorkerStops
    <2>3. CASE job' = [job EXCEPT ![w].pc = "r_restore", ![w].aside = active]
      <3> DEFINE j == [i EXCEPT !.pc = "r_restore", !.aside = active]
      <3>1. /\ j \in Jobs /\ j.pc = "r_restore" /\ j.token = t /\ j.then = i.then
            /\ j.target = i.target /\ j.aside = active /\ j.dir = i.dir
        BY <1>0 DEF Jobs, Steps, RecoverSteps, Servable
      <3>2. job' = [job EXCEPT ![w] = j]
        BY <1>1, <2>3
      <3> HIDE DEF j, i, t
      <3>3. WorkerOK(w, j)
        BY <1>0, <2>1, <3>1, GoesOn DEF TokenOK, RecoverSteps
      <3> QED BY <1>0, <2>1, <3>1, <3>2, <3>3, WorkerMoves
    <2> QED BY <1>7, <2>2, <2>3 DEF RecoverAside
  <1>8. CASE RecoverRestore(w)
    <2>1. t \in Updates /\ UNCHANGED <<db, mjournal, mreceipts, dump, dbBackup, used, candidate, receipt, journal>>
      BY <1>5, <1>8 DEF RecoverRestore, RecoverSteps
    <2>2. CASE backup[t] # NoTree /\ active = NoTree
      <3>1. active' = backup[t] /\ backup' = [backup EXCEPT ![t] = NoTree] /\ Continue(w, "r_discard")
        BY <1>8, <2>2 DEF RecoverRestore
      <3>2. active' \in Servable /\ backup' \in [Updates -> Servable]
        BY <1>0, <2>1, <3>1, PutServed
      <3> QED BY <1>0, <1>2, <2>1, <3>1, <3>2 DEF RecoverSteps
    <2>3. CASE ~(backup[t] # NoTree /\ active = NoTree)
      <3>1. active' \in {active, i.aside} /\ backup' = backup /\ Stop(w)
        BY <1>8, <2>3 DEF RecoverRestore
      <3> QED BY <1>0, <2>1, <3>1, WorkerStops
    <2> QED BY <2>2, <2>3
  <1>9. CASE RecoverDiscard(w)
    <2>1. t \in Updates /\ UNCHANGED <<db, mjournal, mreceipts, dump, dbBackup, used, active, backup, journal>>
      BY <1>5, <1>9 DEF RecoverDiscard, RecoverSteps
    <2>2. candidate' \in [Updates -> Servable] /\ receipt' \in [Updates -> Receipts]
      BY <1>0, <1>9, <2>1, PutServed DEF RecoverDiscard
    <2> QED BY <1>0, <1>2, <1>9, <2>1, <2>2 DEF RecoverDiscard, RecoverSteps
  <1>10. CASE RecoverForget(w)
    <2>1. journal' = NoJournal /\ UNCHANGED <<db, mjournal, mreceipts, dump, dbBackup, used, active, backup, candidate, receipt>>
      BY <1>10 DEF RecoverForget
    <2>2. Stop(w) \/ Resume(w)
      BY <1>10 DEF RecoverForget
    <2> QED BY <1>0, <1>3, <2>1, <2>2, WorkerStops
  <1> QED BY <1>4, <1>6, <1>7, <1>8, <1>9, <1>10 DEF Recover

\* What DatabaseInv says of the operation that is under way.
LEMMA OperationFacts ==
  ASSUME DatabaseInv
  PROVE  /\ job \in [Workers -> Jobs] /\ job["op"] \in Jobs /\ OperationOK(job["op"])
         /\ TokenOK(job["op"]) /\ job["op"].aside \in Servable /\ NoTree \in Servable
         /\ active \in Servable /\ backup \in [Updates -> Servable]
         /\ candidate \in [Updates -> Servable] /\ journal \in Journals /\ used \in 0..MaxUpdates
         /\ receipt \in [Updates -> Receipts] /\ NoReceipt \in Receipts /\ MaxUpdates \in Nat
         /\ "op" \in Workers
BY WorkerNames, DeploymentAssumption DEF DatabaseInv, DatabaseTypes, EveryTreeServed, Servable,
   Trees, NoReceipt, Receipts, WorkerOK, OperationOK

\* An operation begins, and nothing else happens.
LEMMA NewOperation ==
  ASSUME DatabaseInv, NEW j \in Jobs, job' = [job EXCEPT !["op"] = j], OperationOK(j),
         j.aside = NoTree,
         UNCHANGED <<trees, receipt, journal, migration, used>>
  PROVE  DatabaseInv'
  <1>1. WorkerOK("op", j)
    BY DEF WorkerOK
  <1> QED BY <1>1, OperationFacts, WorkerMoves DEF trees, migration, backups

LEMMA BeginKeeps ==
  ASSUME DatabaseInv,
         \/ ToolBegin
         \/ \E release \in Releases : UpdateBegin(release)
         \/ \E d \in StateDirs :
              \/ MigrateBegin(NoTree, "idle", d)
              \/ \E release \in Releases : MigrateBegin(release, "m_plan", d)
         \/ \E t \in Updates : RollbackBegin(t)
  PROVE  DatabaseInv'
  <1> USE DEF Doing
  <1>0. /\ \A pc \in Steps : [Idle EXCEPT !.pc = pc] \in Jobs
        /\ Idle.token = 0 /\ Idle.target = NoTree /\ Idle.aside = NoTree /\ Idle.then = "idle"
        /\ \A release \in Releases : release \in Trees
        /\ Idle \in Jobs
    BY IdleIsJob DEF Jobs, Idle, Trees
  <1>1. CASE ToolBegin
    <2> DEFINE i == job["tool"]
               j == [i EXCEPT !.pc = "recover"]
    <2>1. i \in Jobs /\ ToolOK(i) /\ "tool" \in Workers /\ i.aside \in Servable
      BY WorkerNames DEF DatabaseInv, DatabaseTypes, WorkerOK, EveryTreeServed
    <2>2. j \in Jobs /\ j.pc = "recover" /\ j.then = i.then /\ j.aside = i.aside
      BY <2>1, OnlyStep DEF Steps, RecoverSteps
    <2>3. job' = [job EXCEPT !["tool"] = j]
      BY <1>1, OperationFacts DEF ToolBegin, Continue
    <2> HIDE DEF j, i
    <2>4. WorkerOK("tool", j)
      BY <2>1, <2>2 DEF WorkerOK, ToolOK, TokenOK, RecoverSteps
    <2> QED BY <1>1, <2>1, <2>2, <2>3, <2>4, OperationFacts, WorkerMoves
         DEF ToolBegin, trees, migration, backups
  <1>2. ASSUME NEW release \in Releases, UpdateBegin(release) PROVE DatabaseInv'
    <2> DEFINE j == [Idle EXCEPT !.pc = "recover", !.target = release, !.then = "stage"]
    <2>1. /\ j \in Jobs /\ j.pc = "recover" /\ j.target = release /\ j.then = "stage" /\ j.aside = NoTree
          /\ mjournal[ActiveParent] = NoMigration /\ job' = [job EXCEPT !["op"] = j]
      BY <1>0, <1>2 DEF UpdateBegin, MayBegin, Jobs, Steps, RecoverSteps
    <2> HIDE DEF j
    <2>2. OperationOK(j)
      BY <2>1 DEF OperationOK, TokenOK, UpdateSteps, MigrateSteps
    <2> QED BY <1>2, <2>1, <2>2, NewOperation DEF UpdateBegin
  <1>3. ASSUME NEW release \in Trees, NEW then \in {"idle", "m_plan"}, NEW d \in StateDirs,
               MigrateBegin(release, then, d), then = "m_plan" => release \in Releases
        PROVE  DatabaseInv'
    <2> DEFINE j == [Idle EXCEPT !.pc = "m_recover", !.target = release, !.then = then, !.dir = d]
    <2>1. /\ j \in Jobs /\ j.pc = "m_recover" /\ j.target = release /\ j.then = then /\ j.aside = NoTree
          /\ j.dir = d /\ (then = "m_plan" /\ d = ActiveParent => journal = NoJournal) /\ job' = [job EXCEPT !["op"] = j]
      BY <1>0, <1>3 DEF MigrateBegin, Jobs, Steps, MigrateSteps
    <2> HIDE DEF j
    <2>2. OperationOK(j)
      BY <1>3, <2>1 DEF OperationOK, TokenOK, UpdateSteps, MigrateSteps, RollbackSteps, RecoverSteps
    <2> QED BY <1>3, <2>1, <2>2, NewOperation DEF MigrateBegin
  <1>4. ASSUME NEW t \in Updates, RollbackBegin(t) PROVE DatabaseInv'
    <2> DEFINE pc == IF journal # NoJournal THEN "recover" ELSE "b_aside"
               j == [Idle EXCEPT !.pc = pc, !.token = t]
    <2>1. pc \in {"recover", "b_aside"} /\ pc \in Steps
      BY DEF Steps, RecoverSteps, RollbackSteps
    <2>2. job' = [job EXCEPT !["op"] = j]
      BY <1>4 DEF RollbackBegin
    <2> HIDE DEF pc
    <2>3. /\ j \in Jobs /\ j.pc = pc /\ j.token = t /\ j.then = "idle" /\ j.aside = NoTree
      BY <1>0, <2>1 DEF Jobs
    <2> HIDE DEF j
    <2>4. OperationOK(j)
      BY <2>1, <2>3 DEF OperationOK, TokenOK, UpdateSteps, MigrateSteps
    <2> QED BY <1>4, <2>2, <2>3, <2>4, NewOperation DEF RollbackBegin
  <1> QED BY <1>0, <1>1, <1>2, <1>3, <1>4 DEF Trees

\* A step of the operation to another one of the same update or rollback.
LEMMA OperationGoesOn ==
  ASSUME DatabaseInv, NEW pc \in UpdateSteps \cup RollbackSteps, Continue("op", pc),
         pc \in UpdateSteps => job["op"].pc \in UpdateSteps,
         pc # "stage", job["op"].token \in Updates,
         UNCHANGED <<db, mjournal, mreceipts, dump, dbBackup, used>>,
         journal' \in Journals, journal' = journal \/ pc \in UpdateSteps,
         receipt' \in [Updates -> Receipts],
         active' \in Servable, backup' \in [Updates -> Servable],
         candidate' \in [Updates -> Servable]
  PROVE  DatabaseInv'
  <1> DEFINE i == job["op"]
             j == [i EXCEPT !.pc = pc]
  <1>1. job' = [job EXCEPT !["op"] = j] /\ pc \in Steps
    BY OperationFacts DEF Continue, Steps
  <1>2. /\ j \in Jobs /\ j.pc = pc /\ j.token = i.token /\ j.then = i.then
        /\ j.target = i.target /\ j.aside = i.aside /\ j.dir = i.dir
    BY <1>1, OperationFacts, OnlyStep
  <1>3. OperationOK(i) /\ i \in Jobs /\ WorkerOK("op", i)
    BY OperationFacts DEF WorkerOK
  <1>4. i.pc \in UpdateSteps => i.then = "stage"
    BY <1>3 DEF OperationOK
  <1>5. TokenOK(j)
    BY <1>2 DEF TokenOK
  <1> HIDE DEF i, j
  <1>6. WorkerOK("op", j)
    BY <1>2, <1>3, <1>4, <1>5, OperationFacts, GoesOn DEF i
  <1>7. j.aside \in Servable /\ (journal' = journal \/ j.then = "stage")
    BY <1>2, <1>4, OperationFacts DEF i
  <1> QED BY <1>1, <1>2, <1>6, <1>7, OperationFacts, WorkerMoves

\* With a tree set aside.
LEMMA OperationSetsAside ==
  ASSUME DatabaseInv, RollbackAside
  PROVE  DatabaseInv'
  <1> USE DEF Doing, RollbackAside, migration, backups
  <1> DEFINE i == job["op"]
             j == [i EXCEPT !.pc = "b_restore", !.aside = active]
  <1>1. i.token \in Updates /\ active \in Trees
    BY OperationFacts DEF TokenOK, RollbackSteps, Servable
  <1>2. /\ j \in Jobs /\ j.pc = "b_restore" /\ j.token = i.token /\ j.then = i.then
        /\ j.target = i.target /\ j.aside = active /\ j.dir = i.dir /\ job' = [job EXCEPT !["op"] = j]
    BY <1>1, OperationFacts DEF Jobs, Steps, RollbackSteps
  <1>3. OperationOK(i) /\ i \in Jobs /\ WorkerOK("op", i)
    BY OperationFacts DEF WorkerOK
  <1>4. TokenOK(j)
    BY <1>1, <1>2 DEF TokenOK
  <1> HIDE DEF i, j
  <1>5. WorkerOK("op", j)
    BY <1>2, <1>3, <1>4, OperationFacts, GoesOn DEF RollbackSteps
  <1> QED BY <1>2, <1>5, OperationFacts, WorkerMoves

LEMMA RollbackKeeps ==
  ASSUME DatabaseInv, Rollback
  PROVE  DatabaseInv'
  <1> USE DEF Doing, migration, trees, backups
  <1> DEFINE t == job["op"].token
  <1>1. job["op"].pc \in RollbackSteps => t \in Updates
    BY OperationFacts DEF TokenOK, RollbackSteps, UpdateSteps, RecoverSteps
  <1>2. CASE RollbackAside
    BY <1>2, OperationSetsAside
  <1>3. CASE RollbackRestore
    <2>1. t \in Updates /\ active' = backup[t] /\ backup' = [backup EXCEPT ![t] = NoTree]
          /\ Continue("op", "b_accept")
      BY <1>1, <1>3 DEF RollbackRestore, RollbackSteps
    <2>2. active' \in Servable /\ backup' \in [Updates -> Servable]
      BY <2>1, OperationFacts, PutServed
    <2> QED BY <1>3, <2>1, <2>2, OperationFacts, OperationGoesOn DEF RollbackRestore, RollbackSteps, UpdateSteps
  <1>4. CASE RollbackRestoreFails
    BY <1>4, OperationFacts, WorkerStops DEF RollbackRestoreFails
  <1>5. ASSUME NEW command \in BOOLEAN, NEW passed \in BOOLEAN, RollbackAccept(command, passed)
        PROVE  DatabaseInv'
    <2>1. \E pc \in {"b_audit", "b_undo"} : Continue("op", pc)
      BY <1>5 DEF RollbackAccept
    <2>2. t \in Updates
      BY <1>1, <1>5 DEF RollbackAccept, RollbackSteps
    <2> QED BY <1>5, <2>1, <2>2, OperationFacts, OperationGoesOn DEF RollbackAccept, RollbackSteps, UpdateSteps
  <1>6. CASE RollbackUndo
    <2>1. t \in Updates /\ active' = NoTree /\ backup' = [backup EXCEPT ![t] = active]
          /\ Continue("op", "b_undo_aside")
      BY <1>1, <1>6 DEF RollbackUndo, RollbackSteps
    <2>2. active' \in Servable /\ backup' \in [Updates -> Servable]
      BY <2>1, OperationFacts, PutServed
    <2> QED BY <1>6, <2>1, <2>2, OperationFacts, OperationGoesOn DEF RollbackUndo, RollbackSteps, UpdateSteps
  <1>7. CASE RollbackUndoAside
    BY <1>7, OperationFacts, WorkerStops DEF RollbackUndoAside
  <1>8. CASE AuditRollback
    <2>1. t \in Updates
      BY <1>1, <1>8 DEF AuditRollback, RollbackSteps
    <2> QED BY <1>8, <2>1, OperationFacts, OperationGoesOn DEF AuditRollback, RollbackSteps, UpdateSteps
  <1>9. CASE RollbackClean
    <2>1. receipt' \in [Updates -> Receipts]
      BY <1>9, OperationFacts DEF RollbackClean
    <2> QED BY <1>9, <2>1, OperationFacts, WorkerStops DEF RollbackClean
  <1> QED BY <1>2, <1>3, <1>4, <1>5, <1>6, <1>7, <1>8, <1>9 DEF Rollback

\* What an update puts into a candidate directory has its migrations in the database.
LEMMA StageKeeps ==
  ASSUME DatabaseInv, Stage
  PROVE  DatabaseInv'
  <1> USE DEF Doing, Stage, migration, trees, backups, Updates
  <1> DEFINE i == job["op"]
             b == [kind |-> IF Required(active, i.target) THEN "migrated" ELSE "plain",
                   tree |-> active]
             j == [i EXCEPT !.pc = "u_journal", !.token = used + 1, !.bound = b]
  <1>1. i \in Jobs /\ OperationOK(i) /\ i.then = "stage" /\ i.target \in Releases /\ active \in Trees
    BY OperationFacts DEF OperationOK, UpdateSteps, Servable
  <1>2. b \in Receipts /\ used + 1 \in Updates /\ used' \in 0..MaxUpdates
    BY <1>1, OperationFacts DEF Receipts
  <1>3. job' = [job EXCEPT !["op"] = j]
    BY OperationFacts
  <1> HIDE DEF b
  <1>4. /\ j \in Jobs /\ j.pc = "u_journal" /\ j.token = used + 1 /\ j.then = i.then
        /\ j.target = i.target /\ j.aside = i.aside /\ j.dir = i.dir
    BY <1>1, <1>2 DEF Jobs, Steps, UpdateSteps
  <1>5. i.target \in Servable
    <2>1. active \in Releases /\ Serves(active) /\ db \in Nat
      BY <1>1, OperationFacts DEF Servable, Trees, DatabaseInv, DatabaseTypes
    <2>2. /\ SchemaHead[i.target] >= SchemaHead[active] /\ SchemaHead[i.target] \in Nat
          /\ SchemaHead[active] \in Nat
      BY <1>1, <2>1, DeploymentAssumption DEF Planned
    <2>3. SchemaHead[i.target] <= db
      <3>1. CASE Required(active, i.target)
        BY <3>1 DEF DatabaseInv, ReceiptIsTrue, VerifyMigrationReceipt
      <3>2. CASE ~Required(active, i.target)
        BY <2>1, <3>2 DEF Required, Serves
      <3> QED BY <3>1, <3>2
    <2>4. Serves(i.target)
      BY <2>1, <2>2, <2>3 DEF Serves
    <2> QED BY <1>1, <2>4 DEF Servable, Trees
  <1>6. candidate' \in [Updates -> Servable]
    BY <1>2, <1>5, OperationFacts, PutServed
  <1> HIDE DEF i, j
  <1>7. WorkerOK("op", j)
    BY <1>1, <1>2, <1>4, OperationFacts, GoesOn DEF WorkerOK, TokenOK, UpdateSteps
  <1>8. j.aside \in Servable
    BY <1>4, OperationFacts DEF i
  <1> QED BY <1>2, <1>3, <1>4, <1>6, <1>7, <1>8, OperationFacts, WorkerMoves

LEMMA UpdateKeeps ==
  ASSUME DatabaseInv, Update
  PROVE  DatabaseInv'
  <1> USE DEF Doing, migration, trees, backups
  <1> DEFINE t == job["op"].token
  <1>1. job["op"].pc \in UpdateSteps \ {"stage"} => t \in Updates
    BY OperationFacts DEF TokenOK, RollbackSteps, UpdateSteps, RecoverSteps
  <1>2. CASE Stage
    BY <1>2, StageKeeps
  <1>3. CASE Prepare \/ MarkMoved \/ MarkPromoted
    <2>1. PICK status \in Statuses, pc \in {"u_move", "u_promote", "u_accept"} :
            /\ job["op"].pc \in UpdateSteps \ {"stage"}
            /\ journal' = [status |-> status, token |-> t] /\ Continue("op", pc)
            /\ UNCHANGED <<trees, receipt, migration, audit, used, committed>>
      BY <1>3 DEF Prepare, MarkMoved, MarkPromoted, Record, Statuses, UpdateSteps
    <2>2. journal' \in Journals /\ t \in Updates
      BY <1>1, <2>1 DEF Journals
    <2> QED BY <2>1, <2>2, OperationFacts, OperationGoesOn DEF UpdateSteps
  <1>4. CASE MoveActive
    <2>1. t \in Updates /\ active' = NoTree /\ backup' = [backup EXCEPT ![t] = active]
          /\ Continue("op", "u_mark")
      BY <1>1, <1>4 DEF MoveActive, UpdateSteps
    <2>2. active' \in Servable /\ backup' \in [Updates -> Servable]
      BY <2>1, OperationFacts, PutServed
    <2> QED BY <1>4, <2>1, <2>2, OperationFacts, OperationGoesOn DEF MoveActive, UpdateSteps
  <1>5. CASE Promote
    <2>1. t \in Updates /\ active' = candidate[t] /\ candidate' = [candidate EXCEPT ![t] = NoTree]
          /\ Continue("op", "u_mark_promoted")
      BY <1>1, <1>5 DEF Promote, UpdateSteps
    <2>2. active' \in Servable /\ candidate' \in [Updates -> Servable]
      BY <2>1, OperationFacts, PutServed
    <2> QED BY <1>5, <2>1, <2>2, OperationFacts, OperationGoesOn DEF Promote, UpdateSteps
  <1>6. CASE Accept
    <2>1. t \in Updates /\ receipt' \in [Updates -> Receipts]
      BY <1>1, <1>6, OperationFacts DEF Accept, UpdateSteps, Jobs
    <2> QED BY <1>6, <2>1, OperationFacts, OperationGoesOn DEF Accept, UpdateSteps
  <1>7. CASE AuditUpdate
    <2>1. t \in Updates
      BY <1>1, <1>7 DEF AuditUpdate, UpdateSteps
    <2> QED BY <1>7, <2>1, OperationFacts, OperationGoesOn DEF AuditUpdate, UpdateSteps
  <1>8. CASE Commit
    BY <1>8, OperationFacts, WorkerStops DEF Commit
  <1>9. CASE UpdateRaises
    <2>1. CASE journal # NoJournal
      <3> DEFINE j == [Idle EXCEPT !.pc = "recover"]
      <3>1. job' = [job EXCEPT !["op"] = j]
        BY <1>9, <2>1 DEF UpdateRaises
      <3>2. /\ j \in Jobs /\ j.pc = "recover" /\ j.then = "idle" /\ j.aside = NoTree
        BY IdleIsJob, OnlyStep DEF Idle, Steps, RecoverSteps
      <3> HIDE DEF j
      <3>3. OperationOK(j)
        BY <3>2 DEF OperationOK, TokenOK, UpdateSteps, MigrateSteps
      <3> QED BY <1>9, <2>1, <3>1, <3>2, <3>3, NewOperation DEF UpdateRaises
    <2>2. CASE journal = NoJournal
      <3>1. candidate' \in [Updates -> Servable]
        BY <1>9, <2>2, OperationFacts, PutServed DEF UpdateRaises
      <3> QED BY <1>9, <2>2, <3>1, OperationFacts, WorkerStops DEF UpdateRaises
    <2> QED BY <2>1, <2>2
  <1> QED BY <1>2, <1>3, <1>4, <1>5, <1>6, <1>7, <1>8, <1>9 DEF Update

\* A step of a migration: the trees stay where they are.
LEMMA MigrationMoves ==
  ASSUME DatabaseInv, job' \in [Workers -> Jobs], job'["tool"] = job["tool"],
         job'["op"].aside \in Servable, OperationOK(job["op"])',
         UNCHANGED <<trees, receipt, journal, used, dump, dbBackup>>,
         db' \in Nat, \A r \in Releases : Serves(r) => Serves(r)',
         mjournal' \in [StateDirs -> Migrations],
         mreceipts' \subseteq Releases \X Releases,
         JournalIsTrue', OneTransaction', ReceiptIsTrue'
  PROVE  DatabaseInv'
  <1> USE DEF trees
  <1>1. Servable \subseteq Servable'
    BY DEF Servable, Trees
  <1>2. DatabaseTypes'
    BY DEF DatabaseInv, DatabaseTypes
  <1>3. EveryTreeServed'
    <2>1. active' \in Servable' /\ backup' \in [Updates -> Servable'] /\ candidate' \in [Updates -> Servable']
      BY <1>1, OperationFacts
    <2>2. \A w \in Workers : job'[w].aside \in Servable'
      BY <1>1, WorkerNames DEF DatabaseInv, EveryTreeServed
    <2> QED BY <2>1, <2>2 DEF EveryTreeServed
  <1>4. \A w \in Workers : WorkerOK(w, job[w])'
    <2>1. ToolOK(job["tool"])'
      BY WorkerNames DEF DatabaseInv, WorkerOK, ToolOK, TokenOK
    <2> QED BY <2>1, WorkerNames DEF WorkerOK
  <1> QED BY <1>2, <1>3, <1>4 DEF DatabaseInv

\* What the operation is told to do next, or that it stops.
LEMMA MigrationJob ==
  ASSUME DatabaseInv,
         Stop("op") \/ \E pc \in Steps : Continue("op", pc)
  PROVE  /\ job' \in [Workers -> Jobs] /\ job'["tool"] = job["tool"] /\ job'["op"].aside \in Servable
         /\ Stop("op") => OperationOK(job["op"])'
         /\ \A pc \in Steps : Continue("op", pc) =>
              job'["op"].pc = pc /\ job'["op"].then = job["op"].then
              /\ job'["op"].target = job["op"].target /\ job'["op"].dir = job["op"].dir
  <1>0. "tool" # "op" /\ "tool" \in Workers
    BY WorkerNames
  <1>1. CASE Stop("op")
    <2>1. job' \in [Workers -> Jobs] /\ job'["op"] = Idle /\ job'["tool"] = job["tool"]
      BY <1>0, <1>1, OperationFacts, IdleIsJob DEF Stop
    <2>2. OperationOK(job["op"])'
      BY <2>1 DEF OperationOK, TokenOK, Idle, UpdateSteps, RollbackSteps, MigrateSteps, RecoverSteps
    <2>3. \A pc \in Steps : Continue("op", pc) =>
            job'["op"].pc = pc /\ job'["op"].then = job["op"].then /\ job'["op"].target = job["op"].target /\ job'["op"].dir = job["op"].dir
      BY OperationFacts, ContinueJob
    <2> QED BY <2>1, <2>2, <2>3, RestsOK, OperationFacts
  <1>2. CASE \E pc \in Steps : Continue("op", pc)
    <2>1. PICK pc \in Steps : Continue("op", pc)
      BY <1>2
    <2>2. /\ job' \in [Workers -> Jobs] /\ job'["tool"] = job["tool"]
          /\ job'["op"].aside = job["op"].aside
      BY <1>0, <2>1, OperationFacts, ContinueJob
    <2>3. \A c \in Steps : Continue("op", c) =>
            job'["op"].pc = c /\ job'["op"].then = job["op"].then /\ job'["op"].target = job["op"].target /\ job'["op"].dir = job["op"].dir
      BY OperationFacts, ContinueJob
    <2>4. Stop("op") => OperationOK(job["op"])'
      <3> SUFFICES ASSUME Stop("op") PROVE OperationOK(job["op"])'
        OBVIOUS
      <3>1. job'["op"] = Idle
        BY OperationFacts DEF Stop
      <3> QED BY <3>1 DEF OperationOK, TokenOK, Idle, UpdateSteps, RollbackSteps, MigrateSteps, RecoverSteps
    <2> QED BY <2>2, <2>3, <2>4, OperationFacts
  <1> QED BY <1>1, <1>2

LEMMA MigrateKeeps ==
  ASSUME DatabaseInv, Migrate
  PROVE  DatabaseInv'
  <1> USE DEF Doing, migration, backups
  <1> DEFINE i == job["op"]
  <1>0. /\ i \in Jobs /\ OperationOK(i) /\ db \in Nat /\ mjournal \in [StateDirs -> Migrations]
        /\ mreceipts \subseteq Releases \X Releases /\ dbBackup \in Backups
        /\ JournalIsTrue /\ OneTransaction /\ ReceiptIsTrue /\ active \in Trees
    BY OperationFacts DEF DatabaseInv, DatabaseTypes, Servable
  <1>1. \A pc \in MigrateSteps \cup {"idle", "stage", "m_plan"} : pc \in Steps
    BY DEF Steps, MigrateSteps, UpdateSteps
  <1>2. /\ i.dir \in StateDirs /\ Open = mjournal[i.dir] /\ Open \in Migrations /\ TrueJournal(Open)
    BY <1>0 DEF Jobs, Open, JournalIsTrue
  <1>3. i.pc \in MigrateSteps \ {"m_recover", "m_plan"} => Open # NoMigration /\ i.then = "m_plan"
    BY <1>0, <1>2 DEF OperationOK
  <1>4. CASE MigrateRecover
    <2>1. /\ i.then \in Steps /\ i.then \in {"idle", "stage", "m_plan"}
          /\ Stop("op") \/ Continue("op", i.then)
      BY <1>0, <1>1, <1>4 DEF MigrateRecover, Jobs
    <2>2. /\ job' \in [Workers -> Jobs] /\ job'["tool"] = job["tool"] /\ job'["op"].aside \in Servable
          /\ Stop("op") => OperationOK(job["op"])'
          /\ Continue("op", i.then) =>
               /\ job'["op"].pc = i.then /\ job'["op"].then = i.then /\ job'["op"].target = i.target
               /\ job'["op"].dir = i.dir
      BY <2>1, MigrationJob
    <2>3. UNCHANGED <<db, trees, receipt, journal, used, dump, dbBackup>>
      BY <1>4 DEF MigrateRecover
    <2>4. /\ mjournal' \in [StateDirs -> Migrations] /\ JournalIsTrue' /\ OneTransaction'
          /\ mjournal'[ActiveParent] \in {mjournal[ActiveParent], NoMigration}
      <3>1. CASE SetOpen(NoMigration)
        <4>1. /\ mjournal'[i.dir] = NoMigration
              /\ \A d \in StateDirs \ {i.dir} : mjournal'[d] = mjournal[d]
          BY <1>0, <1>2, <3>1, WriteOpen, NoMigrationIsOne
        <4> QED BY <1>0, <1>2, <2>3, <3>1, <4>1, ClearOpen, DeploymentAssumption
      <3>2. CASE UNCHANGED mjournal
        BY <1>0, <2>3, <3>2, SameDatabase DEF OneTransaction
      <3> QED BY <1>4, <3>1, <3>2 DEF MigrateRecover
    <2>5. /\ mreceipts' \subseteq Releases \X Releases
          /\ \A pair \in mreceipts' : SchemaHead[pair[2]] <= db
      BY <1>0, <1>2, <1>4 DEF MigrateRecover, TrueJournal, ReceiptIsTrue
    <2>6. OperationOK(job["op"])'
      <3>1. CASE Continue("op", i.then) /\ ~Stop("op")
        BY <1>0, <1>4, <2>1, <2>2, <2>3, <2>4, <3>1 DEF MigrateRecover, OperationOK, TokenOK,
           UpdateSteps, RollbackSteps, MigrateSteps, RecoverSteps
      <3> QED BY <2>1, <2>2, <3>1
    <2>7. ReceiptIsTrue'
      BY <2>3, <2>5 DEF ReceiptIsTrue
    <2> QED BY <1>0, <2>2, <2>3, <2>4, <2>5, <2>6, <2>7, SameDatabase, MigrationMoves
  <1>5. CASE MigratePlan
    <2> DEFINE release == i.target
               plan == [pair |-> <<active, release>>, from |-> SchemaHead[active],
                        to |-> SchemaHead[release], backup |-> dbBackup]
    <2>1. /\ i.then = "m_plan" /\ (i.dir = ActiveParent => journal = NoJournal)
          /\ release \in Releases
      BY <1>0, <1>5 DEF MigratePlan, OperationOK, MigrateSteps
    <2>2. CASE /\ active # NoTree /\ Required(active, release) /\ Planned(active, release)
               /\ db = SchemaHead[active] /\ VerifyBackupReceipt(active, SchemaHead[active])
      <3>1. /\ SetOpen(plan) /\ Continue("op", "m_command")
            /\ UNCHANGED <<db, mreceipts, trees, receipt, journal, used, dump, dbBackup>>
        BY <1>5, <2>2 DEF MigratePlan
      <3>2. /\ job' \in [Workers -> Jobs] /\ job'["tool"] = job["tool"] /\ job'["op"].aside \in Servable
            /\ job'["op"].pc = "m_command" /\ job'["op"].then = i.then /\ job'["op"].target = i.target
            /\ job'["op"].dir = i.dir
        <4>1. "m_command" \in Steps
          BY <1>1 DEF MigrateSteps
        <4> QED BY <3>1, <4>1, MigrationJob
      <3>3. active \in Releases /\ SchemaHead[active] \in Nat /\ SchemaHead[release] \in Nat
        BY <1>0, <2>1, <2>2, DeploymentAssumption DEF Trees
      <3>4. /\ plan \in Migrations /\ plan.pair = <<active, release>>
            /\ plan.from = SchemaHead[active] /\ plan.to = SchemaHead[release]
            /\ plan.backup = [tree |-> active, head |-> SchemaHead[active]]
        BY <1>0, <2>1, <2>2, <3>3 DEF VerifyBackupReceipt, Migrations, Trees
      <3> HIDE DEF plan
      <3>5. plan # NoMigration
        BY <3>3, <3>4, DeploymentAssumption DEF NoMigration
      <3>6. TrueJournal(plan)
        BY <2>1, <2>2, <3>3, <3>4 DEF TrueJournal, Planned
      <3>7. /\ mjournal' \in [StateDirs -> Migrations] /\ mjournal'[i.dir] = plan
            /\ \A d \in StateDirs \ {i.dir} : mjournal'[d] = mjournal[d]
        BY <1>0, <1>2, <3>1, <3>4, WriteOpen
      <3>8. JournalIsTrue'
        <4>1. \A n : TrueJournal(n) => TrueJournal(n)'
          BY <3>1 DEF TrueJournal
        <4> QED BY <1>0, <1>2, <3>6, <3>7, <4>1 DEF JournalIsTrue
      <3>9. OneTransaction' /\ ReceiptIsTrue'
        BY <1>0, <2>1, <3>1, <3>7, DeploymentAssumption DEF OneTransaction, ReceiptIsTrue
      <3>10. OperationOK(job["op"])'
        BY <2>1, <3>1, <3>2, <3>5, <3>7 DEF OperationOK, TokenOK, UpdateSteps, RollbackSteps,
           MigrateSteps, RecoverSteps
      <3> QED BY <1>0, <3>1, <3>2, <3>7, <3>8, <3>9, <3>10, SameDatabase, MigrationMoves
    <2>3. CASE ~(/\ active # NoTree /\ Required(active, release) /\ Planned(active, release)
                 /\ db = SchemaHead[active] /\ VerifyBackupReceipt(active, SchemaHead[active]))
      <3>1. Stop("op") /\ UNCHANGED <<db, mjournal, mreceipts, trees, receipt, journal, used, dump, dbBackup>>
        BY <1>5, <2>3 DEF MigratePlan
      <3> QED BY <3>1, OperationFacts, WorkerStops DEF trees
    <2> QED BY <2>2, <2>3
  <1>6. ASSUME NEW head \in 0..Open.to, NEW completed \in BOOLEAN, MigrateCommand(head, completed)
        PROVE  DatabaseInv'
    <2>1. /\ Open # NoMigration /\ i.then = "m_plan" /\ head \in db..Open.to /\ db' = head
          /\ UNCHANGED <<trees, receipt, journal, mjournal, mreceipts, used, dump, dbBackup>>
      BY <1>3, <1>6 DEF MigrateCommand, MigrateSteps
    <2>2. /\ Open.to \in Nat /\ Open.from \in Nat /\ Open.from <= db /\ head \in Nat /\ db <= head
          /\ \A v \in (db + 1)..head : v \in Compatible
      BY <1>0, <1>2, <2>1 DEF Migrations, TrueJournal
    <2>3. \A r \in Releases : Serves(r) => Serves(r)'
      <3> SUFFICES ASSUME NEW r \in Releases, Serves(r) PROVE Serves(r)'
        OBVIOUS
      <3>1. SchemaHead[r] \in Nat
        BY DeploymentAssumption
      <3>2. \A v \in (SchemaHead[r] + 1)..head : v \in (SchemaHead[r] + 1)..db \/ v \in (db + 1)..head
        BY <1>0, <2>2, <3>1
      <3> QED BY <1>0, <2>1, <2>2, <3>1, <3>2 DEF Serves
    <2>4. /\ "m_probe" \in Steps
          /\ IF completed THEN Continue("op", "m_probe") ELSE Stop("op")
      BY <1>1, <1>6 DEF MigrateCommand, MigrateSteps
    <2>5. /\ job' \in [Workers -> Jobs] /\ job'["tool"] = job["tool"] /\ job'["op"].aside \in Servable
          /\ Stop("op") => OperationOK(job["op"])'
          /\ Continue("op", "m_probe") =>
               /\ job'["op"].pc = "m_probe" /\ job'["op"].then = i.then
               /\ job'["op"].target = i.target /\ job'["op"].dir = i.dir
      BY <2>4, MigrationJob
    <2>6. OperationOK(job["op"])'
      BY <1>0, <1>2, <2>1, <2>4, <2>5 DEF OperationOK, TokenOK, UpdateSteps, RollbackSteps,
         MigrateSteps, RecoverSteps
    <2>7. JournalIsTrue' /\ OneTransaction' /\ ReceiptIsTrue'
      <3>1. JournalIsTrue' /\ OneTransaction'
        BY <1>0, <2>1, <2>2, JournalsKeep DEF OneTransaction
      <3>2. \A pair \in mreceipts : SchemaHead[pair[2]] \in Nat
        BY <1>0, DeploymentAssumption
      <3> QED BY <1>0, <2>1, <2>2, <3>1, <3>2 DEF ReceiptIsTrue
    <2> QED BY <1>0, <2>1, <2>2, <2>3, <2>5, <2>6, <2>7, MigrationMoves
  <1>7. CASE MigrateProbe \/ AuditMigration
    <2>1. /\ Open # NoMigration /\ i.then = "m_plan"
          /\ UNCHANGED <<db, mjournal, mreceipts, trees, receipt, journal, used, dump, dbBackup>>
          /\ \/ Continue("op", "m_receipt") /\ db = Open.to
             \/ Continue("op", "m_unlink")
             \/ Stop("op")
      BY <1>3, <1>7 DEF MigrateProbe, AuditMigration, MigrateSteps
    <2>2. "m_receipt" \in Steps /\ "m_unlink" \in Steps
      BY <1>1 DEF MigrateSteps
    <2>3. /\ job' \in [Workers -> Jobs] /\ job'["tool"] = job["tool"] /\ job'["op"].aside \in Servable
          /\ Stop("op") => OperationOK(job["op"])'
          /\ \A pc \in {"m_receipt", "m_unlink"} : Continue("op", pc) =>
               /\ job'["op"].pc = pc /\ job'["op"].then = i.then /\ job'["op"].target = i.target
               /\ job'["op"].dir = i.dir
      BY <2>1, <2>2, MigrationJob
    <2>4. OperationOK(job["op"])'
      BY <1>0, <1>2, <2>1, <2>3 DEF OperationOK, TokenOK, UpdateSteps, RollbackSteps, MigrateSteps,
         RecoverSteps
    <2>5. JournalIsTrue' /\ OneTransaction' /\ ReceiptIsTrue'
      BY <1>0, <2>1, SameDatabase DEF OneTransaction, ReceiptIsTrue
    <2> QED BY <1>0, <2>1, <2>3, <2>4, <2>5, SameDatabase, MigrationMoves
  <1>8. CASE MigrateReceipt
    <2>1. /\ Open # NoMigration /\ i.then = "m_plan" /\ db = Open.to
          /\ mreceipts' = mreceipts \cup {Open.pair} /\ Continue("op", "m_audit")
          /\ UNCHANGED <<db, mjournal, trees, receipt, journal, used, dump, dbBackup>>
      BY <1>0, <1>2, <1>3, <1>8 DEF MigrateReceipt, MigrateSteps, OperationOK
    <2>2. "m_audit" \in Steps
      BY <1>1 DEF MigrateSteps
    <2>3. /\ job' \in [Workers -> Jobs] /\ job'["tool"] = job["tool"] /\ job'["op"].aside \in Servable
          /\ job'["op"].pc = "m_audit" /\ job'["op"].then = i.then /\ job'["op"].target = i.target
          /\ job'["op"].dir = i.dir
      BY <2>1, <2>2, MigrationJob
    <2>4. OperationOK(job["op"])'
      BY <1>0, <1>2, <2>1, <2>3 DEF OperationOK, TokenOK, UpdateSteps, RollbackSteps, MigrateSteps,
         RecoverSteps
    <2>5. /\ mreceipts' \subseteq Releases \X Releases /\ JournalIsTrue' /\ OneTransaction'
          /\ ReceiptIsTrue'
      <3>1. Open.pair \in Releases \X Releases /\ SchemaHead[Open.pair[2]] <= db
        BY <1>0, <1>2, <2>1 DEF TrueJournal
      <3> QED BY <1>0, <2>1, <3>1, SameDatabase DEF OneTransaction, ReceiptIsTrue
    <2> QED BY <1>0, <2>1, <2>3, <2>4, <2>5, SameDatabase, MigrationMoves
  <1>9. CASE MigrateUnlink
    <2>1. /\ SetOpen(NoMigration) /\ Stop("op")
          /\ UNCHANGED <<db, mreceipts, trees, receipt, journal, used, dump, dbBackup>>
      BY <1>9 DEF MigrateUnlink
    <2>2. /\ job' \in [Workers -> Jobs] /\ job'["tool"] = job["tool"] /\ job'["op"].aside \in Servable
          /\ OperationOK(job["op"])'
      BY <2>1, MigrationJob
    <2>3. /\ mjournal' \in [StateDirs -> Migrations] /\ JournalIsTrue' /\ OneTransaction'
          /\ ReceiptIsTrue'
      BY <1>0, <1>2, <2>1, ClearOpen DEF ReceiptIsTrue
    <2> QED BY <1>0, <2>1, <2>2, <2>3, SameDatabase, MigrationMoves
  <1> QED BY <1>4, <1>5, <1>6, <1>7, <1>8, <1>9 DEF Migrate

LEMMA DatabaseInitially == Init => DatabaseInv
  <1> SUFFICES ASSUME Init PROVE DatabaseInv
    OBVIOUS
  <1> USE DeploymentAssumption DEF Init
  <1>1. NoReceipt \in Receipts /\ NoTree \in Trees /\ Installed \in Trees /\ NoBackup \in Backups
    BY DEF NoReceipt, Receipts, Trees, NoBackup, Backups
  <1>2. Servable = {r \in Trees : r # NoTree => Serves(r)} /\ Serves(Installed)
    BY DEF Servable, Serves
  <1>3. DatabaseTypes
    BY <1>1, IdleIsJob, NoMigrationIsOne DEF DatabaseTypes, Journals, NoDump
  <1>4. EveryTreeServed
    BY <1>1, <1>2, RestsOK DEF EveryTreeServed
  <1>5. JournalIsTrue /\ OneTransaction /\ ReceiptIsTrue
    BY DEF JournalIsTrue, TrueJournal, OneTransaction, ReceiptIsTrue
  <1>6. \A w \in Workers : WorkerOK(w, job[w])
    BY RestsOK
  <1> QED BY <1>3, <1>4, <1>5, <1>6 DEF DatabaseInv

LEMMA DatabaseStep == DatabaseInv /\ [Next]_vars => DatabaseInv'
  <1> SUFFICES ASSUME DatabaseInv, [Next]_vars PROVE DatabaseInv'
    OBVIOUS
  <1>1. ASSUME NEW w \in Workers, Recover(w) \/ Crash(w) PROVE DatabaseInv'
    <2>1. CASE Crash(w)
      BY <2>1, OperationFacts, WorkerStops DEF Crash, trees, migration, backups
    <2> QED BY <1>1, <2>1, RecoverKeeps
  <1>2. CASE Backup \/ UNCHANGED vars
    <2>1. UNCHANGED <<active, backup, candidate, receipt, journal, db, mjournal, mreceipts, job, used>>
      BY <1>2 DEF Backup, RestoreDrill, CreateReceipt, ReceiptAge, vars, trees, migration, backups
    <2>2. dump' \in [taken : BOOLEAN, head : Nat] /\ dbBackup' \in Backups
      <3>1. /\ dbBackup \in Backups /\ db \in Nat /\ active \in Trees /\ dump.head \in Nat
            /\ dump \in [taken : BOOLEAN, head : Nat]
        BY OperationFacts DEF DatabaseInv, DatabaseTypes, Servable
      <3>2. CASE RestoreDrill
        BY <3>1, <3>2 DEF RestoreDrill
      <3>3. CASE CreateReceipt
        BY <3>1, <3>3 DEF CreateReceipt, Backups
      <3>4. CASE ReceiptAge
        BY <3>4 DEF ReceiptAge, NoDump, NoBackup, Backups, Trees
      <3>5. CASE UNCHANGED vars
        BY <3>1, <3>5 DEF vars, migration, backups
      <3> QED BY <1>2, <3>2, <3>3, <3>4, <3>5 DEF Backup
    <2>3. DatabaseTypes' /\ EveryTreeServed'
      BY <2>1, <2>2, SameDatabase DEF DatabaseInv, DatabaseTypes, EveryTreeServed, Servable
    <2>4. JournalIsTrue' /\ OneTransaction' /\ ReceiptIsTrue'
      BY <2>1 DEF DatabaseInv, JournalIsTrue, TrueJournal, OneTransaction, ReceiptIsTrue
    <2>5. \A w \in Workers : WorkerOK(w, job[w])'
      BY <2>1 DEF DatabaseInv, WorkerOK, OperationOK, ToolOK, TokenOK
    <2> QED BY <2>3, <2>4, <2>5 DEF DatabaseInv
  <1>3. CASE Update \/ Rollback \/ Migrate
    BY <1>3, UpdateKeeps, RollbackKeeps, MigrateKeeps
  <1> QED BY <1>1, <1>2, <1>3, BeginKeeps DEF Next

\* database_migration_guard.py and transactional_release_update.py: wherever any operation
\* stops, recoveries and rollbacks included, and whatever the tool that takes no lock does
\* beside it, the database serves the code that is active, though a migration whose journal is
\* elsewhere may run beside an update left half way; no update is open beside a migration that
\* keeps its journal in the same directory; migration receipts are true, and every migration
\* under way has its backup.
THEOREM DatabaseStaysInStep == Spec => []DatabaseIsInStep
  <1>1. ASSUME DatabaseInv PROVE DatabaseIsInStep
    <2>1. DatabaseServesCode
      BY <1>1 DEF DatabaseInv, EveryTreeServed, Servable, Serves, DatabaseServesCode
    <2>2. OneTransaction /\ ReceiptIsTrue /\ MigrationHasBackup
      BY <1>1 DEF DatabaseInv, JournalIsTrue, TrueJournal, MigrationHasBackup
    <2> QED BY <2>1, <2>2 DEF DatabaseIsInStep
  <1> QED BY <1>1, DatabaseInitially, DatabaseStep, PTL DEF Spec

-----------------------------------------------------------------------------
(* What is in effect was accepted, wherever an operation stops, as long as  *)
(* one worker works at a time.                                              *)

AcceptedOrNone == Sound \cup {Installed, NoTree}

\* The journal says that a candidate may be active that nobody accepted.
Moved == journal.status \in {"ACTIVE_MOVED_TO_BACKUP", "CANDIDATE_PROMOTED"}

EffectOK ==
  /\ committed \in Sound \cup {Installed} /\ CommittedIsAudited
  /\ \A t \in Updates : backup[t] \in AcceptedOrNone
  /\ active \in AcceptedOrNone \/ Moved

\* A recovery gives up the journal only with an accepted tree active, or none.
ReturnsOK(j) ==
  /\ j.pc = "r_look" => j.status = journal.status
  /\ j.pc \in {"r_aside", "r_restore"} => backup[j.token] # NoTree
  /\ j.pc = "r_restore" => active = NoTree
  /\ j.pc \in {"r_discard", "r_unlink"} => active \in AcceptedOrNone

\* While a tree that was not accepted may be active, the journal says so.
InstallsOK(j) ==
  /\ j.pc \in {"stage", "u_journal"} \cup RollbackSteps => journal = NoJournal
  /\ j.pc \in {"u_move", "u_mark"} => journal.status = "PREPARED"
  /\ j.pc \in {"u_promote", "u_mark_promoted", "u_accept", "u_audit", "u_commit"} => Moved
  /\ j.pc \in {"u_audit", "u_commit"} => active \in Sound
  /\ j.pc = "u_commit" => <<"update", active>> \in audit
  /\ j.pc \in {"b_restore", "b_accept", "b_undo", "b_undo_aside"} => j.aside \in AcceptedOrNone
  /\ j.pc = "m_recover" => j.then # "stage"

AcceptedInv ==
  /\ DatabaseInv /\ EffectOK
  /\ job["op"].pc = "idle" \/ job["tool"].pc = "idle"
  /\ \A w \in Workers : ReturnsOK(job[w])
  /\ InstallsOK(job["op"])

\* Nobody else is at work.
Alone(w) == \A x \in Workers \ {w} : job[x].pc = "idle" /\ job'[x] = job[x]

LEMMA WorksAlone ==
  ASSUME AcceptedInv, [Next]_vars, DatabaseInv', NEW w \in Workers, Alone(w), ReturnsOK(job[w])',
         w = "op" => InstallsOK(job["op"])', EffectOK'
  PROVE  AcceptedInv'
  <1>1. \A x \in Workers \ {w} : job'[x].pc = "idle"
    BY DEF Alone
  <1>2. \A x \in Workers : ReturnsOK(job[x])'
    <2>1. \A x \in Workers \ {w} : ReturnsOK(job[x])'
      BY <1>1 DEF ReturnsOK
    <2> QED BY <2>1
  <1>3. InstallsOK(job["op"])'
    <2>1. w # "op" => job'["op"].pc = "idle"
      BY <1>1, WorkerNames
    <2>2. job'["op"].pc = "idle" => InstallsOK(job["op"])'
      BY DEF InstallsOK, RollbackSteps
    <2> QED BY <2>1, <2>2
  <1>4. job'["op"].pc = "idle" \/ job'["tool"].pc = "idle"
    BY <1>1, WorkerNames
  <1> QED BY <1>2, <1>3, <1>4 DEF AcceptedInv

\* One worker is at work, and the facts about it.
LEMMA OneAtWork ==
  ASSUME AcceptedInv, NEW w \in Workers, job[w].pc # "idle",
         Stop(w) \/ (\E pc \in Steps : Continue(w, pc)) \/ \E j \in Jobs : job' = [job EXCEPT ![w] = j]
  PROVE  /\ Alone(w) /\ job \in [Workers -> Jobs] /\ job[w] \in Jobs /\ ReturnsOK(job[w]) /\ EffectOK
         /\ w = "op" => InstallsOK(job["op"]) /\ OperationOK(job["op"])
         /\ TokenOK(job[w])
         /\ Stop(w) => job'[w] = Idle
         /\ \A pc \in Steps : Continue(w, pc) =>
              /\ job'[w].pc = pc /\ job'[w].token = job[w].token /\ job'[w].status = job[w].status
              /\ job'[w].aside = job[w].aside /\ job'[w].then = job[w].then
  <1>1. job \in [Workers -> Jobs] /\ WorkerOK(w, job[w])
    BY DEF AcceptedInv, DatabaseInv, DatabaseTypes
  <1>2. \A x \in Workers \ {w} : job[x].pc = "idle"
    BY WorkerNames DEF AcceptedInv
  <1>3. \A x \in Workers \ {w} : job'[x] = job[x]
    BY <1>1, ContinueJob, StopJob, NewJob
  <1>4. TokenOK(job[w]) /\ (w = "op" => OperationOK(job["op"]))
    BY <1>1 DEF WorkerOK, OperationOK, ToolOK
  <1>5. Stop(w) => job'[w] = Idle
    BY <1>1 DEF Stop
  <1>6. \A pc \in Steps : Continue(w, pc) =>
          /\ job'[w].pc = pc /\ job'[w].token = job[w].token /\ job'[w].status = job[w].status
          /\ job'[w].aside = job[w].aside /\ job'[w].then = job[w].then
    BY <1>1, ContinueJob
  <1> QED BY <1>1, <1>2, <1>3, <1>4, <1>5, <1>6 DEF AcceptedInv, Alone

\* Who rests is in order.
LEMMA RestIsOK ==
  ASSUME NEW w \in Workers, job'[w].pc = "idle"
  PROVE  ReturnsOK(job[w])' /\ (w = "op" => InstallsOK(job["op"])')
BY DEF ReturnsOK, InstallsOK, RollbackSteps

LEMMA RecoverAccepted ==
  ASSUME AcceptedInv, [Next]_vars, DatabaseInv', NEW w \in Workers, Recover(w)
  PROVE  AcceptedInv'
  <1> USE DEF Doing, migration, trees, backups
  <1> DEFINE i == job[w]
             t == job[w].token
  <1>0. i.pc \in RecoverSteps /\ i.pc # "idle" /\ NoTree \in AcceptedOrNone /\ ~(NoJournal.status \in Statuses)
    <2>1. i.pc \in {"recover", "r_look", "r_aside", "r_restore", "r_discard", "r_unlink"}
      BY DEF Recover, RecoverRead, RecoverLook, RecoverAside, RecoverRestore, RecoverDiscard, RecoverForget
    <2>2. i.pc \in RecoverSteps /\ i.pc # "idle"
      BY <2>1 DEF RecoverSteps
    <2>3. NoTree \in AcceptedOrNone
      BY DEF AcceptedOrNone
    <2>4. ~(NoJournal.status \in Statuses)
      BY DEF NoJournal, Statuses
    <2> QED BY <2>2, <2>3, <2>4
  <1>1. i.pc \in RecoverSteps \ {"recover"} => t \in Updates
    BY WorkerNames DEF AcceptedInv, DatabaseInv, WorkerOK, OperationOK, ToolOK, TokenOK, RecoverSteps
  <1>2. committed' = committed /\ audit' = audit /\ backup \in [Updates -> Trees] /\ active \in Trees
        /\ journal \in Journals
    BY OperationFacts DEF Recover, RecoverRead, RecoverLook, RecoverAside, RecoverRestore, RecoverDiscard,
       RecoverForget, AcceptedInv, Servable
  <1>3. CASE Stop(w)
    <2>1. Alone(w) /\ job'[w] = Idle /\ ReturnsOK(i) /\ EffectOK
      BY <1>0, <1>3, OneAtWork
    <2>2. job'[w].pc = "idle"
      BY <2>1 DEF Idle
    <2>3. EffectOK'
      BY <1>0, <1>1, <1>2, <1>3, <2>1 DEF Recover, RecoverRead, RecoverLook, RecoverAside, RecoverRestore,
         RecoverDiscard, RecoverForget, EffectOK, Moved, CommittedIsAudited, ReturnsOK
    <2> QED BY <2>1, <2>2, <2>3, RestIsOK, WorksAlone
  <1>4. CASE Continue(w, "stage") /\ ((RecoverRead(w) /\ journal = NoJournal) \/ RecoverForget(w))
    <2>1. /\ Alone(w) /\ ReturnsOK(i) /\ EffectOK /\ job'[w].pc = "stage"
      BY <1>0, <1>4, OneAtWork DEF Steps, UpdateSteps
    <2>2. journal' = NoJournal /\ UNCHANGED <<active, backup>>
      BY <1>4 DEF RecoverRead, RecoverForget
    <2>3. active \in AcceptedOrNone
      BY <1>0, <1>4, <2>1 DEF RecoverRead, RecoverForget, ReturnsOK, EffectOK, Moved, Statuses
    <2>4. EffectOK' /\ ReturnsOK(job[w])' /\ InstallsOK(job[w])'
      BY <1>2, <2>1, <2>2, <2>3 DEF EffectOK, ReturnsOK, InstallsOK, CommittedIsAudited, RollbackSteps
    <2> QED BY <2>1, <2>4, WorksAlone
  <1>5. CASE RecoverRead(w) /\ journal # NoJournal
    <2> DEFINE j == [i EXCEPT !.pc = "r_look", !.token = journal.token, !.status = journal.status]
    <2>1. job' = [job EXCEPT ![w] = j] /\ UNCHANGED <<active, backup, journal>>
      BY <1>5, OperationFacts DEF RecoverRead, AcceptedInv
    <2>2. j \in Jobs /\ j.pc = "r_look" /\ j.status = journal.status
      <3>1. i \in Jobs
        BY OperationFacts DEF AcceptedInv
      <3>2. journal.token \in Updates /\ journal.status \in Statuses
        BY <1>2, <1>5 DEF Journals
      <3> QED BY <3>1, <3>2 DEF Jobs, Steps, RecoverSteps
    <2> HIDE DEF j
    <2>3. Alone(w) /\ EffectOK /\ job'[w] = j
      <3>1. Alone(w) /\ EffectOK /\ job \in [Workers -> Jobs]
        BY <1>0, <2>1, <2>2, OneAtWork
      <3> QED BY <2>1, <3>1
    <2>4. EffectOK' /\ ReturnsOK(job[w])' /\ InstallsOK(job[w])'
      BY <1>2, <2>1, <2>2, <2>3 DEF EffectOK, ReturnsOK, InstallsOK, CommittedIsAudited, RollbackSteps, Moved
    <2> QED BY <2>3, <2>4, WorksAlone
  <1>6. CASE RecoverLook(w) /\ ~Stop(w)
    <2>1. PICK pc \in {"r_aside", "r_restore", "r_discard"} :
            /\ Continue(w, pc) /\ UNCHANGED <<active, backup, journal>>
            /\ pc # "r_discard" => backup[t] # NoTree
            /\ pc = "r_restore" => active = NoTree
            /\ pc = "r_discard" => i.status = "PREPARED"
      BY <1>6 DEF RecoverLook
    <2>2. /\ Alone(w) /\ ReturnsOK(i) /\ EffectOK /\ job'[w].pc = pc /\ job'[w].token = t
      BY <1>0, <2>1, OneAtWork DEF Steps, RecoverSteps
    <2>3. pc = "r_discard" => active \in AcceptedOrNone
      BY <1>6, <2>1, <2>2 DEF RecoverLook, ReturnsOK, EffectOK, Moved
    <2>4. EffectOK' /\ ReturnsOK(job[w])' /\ InstallsOK(job[w])'
      BY <1>2, <2>1, <2>2, <2>3 DEF EffectOK, ReturnsOK, InstallsOK, CommittedIsAudited, RollbackSteps, Moved
    <2> QED BY <2>2, <2>4, WorksAlone
  <1>7. CASE RecoverAside(w) /\ ~Stop(w)
    <2> DEFINE j == [i EXCEPT !.pc = "r_restore", !.aside = active]
    <2>1. /\ job' = [job EXCEPT ![w] = j] /\ active' = NoTree /\ UNCHANGED <<backup, journal>>
      BY <1>7, OperationFacts DEF RecoverAside, AcceptedInv
    <2>2. j \in Jobs /\ j.pc = "r_restore" /\ j.token = t
      <3>1. i \in Jobs
        BY OperationFacts DEF AcceptedInv
      <3> QED BY <1>2, <3>1 DEF Jobs, Steps, RecoverSteps
    <2> HIDE DEF j
    <2>3. Alone(w) /\ EffectOK /\ job'[w] = j /\ ReturnsOK(i)
      <3>1. Alone(w) /\ EffectOK /\ ReturnsOK(i) /\ job \in [Workers -> Jobs]
        BY <1>0, <2>1, <2>2, OneAtWork
      <3> QED BY <2>1, <3>1
    <2>4. EffectOK' /\ ReturnsOK(job[w])' /\ InstallsOK(job[w])'
      BY <1>0, <1>2, <1>7, <2>1, <2>2, <2>3 DEF RecoverAside, EffectOK, ReturnsOK, InstallsOK, CommittedIsAudited,
         RollbackSteps, Moved
    <2> QED BY <2>3, <2>4, WorksAlone
  <1>8. CASE RecoverRestore(w) /\ ~Stop(w)
    <2>1. /\ active' = backup[t] /\ backup' = [backup EXCEPT ![t] = NoTree] /\ Continue(w, "r_discard")
          /\ journal' = journal /\ t \in Updates
      BY <1>1, <1>8 DEF RecoverRestore, RecoverSteps
    <2>2. Alone(w) /\ EffectOK /\ job'[w].pc = "r_discard"
      BY <1>0, <2>1, OneAtWork DEF Steps, RecoverSteps
    <2>3. EffectOK' /\ active' \in AcceptedOrNone
      BY <1>0, <1>2, <2>1, <2>2 DEF EffectOK, CommittedIsAudited
    <2>4. ReturnsOK(job[w])' /\ InstallsOK(job[w])'
      BY <2>2, <2>3 DEF ReturnsOK, InstallsOK, RollbackSteps
    <2> QED BY <2>2, <2>3, <2>4, WorksAlone
  <1>9. CASE RecoverDiscard(w)
    <2>1. Continue(w, "r_unlink") /\ UNCHANGED <<active, backup, journal>> /\ i.pc = "r_discard"
      BY <1>9 DEF RecoverDiscard
    <2>2. Alone(w) /\ EffectOK /\ job'[w].pc = "r_unlink" /\ ReturnsOK(i)
      BY <1>0, <2>1, OneAtWork DEF Steps, RecoverSteps
    <2>3. EffectOK' /\ ReturnsOK(job[w])' /\ InstallsOK(job[w])'
      BY <1>2, <2>1, <2>2 DEF EffectOK, ReturnsOK, InstallsOK, CommittedIsAudited, RollbackSteps, Moved
    <2> QED BY <2>2, <2>3, WorksAlone
  <1>10. \/ Stop(w)
         \/ Continue(w, "stage") /\ ((RecoverRead(w) /\ journal = NoJournal) \/ RecoverForget(w))
         \/ RecoverRead(w) /\ journal # NoJournal
         \/ (RecoverLook(w) \/ RecoverAside(w) \/ RecoverRestore(w)) /\ ~Stop(w)
         \/ RecoverDiscard(w)
    BY DEF Recover, RecoverRead, RecoverForget, Resume
  <1> QED BY <1>3, <1>4, <1>5, <1>6, <1>7, <1>8, <1>9, <1>10

\* What AcceptedInv asks of a job that starts is little.
LEMMA BeginAccepted ==
  ASSUME AcceptedInv, [Next]_vars, DatabaseInv', ToolMayOverlap = FALSE,
         \/ ToolBegin
         \/ \E release \in Releases : UpdateBegin(release)
         \/ \E d \in StateDirs :
              \/ MigrateBegin(NoTree, "idle", d)
              \/ \E release \in Releases : MigrateBegin(release, "m_plan", d)
         \/ \E t \in Updates : RollbackBegin(t)
  PROVE  AcceptedInv'
  <1> USE DEF Doing, trees
  <1>1. job \in [Workers -> Jobs] /\ job["op"] \in Jobs /\ EffectOK
    BY OperationFacts DEF AcceptedInv
  <1>2. UNCHANGED <<active, backup, journal, committed, audit>>
    BY DEF ToolBegin, UpdateBegin, MigrateBegin, RollbackBegin
  <1>3. EffectOK'
    BY <1>1, <1>2 DEF EffectOK, CommittedIsAudited, Moved
  <1>4. CASE ToolBegin
    <2>1. Alone("tool") /\ job'["tool"].pc = "recover"
      BY <1>1, <1>4, WorkerNames DEF ToolBegin, Continue, Alone
    <2>2. ReturnsOK(job["tool"])'
      BY <2>1 DEF ReturnsOK
    <2> QED BY <1>3, <2>1, <2>2, WorkerNames, WorksAlone
  <1>5. ASSUME NEW j \in Jobs, job' = [job EXCEPT !["op"] = j], Free,
               j.pc \in {"recover", "m_recover"} \/ (j.pc = "b_aside" /\ journal = NoJournal),
               j.pc = "m_recover" => j.then # "stage"
        PROVE  AcceptedInv'
    <2>1. Alone("op") /\ job'["op"] = j
      BY <1>1, <1>5, WorkerNames DEF Free, Alone
    <2>2. ReturnsOK(job["op"])' /\ InstallsOK(job["op"])'
      BY <1>2, <1>5, <2>1 DEF ReturnsOK, InstallsOK, RollbackSteps
    <2> QED BY <1>3, <2>1, <2>2, WorkerNames, WorksAlone
  <1>6. /\ \A pc \in Steps : [Idle EXCEPT !.pc = pc] \in Jobs
        /\ \A release \in Releases : release \in Trees
        /\ Idle \in Jobs /\ NoTree \in Trees
    BY IdleIsJob DEF Jobs, Idle, Trees
  <1>7. ASSUME NEW release \in Releases, UpdateBegin(release) PROVE AcceptedInv'
    <2> DEFINE j == [Idle EXCEPT !.pc = "recover", !.target = release, !.then = "stage"]
    <2>1. j \in Jobs /\ j.pc = "recover" /\ job' = [job EXCEPT !["op"] = j] /\ Free
      BY <1>6, <1>7 DEF UpdateBegin, MayBegin, Jobs, Steps, RecoverSteps
    <2> HIDE DEF j
    <2> QED BY <1>5, <2>1
  <1>8. ASSUME NEW release \in Trees, NEW then \in {"idle", "m_plan"}, NEW d \in StateDirs,
               MigrateBegin(release, then, d)
        PROVE  AcceptedInv'
    <2> DEFINE j == [Idle EXCEPT !.pc = "m_recover", !.target = release, !.then = then, !.dir = d]
    <2>1. /\ j \in Jobs /\ j.pc = "m_recover" /\ j.then # "stage"
          /\ job' = [job EXCEPT !["op"] = j] /\ Free
      BY <1>6, <1>8 DEF MigrateBegin, Jobs, Steps, MigrateSteps
    <2> HIDE DEF j
    <2> QED BY <1>5, <2>1
  <1>9. ASSUME NEW t \in Updates, RollbackBegin(t) PROVE AcceptedInv'
    <2> DEFINE pc == IF journal # NoJournal THEN "recover" ELSE "b_aside"
               j == [Idle EXCEPT !.pc = pc, !.token = t]
    <2>1. /\ pc = "recover" \/ (pc = "b_aside" /\ journal = NoJournal)
          /\ pc \in Steps
      BY DEF Steps, RecoverSteps, RollbackSteps
    <2>2. job' = [job EXCEPT !["op"] = j] /\ Free
      BY <1>9 DEF RollbackBegin, MayBegin
    <2> HIDE DEF pc
    <2>3. j \in Jobs /\ j.pc = pc
      BY <1>6, <2>1 DEF Jobs
    <2> HIDE DEF j
    <2> QED BY <1>5, <2>1, <2>2, <2>3
  <1> QED BY <1>4, <1>6, <1>7, <1>8, <1>9

LEMMA UpdateAccepted ==
  ASSUME AcceptedInv, [Next]_vars, DatabaseInv', Update
  PROVE  AcceptedInv'
  <1> USE DEF Doing, trees
  <1> DEFINE i == job["op"]
             t == job["op"].token
  <1>0. /\ i.pc \in UpdateSteps /\ i.pc # "idle" /\ "op" \in Workers /\ UpdateSteps \subseteq Steps
        /\ NoTree \in AcceptedOrNone /\ ~(NoJournal.status \in Statuses) /\ Sound \subseteq AcceptedOrNone
    <2>1. i.pc \in UpdateSteps
      BY DEF Update, Stage, Prepare, MoveActive, MarkMoved, Promote, MarkPromoted, Accept, AuditUpdate,
         Commit, UpdateRaises, Record, UpdateSteps
    <2>2. i.pc # "idle"
      BY <2>1 DEF UpdateSteps
    <2>3. ~(NoJournal.status \in Statuses)
      BY DEF NoJournal, Statuses
    <2> QED BY <2>1, <2>2, <2>3, WorkerNames DEF Steps, AcceptedOrNone
  <1>1. /\ (i.pc # "stage" => t \in Updates) /\ backup \in [Updates -> Trees] /\ i \in Jobs
        /\ job \in [Workers -> Jobs] /\ EffectOK /\ InstallsOK(i)
    BY <1>0, OperationFacts DEF AcceptedInv, TokenOK, UpdateSteps, Servable
  \* A step to another one of the update.
  <1>2. ASSUME NEW pc \in UpdateSteps, Continue("op", pc),
               EffectOK', job'["op"].pc = pc => InstallsOK(job["op"])'
        PROVE  AcceptedInv'
    <2>1. Alone("op") /\ job'["op"].pc = pc
      BY <1>0, <1>2, OneAtWork
    <2>2. ReturnsOK(job["op"])'
      BY <1>2, <2>1 DEF ReturnsOK, UpdateSteps
    <2> QED BY <1>0, <1>2, <2>1, <2>2, WorksAlone
  <1>3. CASE Stage
    <2> DEFINE j == [i EXCEPT !.pc = "u_journal", !.token = used + 1,
                              !.bound = [kind |-> IF Required(active, i.target) THEN "migrated" ELSE "plain",
                                         tree |-> active]]
    <2>1. job' = [job EXCEPT !["op"] = j] /\ UNCHANGED <<active, backup, journal, committed, audit>>
      BY <1>1, <1>3 DEF Stage
    <2>2. j.pc = "u_journal" /\ job'["op"] = j /\ \A x \in Workers \ {"op"} : job'[x] = job[x]
      BY <1>0, <1>1, <2>1 DEF Jobs
    <2> HIDE DEF j
    <2>3. Alone("op")
      BY <1>0, <2>2, WorkerNames DEF AcceptedInv, Alone
    <2>4. journal = NoJournal
      BY <1>1, <1>3 DEF Stage, InstallsOK
    <2>5. EffectOK' /\ ReturnsOK(job["op"])' /\ InstallsOK(job["op"])'
      BY <1>1, <2>1, <2>2, <2>4 DEF EffectOK, Moved, CommittedIsAudited, ReturnsOK, InstallsOK, RollbackSteps
    <2> QED BY <1>0, <2>3, <2>5, WorksAlone
  <1>4. CASE Prepare
    <2>1. /\ journal' = [status |-> "PREPARED", token |-> t] /\ Continue("op", "u_move") /\ i.pc = "u_journal"
          /\ UNCHANGED <<active, backup, committed, audit>>
      BY <1>4 DEF Prepare, Record
    <2>2. active \in AcceptedOrNone
      BY <1>0, <1>1, <2>1 DEF InstallsOK, EffectOK, Moved, Statuses
    <2>3. EffectOK' /\ (job'["op"].pc = "u_move" => InstallsOK(job["op"])')
      BY <1>1, <2>1, <2>2 DEF EffectOK, CommittedIsAudited, InstallsOK, RollbackSteps
    <2> QED BY <1>2, <2>1, <2>3 DEF UpdateSteps
  <1>5. CASE MoveActive
    <2>1. /\ active' = NoTree /\ backup' = [backup EXCEPT ![t] = active] /\ Continue("op", "u_mark")
          /\ i.pc = "u_move" /\ t \in Updates /\ UNCHANGED <<journal, committed, audit>>
      BY <1>1, <1>5 DEF MoveActive
    <2>2. active \in AcceptedOrNone /\ journal.status = "PREPARED"
      BY <1>1, <2>1 DEF InstallsOK, EffectOK, Moved
    <2>3. \A x \in Updates : backup'[x] \in AcceptedOrNone
      BY <1>1, <2>1, <2>2 DEF EffectOK
    <2>4. EffectOK' /\ (job'["op"].pc = "u_mark" => InstallsOK(job["op"])')
      BY <1>0, <1>1, <2>1, <2>2, <2>3 DEF EffectOK, CommittedIsAudited, InstallsOK, RollbackSteps
    <2> QED BY <1>2, <2>1, <2>4 DEF UpdateSteps
  <1>6. CASE MarkMoved \/ MarkPromoted
    <2>1. PICK pc \in {"u_promote", "u_accept"} : Continue("op", pc) /\ Moved'
                       /\ UNCHANGED <<active, backup, committed, audit>>
      BY <1>6 DEF MarkMoved, MarkPromoted, Record, Moved
    <2>2. EffectOK' /\ (job'["op"].pc = pc => InstallsOK(job["op"])')
      BY <1>1, <2>1 DEF EffectOK, CommittedIsAudited, InstallsOK, RollbackSteps
    <2> QED BY <1>2, <2>1, <2>2 DEF UpdateSteps
  <1>7. CASE Promote
    <2>1. /\ Continue("op", "u_mark_promoted") /\ i.pc = "u_promote"
          /\ UNCHANGED <<backup, journal, committed, audit>>
      BY <1>7 DEF Promote
    <2>2. Moved'
      BY <1>1, <2>1 DEF InstallsOK, Moved
    <2>3. EffectOK' /\ (job'["op"].pc = "u_mark_promoted" => InstallsOK(job["op"])')
      BY <1>1, <2>1, <2>2 DEF EffectOK, CommittedIsAudited, InstallsOK, RollbackSteps
    <2> QED BY <1>2, <2>1, <2>3 DEF UpdateSteps
  <1>8. CASE Accept
    <2>1. /\ Continue("op", "u_audit") /\ i.pc = "u_accept" /\ active \in Sound
          /\ UNCHANGED <<active, backup, journal, committed, audit>>
      BY <1>8 DEF Accept, PostCutoverAcceptance, VerifyRuntimeBinding
    <2>2. EffectOK' /\ (job'["op"].pc = "u_audit" => InstallsOK(job["op"])')
      BY <1>1, <2>1 DEF EffectOK, Moved, CommittedIsAudited, InstallsOK, RollbackSteps
    <2> QED BY <1>2, <2>1, <2>2 DEF UpdateSteps
  <1>9. CASE AuditUpdate
    <2>1. /\ Continue("op", "u_commit") /\ i.pc = "u_audit" /\ audit' = audit \cup {<<"update", active>>}
          /\ UNCHANGED <<active, backup, journal, committed>>
      BY <1>9 DEF AuditUpdate
    <2>2. EffectOK' /\ (job'["op"].pc = "u_commit" => InstallsOK(job["op"])')
      BY <1>1, <2>1 DEF EffectOK, Moved, CommittedIsAudited, InstallsOK, RollbackSteps
    <2> QED BY <1>2, <2>1, <2>2 DEF UpdateSteps
  <1>10. CASE Commit
    <2>1. /\ Stop("op") /\ i.pc = "u_commit" /\ journal' = NoJournal /\ committed' = active
          /\ UNCHANGED <<active, backup, audit>>
      BY <1>10 DEF Commit
    <2>2. active \in Sound /\ <<"update", active>> \in audit
      BY <1>1, <2>1 DEF InstallsOK
    <2>3. EffectOK'
      BY <1>0, <1>1, <2>1, <2>2 DEF EffectOK, CommittedIsAudited
    <2>4. Alone("op") /\ job'["op"].pc = "idle"
      BY <1>0, <2>1, OneAtWork DEF Idle
    <2> QED BY <1>0, <2>3, <2>4, RestIsOK, WorksAlone
  <1>11. CASE UpdateRaises
    <2>1. UNCHANGED <<active, backup, journal, committed, audit>>
      BY <1>11 DEF UpdateRaises
    <2>2. EffectOK'
      BY <1>1, <2>1 DEF EffectOK, Moved, CommittedIsAudited
    <2>3. CASE Stop("op")
      <3>1. Alone("op") /\ job'["op"].pc = "idle"
        BY <1>0, <2>3, OneAtWork DEF Idle
      <3> QED BY <1>0, <2>2, <3>1, RestIsOK, WorksAlone
    <2>4. CASE job' = [job EXCEPT !["op"] = [Idle EXCEPT !.pc = "recover"]]
      <3>1. job'["op"].pc = "recover" /\ \A x \in Workers \ {"op"} : job'[x] = job[x]
        BY <1>0, <1>1, <2>4 DEF Idle
      <3>2. Alone("op")
        BY <1>0, <3>1, WorkerNames DEF AcceptedInv, Alone
      <3>3. ReturnsOK(job["op"])' /\ InstallsOK(job["op"])'
        BY <3>1 DEF ReturnsOK, InstallsOK, RollbackSteps
      <3> QED BY <1>0, <2>2, <3>2, <3>3, WorksAlone
    <2> QED BY <1>11, <2>3, <2>4 DEF UpdateRaises
  <1> QED BY <1>3, <1>4, <1>5, <1>6, <1>7, <1>8, <1>9, <1>10, <1>11 DEF Update

\* A rollback begins without a journal: what it moves about was accepted.
LEMMA RollbackAccepted ==
  ASSUME AcceptedInv, [Next]_vars, DatabaseInv', Rollback
  PROVE  AcceptedInv'
  <1> USE DEF Doing, trees
  <1> DEFINE i == job["op"]
             t == job["op"].token
  <1>0. /\ i.pc \in RollbackSteps /\ i.pc # "idle" /\ "op" \in Workers /\ RollbackSteps \subseteq Steps
        /\ NoTree \in AcceptedOrNone /\ ~(NoJournal.status \in Statuses)
    <2>1. i.pc \in RollbackSteps
      BY DEF Rollback, RollbackAside, RollbackRestore, RollbackRestoreFails, RollbackAccept, RollbackUndo,
         RollbackUndoAside, AuditRollback, RollbackClean, RollbackSteps
    <2>2. i.pc # "idle"
      BY <2>1 DEF RollbackSteps
    <2>3. ~(NoJournal.status \in Statuses)
      BY DEF NoJournal, Statuses
    <2> QED BY <2>1, <2>2, <2>3, WorkerNames DEF Steps, AcceptedOrNone
  <1>1. /\ t \in Updates /\ backup \in [Updates -> Trees] /\ i \in Jobs /\ active \in Trees
        /\ job \in [Workers -> Jobs] /\ EffectOK /\ InstallsOK(i)
    BY <1>0, OperationFacts DEF AcceptedInv, TokenOK, RollbackSteps, Servable
  <1>2. journal = NoJournal /\ ~Moved /\ active \in AcceptedOrNone /\ journal' = journal /\ ~Moved'
    <2>1. journal = NoJournal
      BY <1>0, <1>1 DEF InstallsOK
    <2>2. journal' = journal
      BY DEF Rollback, RollbackAside, RollbackRestore, RollbackRestoreFails, RollbackAccept, RollbackUndo,
         RollbackUndoAside, AuditRollback, RollbackClean
    <2> QED BY <1>0, <1>1, <2>1, <2>2 DEF EffectOK, Moved, Statuses
  <1>3. ASSUME NEW pc \in RollbackSteps, Continue("op", pc), EffectOK',
               pc \in {"b_restore", "b_accept", "b_undo", "b_undo_aside"} => i.aside \in AcceptedOrNone
        PROVE  AcceptedInv'
    <2>1. Alone("op") /\ job'["op"].pc = pc /\ job'["op"].aside = i.aside
      BY <1>0, <1>3, OneAtWork
    <2>2. ReturnsOK(job["op"])' /\ InstallsOK(job["op"])'
      BY <1>2, <1>3, <2>1 DEF ReturnsOK, InstallsOK, RollbackSteps
    <2> QED BY <1>0, <1>3, <2>1, <2>2, WorksAlone
  <1>4. ASSUME Stop("op"), EffectOK' PROVE AcceptedInv'
    <2>1. Alone("op") /\ job'["op"].pc = "idle"
      BY <1>0, <1>4, OneAtWork DEF Idle
    <2> QED BY <1>0, <1>4, <2>1, RestIsOK, WorksAlone
  <1>5. CASE RollbackAside
    <2> DEFINE j == [i EXCEPT !.pc = "b_restore", !.aside = active]
    <2>1. job' = [job EXCEPT !["op"] = j] /\ active' = NoTree /\ UNCHANGED <<backup, committed, audit>>
      BY <1>1, <1>5 DEF RollbackAside
    <2>2. j.pc = "b_restore" /\ j.aside = active
      BY <1>1 DEF Jobs
    <2> HIDE DEF j
    <2>3. job'["op"] = j /\ \A x \in Workers \ {"op"} : job'[x] = job[x]
      BY <1>0, <1>1, <2>1
    <2>4. Alone("op")
      BY <1>0, <2>3, WorkerNames DEF AcceptedInv, Alone
    <2>5. EffectOK' /\ ReturnsOK(job["op"])' /\ InstallsOK(job["op"])'
      BY <1>0, <1>1, <1>2, <2>1, <2>2, <2>3 DEF EffectOK, CommittedIsAudited, ReturnsOK, InstallsOK
    <2> QED BY <1>0, <2>4, <2>5, WorksAlone
  <1>6. CASE RollbackRestore
    <2>1. /\ active' = backup[t] /\ backup' = [backup EXCEPT ![t] = NoTree] /\ Continue("op", "b_accept")
          /\ i.pc = "b_restore" /\ UNCHANGED <<committed, audit>>
      BY <1>6 DEF RollbackRestore
    <2>2. EffectOK' /\ i.aside \in AcceptedOrNone
      BY <1>0, <1>1, <2>1 DEF EffectOK, CommittedIsAudited, InstallsOK
    <2> QED BY <1>3, <2>1, <2>2 DEF RollbackSteps
  <1>7. CASE RollbackRestoreFails \/ RollbackUndoAside
    <2>1. /\ active' = i.aside /\ Stop("op") /\ i.pc \in {"b_restore", "b_undo_aside"}
          /\ UNCHANGED <<backup, committed, audit>>
      BY <1>7 DEF RollbackRestoreFails, RollbackUndoAside
    <2>2. EffectOK'
      BY <1>1, <2>1 DEF EffectOK, CommittedIsAudited, InstallsOK
    <2> QED BY <1>4, <2>1, <2>2
  <1>8. ASSUME NEW command \in BOOLEAN, NEW passed \in BOOLEAN, RollbackAccept(command, passed)
        PROVE  AcceptedInv'
    <2>1. PICK pc \in {"b_audit", "b_undo"} : Continue("op", pc)
      BY <1>8 DEF RollbackAccept
    <2>2. i.pc = "b_accept" /\ UNCHANGED <<active, backup, committed, audit>>
      BY <1>8 DEF RollbackAccept
    <2>3. EffectOK' /\ i.aside \in AcceptedOrNone
      BY <1>1, <1>2, <2>2 DEF EffectOK, CommittedIsAudited, InstallsOK
    <2> QED BY <1>3, <2>1, <2>3 DEF RollbackSteps
  <1>9. CASE RollbackUndo
    <2>1. /\ active' = NoTree /\ backup' = [backup EXCEPT ![t] = active] /\ Continue("op", "b_undo_aside")
          /\ i.pc = "b_undo" /\ UNCHANGED <<committed, audit>>
      BY <1>9 DEF RollbackUndo
    <2>2. EffectOK' /\ i.aside \in AcceptedOrNone
      BY <1>0, <1>1, <1>2, <2>1 DEF EffectOK, CommittedIsAudited, InstallsOK
    <2> QED BY <1>3, <2>1, <2>2 DEF RollbackSteps
  <1>10. CASE AuditRollback
    <2>1. /\ audit' = audit \cup {<<"rollback", active>>} /\ committed' = active /\ active # NoTree
          /\ Continue("op", "b_clean") /\ UNCHANGED <<active, backup>>
      BY <1>10 DEF AuditRollback
    <2>2. EffectOK'
      BY <1>1, <1>2, <2>1 DEF EffectOK, CommittedIsAudited, AcceptedOrNone
    <2> QED BY <1>3, <2>1, <2>2 DEF RollbackSteps
  <1>11. CASE RollbackClean
    <2>1. Stop("op") /\ UNCHANGED <<active, backup, committed, audit>>
      BY <1>11 DEF RollbackClean
    <2>2. EffectOK'
      BY <1>1, <1>2, <2>1 DEF EffectOK, CommittedIsAudited
    <2> QED BY <1>4, <2>1, <2>2
  <1> QED BY <1>5, <1>6, <1>7, <1>8, <1>9, <1>10, <1>11 DEF Rollback

LEMMA MigrateAccepted ==
  ASSUME AcceptedInv, [Next]_vars, DatabaseInv', Migrate
  PROVE  AcceptedInv'
  <1> USE DEF Doing, trees, migration
  <1> DEFINE i == job["op"]
  <1>0. i.pc \in MigrateSteps /\ i.pc # "idle" /\ "op" \in Workers /\ MigrateSteps \subseteq Steps
    <2>1. i.pc \in MigrateSteps
      BY DEF Migrate, MigrateRecover, MigratePlan, MigrateProbe, MigrateReceipt, AuditMigration,
         MigrateUnlink, MigrateCommand, MigrateSteps
    <2> QED BY <2>1, WorkerNames DEF MigrateSteps, Steps
  <1>1. InstallsOK(i) /\ i \in Jobs /\ job \in [Workers -> Jobs] /\ EffectOK
    BY OperationFacts DEF AcceptedInv
  <1>2. UNCHANGED <<active, backup, journal, committed>> /\ audit \subseteq audit'
    BY DEF Migrate, MigrateRecover, MigratePlan, MigrateProbe, MigrateReceipt, AuditMigration,
       MigrateUnlink, MigrateCommand
  <1>3. EffectOK'
    BY <1>1, <1>2 DEF EffectOK, CommittedIsAudited, Moved
  <1>4. Stop("op") \/ \E pc \in (MigrateSteps \ {"m_recover"}) \cup {"idle"} : Continue("op", pc)
    <2>1. CASE MigrateRecover
      <3>1. i.then \in {"idle", "m_plan"}
        BY <1>1, <2>1 DEF MigrateRecover, InstallsOK, Jobs
      <3> QED BY <2>1, <3>1 DEF MigrateRecover, MigrateSteps
    <2>2. CASE ~MigrateRecover
      BY <2>2 DEF Migrate, MigratePlan, MigrateProbe, MigrateReceipt, AuditMigration, MigrateUnlink,
         MigrateCommand, MigrateSteps
    <2> QED BY <2>1, <2>2
  <1>5. CASE Stop("op")
    <2>1. Alone("op") /\ job'["op"].pc = "idle"
      BY <1>0, <1>5, OneAtWork DEF Idle
    <2> QED BY <1>0, <1>3, <2>1, RestIsOK, WorksAlone
  <1>6. ASSUME NEW pc \in (MigrateSteps \ {"m_recover"}) \cup {"idle"}, Continue("op", pc)
        PROVE  AcceptedInv'
    <2>1. Alone("op") /\ job'["op"].pc = pc
      BY <1>0, <1>6, OneAtWork DEF Steps
    <2>2. ReturnsOK(job["op"])' /\ InstallsOK(job["op"])'
      BY <2>1 DEF ReturnsOK, InstallsOK, MigrateSteps, RollbackSteps
    <2> QED BY <1>0, <1>3, <2>1, <2>2, WorksAlone
  <1> QED BY <1>4, <1>5, <1>6

LEMMA AcceptedInitially == Init => AcceptedInv
  <1> SUFFICES ASSUME Init PROVE AcceptedInv
    OBVIOUS
  <1> USE DEF Init
  <1>1. DatabaseInv
    BY DatabaseInitially
  <1>2. EffectOK
    BY DEF EffectOK, CommittedIsAudited, AcceptedOrNone
  <1>3. \A w \in Workers : job[w].pc = "idle"
    BY DEF Idle
  <1>4. \A w \in Workers : ReturnsOK(job[w])
    BY <1>3 DEF ReturnsOK
  <1>5. InstallsOK(job["op"])
    BY <1>3, WorkerNames DEF InstallsOK, RollbackSteps
  <1> QED BY <1>1, <1>2, <1>3, <1>4, <1>5, WorkerNames DEF AcceptedInv

LEMMA AcceptedStep == ToolMayOverlap = FALSE /\ AcceptedInv /\ [Next]_vars => AcceptedInv'
  <1> SUFFICES ASSUME ToolMayOverlap = FALSE, AcceptedInv, [Next]_vars PROVE AcceptedInv'
    OBVIOUS
  <1>1. DatabaseInv'
    BY DatabaseStep DEF AcceptedInv
  <1>2. ASSUME NEW w \in Workers, Crash(w) PROVE AcceptedInv'
    <2>1. Alone(w) /\ job'[w].pc = "idle" /\ EffectOK
      BY <1>2, OneAtWork DEF Crash, Doing, Idle
    <2>2. EffectOK'
      BY <1>2, <2>1 DEF Crash, EffectOK, CommittedIsAudited, Moved, trees
    <2> QED BY <1>1, <2>1, <2>2, RestIsOK, WorksAlone
  <1>3. CASE Backup \/ UNCHANGED vars
    <2>1. UNCHANGED <<active, backup, journal, committed, audit, job>>
      BY <1>3 DEF Backup, RestoreDrill, CreateReceipt, ReceiptAge, vars, trees
    <2>2. EffectOK' /\ InstallsOK(job["op"])' /\ \A w \in Workers : ReturnsOK(job[w])'
      BY <2>1 DEF AcceptedInv, EffectOK, CommittedIsAudited, Moved, InstallsOK, ReturnsOK
    <2> QED BY <1>1, <2>1, <2>2 DEF AcceptedInv
  <1>4. ASSUME NEW w \in Workers, Recover(w) PROVE AcceptedInv'
    BY <1>1, <1>4, RecoverAccepted
  <1>5. CASE Update \/ Rollback \/ Migrate
    BY <1>1, <1>5, UpdateAccepted, RollbackAccepted, MigrateAccepted
  <1> QED BY <1>1, <1>2, <1>3, <1>4, <1>5, BeginAccepted DEF Next

\* transactional_release_update.py, run_post_cutover_acceptance and append_event: wherever any
\* operation stops, recoveries and rollbacks included, the release in effect was accepted and
\* audited, and a release that was not accepted is active at rest only while the journal says
\* so. The tool must not run beside an operation: it takes no lock.
THEOREM EffectWasAccepted ==
  ASSUME ToolMayOverlap = FALSE
  PROVE  Spec => [](CommittedIsAccepted /\ ActiveWasAccepted)
  <1>1. AcceptedInv => CommittedIsAccepted /\ ActiveWasAccepted
    <2> SUFFICES ASSUME AcceptedInv PROVE CommittedIsAccepted /\ ActiveWasAccepted
      OBVIOUS
    <2>1. CommittedIsAccepted
      BY DEF AcceptedInv, EffectOK, CommittedIsAccepted, CommittedIsBound
    <2>2. ~(NoJournal.status \in {"ACTIVE_MOVED_TO_BACKUP", "CANDIDATE_PROMOTED"})
      BY DEF NoJournal
    <2> QED BY <2>1, <2>2 DEF AcceptedInv, EffectOK, Moved, ActiveWasAccepted, AcceptedOrNone
  <1>2. AcceptedInv /\ [Next]_vars => AcceptedInv'
    BY AcceptedStep
  <1> QED BY <1>1, <1>2, AcceptedInitially, PTL DEF Spec

-----------------------------------------------------------------------------
(* The operation lock: with one process at a time recovering stale locks    *)
(* and heartbeat writes that end before thread.join's timeout, no crash,    *)
(* reboot or reused pid takes it from a live holder.                        *)

\* The conditions under which the lock is kept; neither can be dropped (README, section 4).
Sheltered == ~SlowHeartbeat /\ \A p, q \in Recoverers : p = q

IInv == LockTypeOK /\ LockInv /\ HolderKeepsLock

\* Typing of every step.
LEMMA TypeStep == LockTypeOK /\ [LockNext]_lockVars => LockTypeOK'
<1> SUFFICES ASSUME LockTypeOK, [LockNext]_lockVars PROVE LockTypeOK'
  OBVIOUS
<1>1. \A p \in Pids : Me(p) \in Tokens /\ Fresh(p) \in Locks /\ Off(p) \in Procs
  BY DEF LockTypeOK, Me, Tokens, Fresh, Locks, Off, Procs, Counters
<1>2. \A p \in Pids : Ends(p) =>
        proc' \in [Pids -> Procs] /\ hb' \in [Pids -> {"idle", "replacing", "error"}]
  BY <1>1 DEF LockTypeOK, Ends
<1>3. \A p \in Pids, pc \in Counters : Goto(p, pc) => proc' \in [Pids -> Procs]
  BY DEF LockTypeOK, Goto, Procs
<1>4. CASE Reboot
  BY <1>1, <1>4 DEF LockTypeOK, Reboot
<1>5. CASE Age
  BY <1>5 DEF LockTypeOK, Age, Locks, Written, NoFile, Empty
<1>6. CASE \E p \in Pids : Step(p)
  <2>1. PICK p \in Pids : Step(p)
    BY <1>6
  <2>2. CASE Start(p)
    BY <2>2, <1>3 DEF LockTypeOK, Start, Counters
  <2>3. CASE Exit(p)
    BY <2>3, <1>2 DEF LockTypeOK, Exit
  <2>4. CASE RecoverJudge(p)
    <3>1. file.token \in Tokens
      BY <2>4 DEF LockTypeOK, RecoverJudge, Locks, Written, NoFile, Empty
    <3> QED BY <2>4, <3>1 DEF LockTypeOK, RecoverJudge, Procs, Counters
  <2>5. CASE RecoverConfirm(p) \/ RecoverUnlink(p)
    BY <2>5, <1>2, <1>3 DEF LockTypeOK, RecoverConfirm, RecoverUnlink, Counters
  <2>6. CASE Create(p) \/ Busy(p) \/ Write(p) \/ WriteFails(p)
    BY <2>6, <1>1, <1>2, <1>3 DEF LockTypeOK, Create, Busy, Write, WriteFails, Counters
  <2>7. CASE HeartbeatRead(p) \/ HeartbeatReplace(p)
    <3>1. \A value \in {"idle", "replacing", "error"} :
            hb' = [hb EXCEPT ![p] = value] => hb' \in [Pids -> {"idle", "replacing", "error"}]
      BY DEF LockTypeOK
    <3>2. CASE HeartbeatRead(p)
      BY <3>1, <3>2 DEF LockTypeOK, HeartbeatRead
    <3>3. CASE HeartbeatReplace(p)
      <4>1. PICK gone \in BOOLEAN :
              /\ file' = IF gone THEN file ELSE Fresh(p)
              /\ hb' = [hb EXCEPT ![p] = IF gone THEN "error" ELSE "idle"]
        BY <3>3 DEF HeartbeatReplace
      <4>2. CASE gone
        BY <4>1, <4>2, <3>1, <3>3 DEF LockTypeOK, HeartbeatReplace
      <4>3. CASE ~gone
        BY <4>1, <4>3, <3>1, <3>3, <1>1 DEF LockTypeOK, HeartbeatReplace
      <4> QED BY <4>2, <4>3
    <3> QED BY <2>7, <3>2, <3>3
  <2>8. CASE \E failed \in BOOLEAN : Leave(p, failed)
    <3>1. PICK failed \in BOOLEAN : Leave(p, failed)
      BY <2>8
    <3>2. [proc[p] EXCEPT !.pc = "joining", !.failed = failed] \in Procs
      BY DEF LockTypeOK, Procs, Counters
    <3>3. proc' = [proc EXCEPT ![p] = [proc[p] EXCEPT !.pc = "joining", !.failed = failed]]
      BY <3>1 DEF Leave
    <3>4. UNCHANGED <<file, hb, run, boot>>
      BY <3>1 DEF Leave
    <3> QED BY <3>2, <3>3, <3>4 DEF LockTypeOK
  <2>9. CASE Join(p) \/ ReleaseCheck(p) \/ ReleaseUnlink(p)
    BY <2>9, <1>2, <1>3 DEF LockTypeOK, Join, ReleaseCheck, ReleaseUnlink, Counters
  <2> QED BY <2>1, <2>2, <2>3, <2>4, <2>5, <2>6, <2>7, <2>8, <2>9 DEF Step
<1>7. CASE UNCHANGED lockVars
  BY <1>7 DEF LockTypeOK, lockVars
<1> QED BY <1>4, <1>5, <1>6, <1>7 DEF LockNext

\* Whoever works excludes those who create and those who are about to unlink.
LEMMA Exclusion ==
  ASSUME Sheltered, IInv, NEW p \in Pids, NEW q \in Pids
  PROVE  /\ InBody(p) /\ InBody(q) => p = q
         /\ InBody(p) => ~At(q, "writing") /\ ~At(q, "confirmed")
         /\ At(p, "confirmed") /\ At(q, "confirmed") => p = q
         /\ At(p, "confirmed") => ~At(q, "writing")
<1>1. InBody(p) /\ InBody(q) => p = q
  <2>1. Me(p).pid = p /\ Me(q).pid = q
    BY DEF Me
  <2> QED BY <2>1 DEF IInv, HolderKeepsLock, Owned
<1>2. ASSUME InBody(p) PROVE ~At(q, "writing") /\ ~At(q, "confirmed")
  <2>1. Written /\ file.token = Me(p)
    BY <1>2 DEF IInv, HolderKeepsLock, Owned
  <2>2. OwnerAlive(Me(p))
    BY <1>2 DEF OwnerAlive, Me, InBody, At
  <2>3. ~At(q, "confirmed")
    BY <2>1, <2>2 DEF IInv, LockInv, SeenIsDead, ConfirmedInPlace, At
  <2>4. ~At(q, "writing")
    BY <2>1 DEF IInv, LockInv, CreatorWrites, Written, Empty
  <2> QED BY <2>3, <2>4
<1>3. At(p, "confirmed") /\ At(q, "confirmed") => p = q
  BY DEF IInv, LockInv, SeenIsDead, Sheltered, At
<1>4. At(p, "confirmed") => ~At(q, "writing")
  BY DEF IInv, LockInv, ConfirmedInPlace, CreatorWrites, Written, Empty
<1> QED BY <1>1, <1>2, <1>3, <1>4

\* No step rolls a counter back, and only a new process of the pid leaves "off".
LEMMA Advance ==
  ASSUME LockTypeOK, [LockNext]_lockVars
  PROVE  /\ boot' >= boot
         /\ \A p \in Pids : run'[p] >= run[p]
         /\ \A p \in Pids : At(p, "off") /\ run'[p] = run[p] => At(p, "off")'
<1>1. CASE Reboot
  BY <1>1 DEF LockTypeOK, Reboot, At, Off
<1>2. CASE Age \/ UNCHANGED lockVars
  BY <1>2 DEF LockTypeOK, Age, At, lockVars
<1>3. ASSUME NEW p \in Pids, Start(p)
      PROVE  /\ boot' >= boot
             /\ \A q \in Pids : run'[q] >= run[q]
             /\ \A q \in Pids : At(q, "off") /\ run'[q] = run[q] => At(q, "off")'
  BY <1>3 DEF LockTypeOK, Start, At, Goto
<1>4. ASSUME NEW p \in Pids, Step(p), ~Start(p)
      PROVE  /\ boot' = boot /\ run' = run
             /\ \A q \in Pids : q # p => proc'[q] = proc[q]
             /\ At(p, "off") => At(p, "off")'
  BY <1>4 DEF LockTypeOK, Step, Exit, RecoverJudge, RecoverConfirm, RecoverUnlink, Create, Busy,
     Write, WriteFails, HeartbeatRead, HeartbeatReplace, Leave, Join, ReleaseCheck,
     ReleaseUnlink, At, Goto, Ends, Off
<1> QED BY <1>1, <1>2, <1>3, <1>4 DEF LockNext, LockTypeOK, At

\* So what a recovery has seen dead stays dead.
LEMMA DeadStaysDead ==
  ASSUME LockTypeOK, [LockNext]_lockVars, NEW token \in Tokens, Past(token)
  PROVE  Past(token)' /\ (~OwnerAlive(token) => ~OwnerAlive(token)')
<1>1. token.pid \in Pids /\ token.run \in Nat /\ token.boot \in Nat
  BY DEF Tokens
<1>2. run \in [Pids -> Nat] /\ run' \in [Pids -> Nat] /\ boot \in Nat /\ boot' \in Nat
  BY TypeStep DEF LockTypeOK
<1> QED BY <1>1, <1>2, Advance DEF Past, OwnerAlive

LEMMA SeenIsDeadStep == ASSUME IInv, [LockNext]_lockVars PROVE SeenIsDead'
<1> SUFFICES ASSUME NEW p \in Pids, proc'[p].pc \in {"judged", "confirmed"},
                    NEW token, token = proc'[p].seen
             PROVE  p \in Recoverers /\ Past(token)' /\ ~OwnerAlive(token)'
  BY DEF SeenIsDead, Past, OwnerAlive, At
<1>1. \/ proc[p].pc \in {"judged", "confirmed"} /\ token = proc[p].seen
      \/ RecoverJudge(p)
  <2>1. CASE Reboot
    BY <2>1 DEF Reboot, Off
  <2>2. CASE Age \/ UNCHANGED lockVars
    BY <2>2 DEF Age, lockVars
  <2>3. ASSUME NEW q \in Pids, Step(q), ~RecoverJudge(q), q # p PROVE proc'[p] = proc[p]
    BY <2>3 DEF IInv, LockTypeOK, Step, Start, Exit, RecoverConfirm, RecoverUnlink, Create, Busy,
       Write, WriteFails, HeartbeatRead, HeartbeatReplace, Leave, Join, ReleaseCheck,
       ReleaseUnlink, Goto, Ends
  <2>4. ASSUME NEW q \in Pids, RecoverJudge(q), q # p PROVE proc'[p] = proc[p]
    BY <2>4 DEF IInv, LockTypeOK, RecoverJudge
  <2>5. ASSUME Step(p), ~RecoverJudge(p)
        PROVE  proc[p].pc \in {"judged", "confirmed"} /\ token = proc[p].seen
    <3>1. CASE RecoverConfirm(p)
      BY <3>1 DEF IInv, LockTypeOK, Procs, RecoverConfirm, At, Goto, Ends, Off
    <3>2. CASE HeartbeatRead(p) \/ HeartbeatReplace(p)
      BY <3>2 DEF HeartbeatRead, HeartbeatReplace
    <3>3. CASE Start(p) \/ Exit(p) \/ RecoverUnlink(p) \/ Create(p) \/ Busy(p) \/ Write(p)
                 \/ WriteFails(p) \/ Join(p) \/ ReleaseCheck(p) \/ ReleaseUnlink(p)
      BY <3>3 DEF IInv, LockTypeOK, Procs, Start, Exit, RecoverUnlink, Create, Busy, Write, WriteFails,
         Join, ReleaseCheck, ReleaseUnlink, Goto, Ends, Off
    <3>4. CASE \E failed \in BOOLEAN : Leave(p, failed)
      BY <3>4 DEF IInv, LockTypeOK, Procs, Leave
    <3> QED BY <2>5, <3>1, <3>2, <3>3, <3>4 DEF Step
  <2> QED BY <2>1, <2>2, <2>3, <2>4, <2>5 DEF LockNext
<1>2. CASE proc[p].pc \in {"judged", "confirmed"} /\ token = proc[p].seen
  BY <1>2, DeadStaysDead DEF IInv, LockTypeOK, Procs, LockInv, SeenIsDead
<1>3. CASE RecoverJudge(p)
  <2>1. file.token \in Tokens
    BY <1>3 DEF IInv, LockTypeOK, RecoverJudge, Locks, Written, NoFile, Empty
  <2>2. token = file.token /\ ~OwnerAlive(file.token) /\ Past(file.token) /\ p \in Recoverers
    BY <1>3 DEF IInv, LockTypeOK, Procs, LockInv, StampsArePast, RecoverJudge
  <2> QED BY <2>1, <2>2, DeadStaysDead DEF IInv
<1> QED BY <1>1, <1>2, <1>3

\* The parts of LockInv that speak of the file, and what they protect.
FileInv == StampsArePast /\ HeartbeatInBody /\ CreatorWrites /\ ConfirmedInPlace /\ HolderKeepsLock

\* A step that keeps the file's token, and puts nobody in a place that claims the
\* file, keeps the claims.
LEMMA KeepsFile ==
  ASSUME IInv, [LockNext]_lockVars,
         file' = file \/ (Written /\ Written' /\ file'.token = file.token),
         boot' = boot,
         \A p \in Pids : hb'[p] = "replacing" => proc'[p].pc \in {"body", "joining"},
         \A p \in Pids : At(p, "writing")' => At(p, "writing"),
         \A p \in Pids : InBody(p)' => InBody(p) /\ run'[p] = run[p],
         \A p \in Pids : At(p, "confirmed")' =>
            At(p, "confirmed") /\ proc'[p].seen = proc[p].seen
  PROVE  FileInv'
<1>1. Written' => Written /\ file'.token = file.token
  BY DEF Written
<1>2. HeartbeatInBody'
  BY DEF HeartbeatInBody
<1>3. CreatorWrites'
  BY DEF IInv, LockInv, CreatorWrites, Written, Empty
<1>4. ConfirmedInPlace'
  BY <1>1 DEF IInv, LockInv, ConfirmedInPlace, Written
<1>5. HolderKeepsLock'
  BY <1>1 DEF IInv, HolderKeepsLock, Owned, Me, Written
<1>6. StampsArePast'
  <2> SUFFICES ASSUME Written', NEW token, token = file'.token PROVE Past(token)'
    BY DEF StampsArePast, Past
  <2>1. Written /\ token = file.token /\ token \in Tokens
    BY <1>1 DEF IInv, LockTypeOK, Locks, Written, NoFile, Empty
  <2> QED BY <2>1, DeadStaysDead DEF IInv, LockInv, StampsArePast
<1> QED BY <1>2, <1>3, <1>4, <1>5, <1>6 DEF FileInv

\* Every step preserves the claims on the file.
LEMMA FileStep == ASSUME Sheltered, IInv, [LockNext]_lockVars PROVE FileInv'
<1>1. CASE Reboot
  <2>1. \A p \in Pids : proc'[p].pc = "off" /\ hb'[p] = "idle"
    BY <1>1 DEF Reboot, Off
  <2>2. StampsArePast'
    BY <1>1 DEF IInv, LockTypeOK, Locks, Tokens, LockInv, StampsArePast, Past, Written, Reboot, NoFile, Empty
  <2> QED BY <2>1, <2>2 DEF FileInv, HeartbeatInBody, CreatorWrites, ConfirmedInPlace,
        HolderKeepsLock, InBody, At
<1>2. CASE Age
  <2>1. Written' /\ Written /\ file'.token = file.token
    BY <1>2 DEF IInv, LockTypeOK, Locks, Age, Written, NoFile, Empty
  <2> QED BY <1>2, <2>1, KeepsFile DEF IInv, LockInv, HeartbeatInBody, Age, At, InBody
<1>3. CASE UNCHANGED lockVars
  BY <1>3, KeepsFile DEF lockVars, IInv, LockInv, HeartbeatInBody, At, InBody
<1>4. ASSUME NEW p \in Pids, Step(p) PROVE FileInv'
  <2> USE <1>4
  <2>1. CASE Start(p) \/ Exit(p) \/ Busy(p)
    <3>1. file' = file /\ boot' = boot
      BY <2>1 DEF Start, Exit, Busy
    <3>2. /\ proc'[p].pc \in {"off", "start"} /\ hb'[p] # "replacing"
          /\ \A q \in Pids \ {p} : proc'[q] = proc[q] /\ hb'[q] = hb[q] /\ run'[q] = run[q]
      BY <2>1 DEF IInv, LockTypeOK, Procs, LockInv, HeartbeatInBody, Start, Exit, Busy, At, Goto, Ends, Off
    <3> QED BY <3>1, <3>2, KeepsFile DEF IInv, LockInv, HeartbeatInBody, At, InBody
  <2>2. CASE RecoverJudge(p)
    <3>1. proc'[p].pc = "judged" /\ proc[p].pc = "start" /\ \A q \in Pids \ {p} : proc'[q] = proc[q]
      BY <2>2 DEF IInv, LockTypeOK, Procs, RecoverJudge, At
    <3>2. file' = file /\ boot' = boot /\ hb' = hb /\ run' = run
      BY <2>2 DEF RecoverJudge
    <3> QED BY <3>1, <3>2, KeepsFile DEF IInv, LockInv, HeartbeatInBody, At, InBody
  <2>3. CASE RecoverConfirm(p)
    <3>1. CASE Written /\ file.token = proc[p].seen
      <4>1. /\ proc'[p].pc = "confirmed" /\ proc'[p].seen = proc[p].seen
            /\ proc[p].pc = "judged" /\ \A q \in Pids \ {p} : proc'[q] = proc[q]
        BY <2>3, <3>1 DEF IInv, LockTypeOK, Procs, RecoverConfirm, At, Goto
      <4>2. file' = file /\ boot' = boot /\ hb' = hb /\ run' = run
        BY <2>3, <3>1 DEF RecoverConfirm
      <4> QED BY <3>1, <4>1, <4>2 DEF IInv, LockInv, FileInv, StampsArePast, Past, HeartbeatInBody,
            CreatorWrites, ConfirmedInPlace, HolderKeepsLock, Owned, Me, Written, At, InBody
    <3>2. CASE ~(Written /\ file.token = proc[p].seen)
      <4>1. file' = file /\ boot' = boot /\ run' = run
        BY <2>3 DEF RecoverConfirm
      <4>2. /\ proc'[p].pc = "off" /\ hb'[p] = "idle"
            /\ \A q \in Pids \ {p} : proc'[q] = proc[q] /\ hb'[q] = hb[q]
        BY <2>3, <3>2 DEF IInv, LockTypeOK, RecoverConfirm, Ends, Off
      <4> QED BY <4>1, <4>2, KeepsFile DEF IInv, LockInv, HeartbeatInBody, At, InBody
    <3> QED BY <3>1, <3>2
  <2>4. CASE RecoverUnlink(p)
    <3>1. /\ proc[p].pc = "confirmed" /\ file' = NoFile
          /\ proc'[p].pc \in {"off", "create"} /\ hb'[p] # "replacing"
          /\ \A q \in Pids \ {p} : proc'[q] = proc[q] /\ hb'[q] = hb[q]
      BY <2>4 DEF IInv, LockTypeOK, Procs, LockInv, HeartbeatInBody, RecoverUnlink, At, Goto, Ends, Off
    <3>2. \A q \in Pids : ~InBody(q)' /\ ~At(q, "writing")' /\ ~At(q, "confirmed")'
      BY <3>1, Exclusion DEF At, InBody
    <3> QED BY <3>1, <3>2 DEF IInv, LockInv, FileInv, StampsArePast, HeartbeatInBody,
          CreatorWrites, ConfirmedInPlace, HolderKeepsLock, Written, NoFile
  <2>5. CASE Create(p)
    <3>1. /\ proc[p].pc \in {"start", "create"} /\ file = NoFile /\ file' = Empty
          /\ proc'[p].pc = "writing" /\ \A q \in Pids \ {p} : proc'[q] = proc[q]
          /\ hb' = hb
      BY <2>5 DEF IInv, LockTypeOK, Procs, Create, At, Goto
    <3>2. \A q \in Pids : ~InBody(q) /\ ~At(q, "writing") /\ ~At(q, "confirmed")
      BY <3>1 DEF IInv, LockInv, HolderKeepsLock, Owned, CreatorWrites, ConfirmedInPlace, Written,
         NoFile, Empty
    <3>3. \A q \in Pids : ~InBody(q)' /\ (At(q, "writing")' => q = p) /\ ~At(q, "confirmed")'
      BY <3>1, <3>2 DEF At, InBody
    <3> QED BY <3>1, <3>3 DEF IInv, LockInv, FileInv, StampsArePast, HeartbeatInBody,
          CreatorWrites, ConfirmedInPlace, HolderKeepsLock, Written, Empty
  <2>6. CASE Write(p)
    <3>1. /\ proc[p].pc = "writing" /\ file' = Fresh(p) /\ hb' = hb /\ run' = run /\ boot' = boot
          /\ proc'[p].pc = "body" /\ \A q \in Pids \ {p} : proc'[q] = proc[q]
      BY <2>6 DEF IInv, LockTypeOK, Procs, Write, At, Goto
    <3>2. \A q \in Pids : ~InBody(q) /\ (At(q, "writing") => q = p) /\ ~At(q, "confirmed")
      BY <3>1, Exclusion DEF IInv, LockInv, CreatorWrites, At
    <3>3. /\ Written' /\ file'.token = Me(p)' /\ Past(Me(p))'
          /\ \A q \in Pids : (InBody(q)' => q = p) /\ ~At(q, "writing")' /\ ~At(q, "confirmed")'
      BY <3>1, <3>2 DEF IInv, LockTypeOK, Fresh, Me, Past, Written, At, InBody
    <3> QED BY <3>1, <3>3 DEF IInv, LockInv, FileInv, StampsArePast, Past, HeartbeatInBody,
          CreatorWrites, ConfirmedInPlace, HolderKeepsLock, Owned, Written
  <2>7. CASE WriteFails(p)
    <3>1. /\ proc[p].pc = "writing" /\ file' = NoFile
          /\ proc'[p].pc = "off" /\ hb'[p] = "idle"
          /\ \A q \in Pids \ {p} : proc'[q] = proc[q] /\ hb'[q] = hb[q]
      BY <2>7 DEF IInv, LockTypeOK, WriteFails, At, Ends, Off
    <3>2. \A q \in Pids : ~InBody(q) /\ (At(q, "writing") => q = p) /\ ~At(q, "confirmed")
      BY <3>1, Exclusion DEF IInv, LockInv, CreatorWrites, At
    <3>3. \A q \in Pids : ~InBody(q)' /\ ~At(q, "writing")' /\ ~At(q, "confirmed")'
      BY <3>1, <3>2 DEF At, InBody
    <3> QED BY <3>1, <3>3 DEF IInv, LockInv, FileInv, StampsArePast, HeartbeatInBody,
          CreatorWrites, ConfirmedInPlace, HolderKeepsLock, Written, NoFile
  <2>8. CASE HeartbeatRead(p)
    <3>1. /\ proc[p].pc \in {"body", "joining"} /\ proc' = proc /\ file' = file
          /\ boot' = boot /\ run' = run /\ \A q \in Pids \ {p} : hb'[q] = hb[q]
      BY <2>8 DEF IInv, LockTypeOK, HeartbeatRead, At
    <3> QED BY <3>1, KeepsFile DEF IInv, LockInv, HeartbeatInBody, At, InBody
  <2>9. CASE HeartbeatReplace(p)
    <3>1. hb[p] = "replacing" /\ Owned(p)
      BY <2>9 DEF HeartbeatReplace, IInv, LockInv, HeartbeatInBody, HolderKeepsLock, InBody
    <3>2. file # NoFile
      BY <3>1 DEF Owned, Written, NoFile
    <3>3. /\ file' = Fresh(p) /\ hb' = [hb EXCEPT ![p] = "idle"]
          /\ proc' = proc /\ run' = run /\ boot' = boot
      BY <2>9, <3>2 DEF HeartbeatReplace
    <3>4. Written /\ Written' /\ file'.token = file.token
      BY <3>1, <3>3 DEF Owned, Written, Fresh
    <3>5. \A q \in Pids : hb'[q] = "replacing" => hb[q] = "replacing"
      BY <3>3 DEF IInv, LockTypeOK
    <3> QED BY <3>3, <3>4, <3>5, KeepsFile DEF IInv, LockInv, HeartbeatInBody, At, InBody
  <2>10. CASE \E failed \in BOOLEAN : Leave(p, failed)
    <3>1. /\ proc[p].pc = "body" /\ proc'[p].pc = "joining"
          /\ \A q \in Pids \ {p} : proc'[q] = proc[q]
          /\ file' = file /\ hb' = hb /\ boot' = boot /\ run' = run
      BY <2>10 DEF IInv, LockTypeOK, Procs, Leave, At
    <3> QED BY <3>1, KeepsFile DEF IInv, LockInv, HeartbeatInBody, At, InBody
  <2>11. CASE Join(p) \/ ReleaseCheck(p)
    <3>1. /\ file' = file /\ boot' = boot /\ run' = run
          /\ proc[p].pc \in {"joining", "joined"}
      BY <2>11 DEF Join, ReleaseCheck, At
    <3>2. hb[p] # "replacing"
      BY <2>11 DEF Join, ReleaseCheck, Sheltered, At, IInv, LockInv, HeartbeatInBody
    <3>3. /\ proc'[p].pc \in {"off", "joined", "checked"} /\ hb'[p] # "replacing"
          /\ \A q \in Pids \ {p} : proc'[q] = proc[q] /\ hb'[q] = hb[q]
      BY <2>11, <3>2 DEF IInv, LockTypeOK, Procs, Join, ReleaseCheck, Goto, Ends, Off
    <3> QED BY <3>1, <3>3, KeepsFile DEF IInv, LockInv, HeartbeatInBody, At, InBody
  <2>12. CASE ReleaseUnlink(p)
    <3>1. /\ proc[p].pc = "checked" /\ file' = NoFile /\ hb' = hb
          /\ proc'[p].pc = "exiting" /\ \A q \in Pids \ {p} : proc'[q] = proc[q]
      BY <2>12 DEF IInv, LockTypeOK, Procs, ReleaseUnlink, At, Goto
    <3>2. InBody(p)
      BY <3>1 DEF InBody
    <3>3. \A q \in Pids : (InBody(q) => q = p) /\ ~At(q, "writing") /\ ~At(q, "confirmed")
      BY <3>2, Exclusion
    <3>4. \A q \in Pids : ~InBody(q)' /\ ~At(q, "writing")' /\ ~At(q, "confirmed")'
      BY <3>1, <3>3 DEF At, InBody
    <3> QED BY <3>1, <3>4 DEF IInv, LockInv, FileInv, StampsArePast, HeartbeatInBody,
          CreatorWrites, ConfirmedInPlace, HolderKeepsLock, Written, NoFile
  <2> QED BY <2>1, <2>2, <2>3, <2>4, <2>5, <2>6, <2>7, <2>8, <2>9, <2>10, <2>11, <2>12 DEF Step
<1> QED BY <1>1, <1>2, <1>3, <1>4 DEF LockNext

\* operation_lock: with one recovering process and no heartbeat write that outlasts
\* thread.join, a live holder's lock is never stolen, for any number of processes,
\* reboots and reused pids.
THEOREM LockIsNeverStolen == Sheltered => (LockSpec => []HolderKeepsLock)
<1> SUFFICES ASSUME Sheltered PROVE LockSpec => []HolderKeepsLock
  OBVIOUS
<1>1. LockInit => IInv
  <2> SUFFICES ASSUME LockInit PROVE IInv
    OBVIOUS
  <2>1. \A p \in Pids : [pc |-> "off", seen |-> [pid |-> p, run |-> 0, boot |-> 0],
                         failed |-> FALSE] \in Procs
    BY DEF Procs, Counters, Tokens
  <2>2. LockTypeOK
    BY <2>1 DEF LockInit, LockTypeOK
  <2>3. ~Written /\ \A p \in Pids : proc[p].pc = "off" /\ hb[p] = "idle"
    BY DEF LockInit, Written, NoFile
  <2>4. LockInv /\ HolderKeepsLock
    BY <2>3 DEF LockInv, StampsArePast, HeartbeatInBody, CreatorWrites, SeenIsDead,
       ConfirmedInPlace, HolderKeepsLock, InBody, At
  <2> QED BY <2>2, <2>4 DEF IInv
<1>2. IInv /\ [LockNext]_lockVars => IInv'
  BY TypeStep, SeenIsDeadStep, FileStep DEF IInv, LockInv, FileInv
<1>3. IInv => HolderKeepsLock
  BY DEF IInv
<1> QED BY <1>1, <1>2, <1>3, PTL DEF LockSpec

-----------------------------------------------------------------------------
(* Process trees: a call that has been through terminate_process_tree, or    *)
(* through its SIGKILL, leaves an empty group, and an empty group stays so.  *)

FrameSteps == {"grace", "kill", "done"}
Standing == [alive : BOOLEAN, born : BOOLEAN, group : BOOLEAN, pipe : BOOLEAN]
Places == {"idle", "started", "waiting", "finishing", "timedOut", "cancelled", "draining",
           "discarding", "lastRead", "ended"}
Results == {"none", "returned", "raised", "died"}
Calls == [kind : Kinds, at : Places, result : Results]

\* Once the tree is ended the group is empty: after a call of terminate_process_tree,
\* in what follows the cleanup, and when the call has ended that way.
TreeInv ==
  /\ frames \in Seq(FrameSteps) /\ member \in [Members -> Standing]
  /\ call \in Calls
  /\ call.at = "idle" => frames = <<>>
  /\ (\E k \in 1..Len(frames) : frames[k] = "done") => TreeIsGone
  /\ call.at \in {"draining", "discarding", "lastRead"} => TreeIsGone
  /\ call.at = "ended" /\ ~exposed /\ call.result \in {"raised", "died"} => TreeIsGone
  /\ call.at = "ended" /\ call.kind = "exec" /\ call.result = "returned" => TreeIsGone

\* A step of the processes: the call goes on, and an empty group stays empty.
LEMMA MembersStep ==
  ASSUME TreeInv, UNCHANGED <<call, frames, exposed>>, member' \in [Members -> Standing],
         TreeIsGone => TreeIsGone'
  PROVE  TreeInv'
  BY DEF TreeInv

\* A step of the call: f is the new stack.
LEMMA CallStep ==
  ASSUME TreeInv, NEW f \in Seq(FrameSteps), frames' = f, member' \in [Members -> Standing],
         NEW c \in Calls, call' = c, c.kind = call.kind,
         exposed => exposed', c.at = "idle" => f = <<>>,
         (\E k \in 1..Len(f) : f[k] = "done") => TreeIsGone',
         c.at \in {"draining", "discarding", "lastRead"} => TreeIsGone',
         c.at = "ended" /\ ~exposed' /\ c.result \in {"raised", "died"} => TreeIsGone',
         c.at = "ended" /\ c.kind = "exec" /\ c.result = "returned" => TreeIsGone'
  PROVE  TreeInv'
  BY DEF TreeInv

\* The forms in which the call is changed.
LEMMA CallForms ==
  ASSUME TreeInv
  PROVE  /\ \A at \in Places : Goes(at) => /\ call' \in Calls /\ call'.kind = call.kind
                                           /\ call'.at = at /\ call'.result = call.result
         /\ \A result \in Results :
              CallEnds(result) => /\ call' \in Calls /\ call'.kind = call.kind
                                  /\ call'.at = "ended" /\ call'.result = result
  <1>1. call \in Calls /\ "ended" \in Places
    BY DEF TreeInv, Places
  <1>2. ASSUME NEW at \in Places, NEW result \in Results
        PROVE  LET c == [call EXCEPT !.at = at, !.result = result] IN
               c \in Calls /\ c.kind = call.kind /\ c.at = at /\ c.result = result
    BY <1>1 DEF Calls
  <1>3. ASSUME NEW at \in Places
        PROVE  LET c == [call EXCEPT !.at = at] IN
               c \in Calls /\ c.kind = call.kind /\ c.at = at /\ c.result = call.result
    BY <1>1 DEF Calls
  <1>4. ASSUME NEW at \in Places, Goes(at)
        PROVE  call' \in Calls /\ call'.kind = call.kind /\ call'.at = at /\ call'.result = call.result
    BY <1>3, <1>4 DEF Goes
  <1>5. ASSUME NEW result \in Results, CallEnds(result)
        PROVE  call' \in Calls /\ call'.kind = call.kind /\ call'.at = "ended" /\ call'.result = result
    BY <1>1, <1>2, <1>5 DEF CallEnds
  <1> QED BY <1>4, <1>5

LEMMA TopFrame ==
  ASSUME TreeInv, NEW step \in FrameSteps, frames # <<>>
  PROVE  LET f == [frames EXCEPT ![Len(frames)] = step] IN
         /\ f \in Seq(FrameSteps) /\ Len(f) = Len(frames) /\ f # <<>>
         /\ \A k \in 1..Len(frames) : f[k] = IF k = Len(frames) THEN step ELSE frames[k]
  BY DEF TreeInv

LEMMA FrameForms ==
  /\ <<>> \in Seq(FrameSteps) /\ Len(<<>>) = 0
  /\ <<"grace">> \in Seq(FrameSteps) /\ Len(<<"grace">>) = 1 /\ <<"grace">>[1] = "grace"
  /\ <<"done">> \in Seq(FrameSteps) /\ Len(<<"done">>) = 1 /\ <<"done">>[1] = "done"
  /\ 1 \in 1..1 /\ \A k \in 1..1 : k = 1
  BY DEF FrameSteps

\* A step of the call that leaves no running terminate_process_tree.
LEMMA EmptyStackStep ==
  ASSUME TreeInv, frames' = <<>>, member' \in [Members -> Standing],
         call' \in Calls, exposed => exposed',
         call'.at \in {"draining", "discarding", "lastRead"} => TreeIsGone',
         call'.at = "ended" /\ ~exposed' /\ call'.result \in {"raised", "died"} => TreeIsGone',
         call'.at = "ended" /\ call'.kind = "exec" /\ call'.result = "returned" => TreeIsGone'
  PROVE  TreeInv'
  <1>1. frames' \in Seq(FrameSteps) /\ ~\E k \in 1..Len(frames') : frames'[k] = "done"
    OBVIOUS
  <1> QED BY <1>1 DEF TreeInv

LEMMA ProcessesInv ==
  ASSUME TreeInv,
         \/ \E m \in Members : \E n \in Descendants : Fork(m, n)
         \/ \E m \in Members : ProcessExits(m) \/ LeaveGroup(m) \/ ClosePipe(m)
  PROVE  TreeInv'
  <1>1. ASSUME NEW m \in Members, NEW n \in Descendants, Fork(m, n) PROVE TreeInv'
    <2>1. n \in Members /\ member' = [member EXCEPT ![n] = member[m]]
          /\ UNCHANGED <<call, frames, exposed>>
      BY <1>1 DEF Fork, Members
    <2>2. member' \in [Members -> Standing]
      BY <2>1 DEF TreeInv
    <2>3. TreeIsGone => TreeIsGone'
      BY <2>1 DEF TreeInv, TreeIsGone, InGroup, Alive
    <2> QED BY <2>1, <2>2, <2>3, MembersStep
  <1>2. ASSUME NEW m \in Members, ProcessExits(m) \/ LeaveGroup(m) \/ ClosePipe(m) PROVE TreeInv'
    <2>1. UNCHANGED <<call, frames, exposed>>
      BY <1>2 DEF ProcessExits, LeaveGroup, ClosePipe
    <2>2. PICK r \in Standing : /\ member' = [member EXCEPT ![m] = r]
                                /\ r.alive /\ r.group => InGroup(m)
      <3>1. member[m] \in Standing
        BY DEF TreeInv
      <3>2. CASE ProcessExits(m)
        <4> DEFINE r == [member[m] EXCEPT !.alive = FALSE]
        <4>1. r \in Standing /\ ~r.alive /\ member' = [member EXCEPT ![m] = r]
          BY <3>1, <3>2 DEF ProcessExits, Standing
        <4> QED BY <4>1
      <3>3. CASE LeaveGroup(m)
        <4> DEFINE r == [member[m] EXCEPT !.group = FALSE]
        <4>1. r \in Standing /\ ~r.group /\ member' = [member EXCEPT ![m] = r]
          BY <3>1, <3>3 DEF LeaveGroup, Standing
        <4> QED BY <4>1
      <3>4. CASE ClosePipe(m)
        <4> DEFINE r == [member[m] EXCEPT !.pipe = FALSE]
        <4>1. r \in Standing /\ r.group = member[m].group /\ r.alive = member[m].alive
              /\ member' = [member EXCEPT ![m] = r]
          BY <3>1, <3>4 DEF ClosePipe, Standing
        <4> QED BY <4>1 DEF InGroup, Alive
      <3> QED BY <1>2, <3>2, <3>3, <3>4
    <2>3. member' \in [Members -> Standing]
      BY <2>2 DEF TreeInv
    <2>4. TreeIsGone => TreeIsGone'
      BY <2>2 DEF TreeInv, TreeIsGone, InGroup, Alive
    <2> QED BY <2>1, <2>3, <2>4, MembersStep
  <1> QED BY <1>1, <1>2

\* terminate_process_tree.
LEMMA TerminateInv ==
  ASSUME TreeInv, GroupGone \/ GraceOver \/ KillGroup PROVE TreeInv'
  <1>1. frames # <<>> /\ UNCHANGED <<call, exposed>>
    BY DEF GroupGone, GraceOver, KillGroup, Running
  <1>2. PICK step \in FrameSteps : /\ frames' = [frames EXCEPT ![Len(frames)] = step]
                                   /\ step = "done" => TreeIsGone'
                                   /\ TreeIsGone => TreeIsGone'
                                   /\ member' \in [Members -> Standing]
    <2>1. CASE GroupGone
      BY <2>1 DEF GroupGone, FrameSteps, TreeIsGone, InGroup, Alive, TreeInv
    <2>2. CASE GraceOver
      BY <2>2 DEF GraceOver, FrameSteps, TreeIsGone, InGroup, Alive, TreeInv
    <2>3. CASE KillGroup
      <3>1. \A m \in Members : member[m] \in Standing
        BY DEF TreeInv
      <3>2. \A m \in Members : /\ [member[m] EXCEPT !.alive = Alive(m) /\ ~InGroup(m)] \in Standing
                               /\ member'[m].alive => Alive(m) /\ ~InGroup(m)
                               /\ member'[m].group = member[m].group
        BY <2>3, <3>1 DEF KillGroup, Standing, Alive, InGroup
      <3>3. TreeIsGone'
        BY <3>2 DEF TreeIsGone, InGroup, Alive
      <3>4. member' \in [Members -> Standing]
        BY <2>3, <3>2 DEF KillGroup
      <3> QED BY <2>3, <3>3, <3>4 DEF KillGroup, FrameSteps
    <2> QED BY <2>1, <2>2, <2>3
  <1> DEFINE f == [frames EXCEPT ![Len(frames)] = step]
  <1>3. f \in Seq(FrameSteps) /\ Len(f) = Len(frames) /\ f # <<>>
        /\ \A k \in 1..Len(frames) : f[k] = IF k = Len(frames) THEN step ELSE frames[k]
    BY <1>1, TopFrame
  <1>4. frames' = f
    BY <1>2
  <1> HIDE DEF f
  <1>5. (\E k \in 1..Len(f) : f[k] = "done") => TreeIsGone'
    BY <1>2, <1>3 DEF TreeInv
  <1> QED BY <1>1, <1>2, <1>3, <1>4, <1>5 DEF TreeInv

\* The handlers.
LEMMA SignalInv ==
  ASSUME TreeInv, SignalArrives \/ HandlerEnds \/ KeyboardInterrupt PROVE TreeInv'
  <1>1. UNCHANGED member /\ (TreeIsGone => TreeIsGone') /\ member' \in [Members -> Standing]
    BY DEF SignalArrives, HandlerEnds, KeyboardInterrupt, TreeIsGone, InGroup, Alive, TreeInv
  <1>2. CASE SignalArrives
    <2>1. exposed' = (exposed \/ (~Guarded /\ previous # "ignore")) /\ call.at # "idle"
      BY <1>2 DEF SignalArrives, CallAt
    <2>2. CASE Guarded
      <3>1. frames' = Append(frames, "grace") /\ UNCHANGED call /\ (exposed => exposed')
        BY <1>2, <2>1, <2>2 DEF SignalArrives, Enter
      <3>2. frames' \in Seq(FrameSteps) /\ Len(frames') = Len(frames) + 1
            /\ frames'[Len(frames) + 1] = "grace"
            /\ \A k \in 1..Len(frames) : frames'[k] = frames[k]
        BY <3>1 DEF TreeInv, FrameSteps
      <3>3. (\E k \in 1..Len(frames') : frames'[k] = "done") => TreeIsGone'
        BY <1>1, <3>2 DEF TreeInv
      <3> QED BY <1>1, <2>1, <3>1, <3>2, <3>3 DEF TreeInv
    <2>3. CASE ~Guarded /\ previous = "ignore"
      BY <1>1, <1>2, <2>1, <2>3 DEF SignalArrives, TreeInv
    <2>4. CASE ~Guarded /\ previous # "ignore"
      <3>1. frames' = <<>> /\ exposed'
        BY <1>2, <2>1, <2>4 DEF SignalArrives
      <3>2. CallEnds("died") \/ CallEnds("raised")
        BY <1>2, <2>4 DEF SignalArrives
      <3>3. call' \in Calls /\ call'.kind = call.kind /\ call'.at = "ended" /\ call'.result # "returned"
        BY <3>2, CallForms DEF Results
      <3> QED BY <1>1, <3>1, <3>3, EmptyStackStep
    <2> QED BY <2>2, <2>3, <2>4
  <1>3. CASE HandlerEnds
    <2>1. TreeIsGone /\ frames # <<>> /\ UNCHANGED exposed
      <3>1. frames # <<>> /\ frames[Len(frames)] = "done" /\ UNCHANGED exposed
        BY <1>3 DEF HandlerEnds, Running
      <3>2. Len(frames) \in 1..Len(frames)
        BY <3>1 DEF TreeInv
      <3> QED BY <3>1, <3>2 DEF TreeInv
    <2>2. CASE previous = "ignore"
      <3>1. frames' = SubSeq(frames, 1, Len(frames) - 1) /\ UNCHANGED call
        BY <1>3, <2>2 DEF HandlerEnds
      <3>2. frames' \in Seq(FrameSteps)
        BY <2>1, <3>1 DEF TreeInv
      <3>3. call.at # "idle"
        BY <2>1 DEF TreeInv
      <3> QED BY <1>1, <2>1, <3>1, <3>2, <3>3 DEF TreeInv
    <2>3. CASE previous = "default"
      <3>1. CallEnds("died") /\ frames' = <<>>
        BY <1>3, <2>3 DEF HandlerEnds
      <3> QED BY <1>1, <2>1, <3>1, CallForms, FrameForms, CallStep DEF Places, Results
    <2>4. CASE previous # "default" /\ previous # "ignore"
      <3>1. Goes("cancelled") /\ frames' = <<"grace">>
        BY <1>3, <2>4 DEF HandlerEnds
      <3> QED BY <1>1, <2>1, <3>1, CallForms, FrameForms, CallStep DEF Places, Results
    <2> QED BY <2>2, <2>3, <2>4
  <1>4. CASE KeyboardInterrupt
    <2>1. exposed' = (exposed \/ ~Guarded)
      BY <1>4 DEF KeyboardInterrupt
    <2>2. CASE Guarded
      <3>1. Goes("cancelled") /\ frames' = <<"grace">>
        BY <1>4, <2>2 DEF KeyboardInterrupt, Raises
      <3> QED BY <1>1, <2>1, <3>1, CallForms, FrameForms, CallStep DEF Places, Results
    <2>3. CASE ~Guarded
      <3>1. CallEnds("raised") /\ frames' = <<>>
        BY <1>4, <2>3 DEF KeyboardInterrupt, Raises
      <3>2. call' \in Calls /\ call'.kind = call.kind /\ call'.at = "ended" /\ call'.result # "returned"
        BY <3>1, CallForms DEF Results
      <3> QED BY <1>1, <2>1, <2>3, <3>1, <3>2, EmptyStackStep
    <2> QED BY <2>2, <2>3
  <1> QED BY <1>2, <1>3, <1>4

\* The call's own steps.
LEMMA DoneIsGone ==
  ASSUME TreeInv, frames = <<"done">> PROVE TreeIsGone
  BY FrameForms DEF TreeInv

LEMMA CallBegins ==
  ASSUME TreeInv, StartGroup \/ InstallGuard PROVE TreeInv'
  <1>1. CASE StartGroup
    <2>1. Goes("started") /\ frames = <<>> /\ frames' = <<>> /\ UNCHANGED exposed
      BY <1>1 DEF StartGroup, CallAt, TreeInv
    <2>2. [alive |-> TRUE, born |-> TRUE, group |-> TRUE, pipe |-> call.kind # "exec"] \in Standing
      BY DEF Standing
    <2>3. member' \in [Members -> Standing]
      BY <1>1, <2>2 DEF StartGroup, TreeInv
    <2>4. call' \in Calls /\ call'.kind = call.kind /\ call'.at = "started"
      BY <2>1, CallForms DEF Places
    <2> QED BY <2>1, <2>3, <2>4, EmptyStackStep
  <1>2. CASE InstallGuard
    <2>1. /\ Goes("waiting") /\ UNCHANGED <<frames, exposed, member>>
          /\ member' \in [Members -> Standing] /\ (TreeIsGone => TreeIsGone')
      BY <1>2 DEF InstallGuard, TreeInv, TreeIsGone, InGroup, Alive
    <2>2. call' \in Calls /\ call'.at = "waiting"
      BY <2>1, CallForms DEF Places
    <2> QED BY <2>1, <2>2 DEF TreeInv
  <1> QED BY <1>1, <1>2

LEMMA CallGoesOn ==
  ASSUME TreeInv, CommunicateReturns \/ TimesOut \/ LeaderExits \/ LockLost PROVE TreeInv'
  <1>1. UNCHANGED <<member, exposed>> /\ member' \in [Members -> Standing]
    BY DEF CommunicateReturns, TimesOut, LeaderExits, LockLost, TreeInv
  <1>2. CASE CommunicateReturns
    <2>1. CallEnds("returned") /\ call.kind # "exec" /\ frames' = <<>>
      BY <1>2 DEF CommunicateReturns
    <2>2. /\ call' \in Calls /\ call'.kind = call.kind /\ call'.at = "ended"
          /\ call'.result = "returned"
      BY <2>1, CallForms DEF Results
    <2> QED BY <1>1, <2>1, <2>2, EmptyStackStep
  <1>3. CASE TimesOut
    <2>1. Goes("timedOut") /\ frames' = <<"grace">>
      BY <1>3 DEF TimesOut, Enter
    <2> QED BY <1>1, <2>1, CallForms, FrameForms, CallStep DEF Places
  <1>4. CASE LeaderExits
    <2>1. Goes("finishing") /\ frames' = <<"grace">>
      BY <1>4 DEF LeaderExits, Enter
    <2> QED BY <1>1, <2>1, CallForms, FrameForms, CallStep DEF Places
  <1>5. CASE LockLost
    <2>1. Goes("cancelled") /\ frames' = <<"grace">>
      BY <1>5 DEF LockLost, Raises, Guarded
    <2> QED BY <1>1, <2>1, CallForms, FrameForms, CallStep DEF Places
  <1> QED BY <1>2, <1>3, <1>4, <1>5

LEMMA CallIsOver ==
  ASSUME TreeInv,
         ExecReturns \/ CleanupEnds \/ DrainReturns \/ SecondKillEnds \/ LastReadTimesOut
  PROVE  TreeInv'
  <1>1. UNCHANGED <<member, exposed>> /\ member' \in [Members -> Standing]
    BY DEF ExecReturns, CleanupEnds, DrainReturns, SecondKillEnds, LastReadTimesOut, TreeInv
  <1>2. TreeIsGone
    BY DoneIsGone DEF ExecReturns, CleanupEnds, DrainReturns, SecondKillEnds, LastReadTimesOut,
       CallAt, TreeInv
  <1>3. TreeIsGone'
    BY <1>1, <1>2 DEF TreeIsGone, InGroup, Alive
  <1>4. frames' \in Seq(FrameSteps)
    BY FrameForms DEF ExecReturns, CleanupEnds, DrainReturns, SecondKillEnds, LastReadTimesOut,
       TreeInv
  <1>5. (\E at \in {"draining", "discarding", "lastRead"} : Goes(at))
        \/ (\E result \in {"returned", "raised"} : CallEnds(result))
    BY DEF ExecReturns, CleanupEnds, DrainReturns, SecondKillEnds, LastReadTimesOut
  <1>6. call' \in Calls /\ call'.kind = call.kind /\ call'.at # "idle"
    BY <1>5, CallForms DEF Places, Results
  <1> QED BY <1>1, <1>3, <1>4, <1>6, CallStep

LEMMA DrainTimesOutInv ==
  ASSUME TreeInv, DrainTimesOut PROVE TreeInv'
  <1>1. TreeIsGone /\ UNCHANGED exposed /\ frames = <<>> /\ call.at \in {"draining", "discarding"}
    BY DEF DrainTimesOut, CallAt, TreeInv
  <1>2. CASE call.kind = "split"
    <2>1. frames' = <<"kill">> /\ UNCHANGED <<call, member>>
      BY <1>1, <1>2 DEF DrainTimesOut, Enter
    <2>2. <<"kill">> \in Seq(FrameSteps)
      BY DEF FrameSteps
    <2>3. TreeIsGone' /\ member' \in [Members -> Standing]
      BY <1>1, <2>1 DEF TreeIsGone, InGroup, Alive, TreeInv
    <2>4. call \in Calls /\ call.at # "idle"
      BY <1>1 DEF TreeInv
    <2> QED BY <1>1, <2>1, <2>2, <2>3, <2>4, CallStep
  <1>3. CASE call.kind # "split"
    <2>1. frames' = <<>> /\ (Goes("lastRead") \/ CallEnds("raised"))
      BY <1>1, <1>3 DEF DrainTimesOut
    <2>2. Leader \in Members /\ member' = [member EXCEPT ![Leader].alive = FALSE]
      BY <1>3 DEF DrainTimesOut, Members
    <2> DEFINE r == [member[Leader] EXCEPT !.alive = FALSE]
    <2>3. r \in Standing /\ ~r.alive /\ member' = [member EXCEPT ![Leader] = r]
      BY <2>2 DEF TreeInv, Standing
    <2> HIDE DEF r
    <2>4. TreeIsGone' /\ member' \in [Members -> Standing]
      BY <1>1, <2>2, <2>3 DEF TreeIsGone, InGroup, Alive, TreeInv
    <2>5. call' \in Calls /\ call'.kind = call.kind /\ call'.at # "idle"
      BY <2>1, CallForms DEF Places, Results
    <2> QED BY <1>1, <2>1, <2>4, <2>5, FrameForms, CallStep
  <1> QED BY <1>2, <1>3

\* bounded_subprocess.py and operation_lock_exec.py: whatever the command forks, however
\* many signals nest and whenever processes exit, a call that gives up leaves no process
\* of its group (unless a signal came where no guard is), the platform lock is released
\* with nothing of the deployment left, and the unbounded last read waits for nobody of
\* the group.  For every set of descendants and every number of signals.
THEOREM TreeIsEnded == ProcessSpec => []CallEndsItsTree
<1>1. ProcessInit => TreeInv
  <2> SUFFICES ASSUME ProcessInit PROVE TreeInv
    OBVIOUS
  <2>1. Unborn \in Standing /\ ~Unborn.alive
    BY DEF Unborn, Standing
  <2>2. member \in [Members -> Standing] /\ TreeIsGone
    BY <2>1 DEF ProcessInit, TreeIsGone, InGroup, Alive
  <2>3. call \in Calls /\ call.at = "idle" /\ frames = <<>>
    BY DEF ProcessInit, Calls, Places, Results
  <2> QED BY <2>2, <2>3, FrameForms DEF TreeInv
<1>2. TreeInv /\ [ProcessNext]_processVars => TreeInv'
  <2> SUFFICES ASSUME TreeInv, [ProcessNext]_processVars PROVE TreeInv'
    OBVIOUS
  <2>1. CASE UNCHANGED processVars
    <3>1. UNCHANGED <<member, call, frames, exposed>> /\ (TreeIsGone => TreeIsGone')
      BY <2>1 DEF processVars, TreeIsGone, InGroup, Alive
    <3> QED BY <3>1 DEF TreeInv
  <2>2. CASE ProcessNext
    BY <2>2, ProcessesInv, TerminateInv, SignalInv, CallBegins, CallGoesOn, CallIsOver,
       DrainTimesOutInv DEF ProcessNext
  <2> QED BY <2>1, <2>2
<1>3. TreeInv => CallEndsItsTree
  BY DEF TreeInv, CallEndsItsTree, CancelledLeavesNoTree, LockCoversTree, WaitsOnlyForEscaped, CallAt
<1> QED BY <1>1, <1>2, <1>3, PTL DEF ProcessSpec

-----------------------------------------------------------------------------
(* Local test evidence.  A data file that was replaced never comes back, so  *)
(* a report that matches the files in place was combined from them.          *)

ShardRows == [run : Nat, git : Commits, passed : BOOLEAN, files : SUBSET Nat,
              tested : Commits, moved : BOOLEAN, log : Nat, data : Nat]
RowMaps == [Shards -> {None} \cup ShardRows]
Reports == {NoReport} \cup [Shards -> Nat]
ShardFiles == [log : Nat, data : Nat, manifest : {None} \cup ShardRows]
ShardRuns == [at : {"testing", "logging", "recording"}, shard : Shards, run : Nat,
              tested : Commits, files : SUBSET Nat, moved : BOOLEAN, passed : BOOLEAN,
              git : {None} \cup Commits]
MergeRuns == [at : {"identify", "read", "hash", "combine", "write"}, expected : SUBSET Nat,
              git : {None} \cup Commits, shard : Shards, ok : BOOLEAN, covered : SUBSET Nat,
              count : Nat, shards : RowMaps, report : Reports]
MergedDocs == [git : {None} \cup Commits, ok : BOOLEAN, count : Nat, shards : RowMaps,
               report : Reports]
Collections == [id : Nat, of : Commits]
Inventories == [git : Commits, count : Nat, moved : BOOLEAN,
                collection : {None} \cup Collections, regression : {None} \cup MergedDocs]
Countings == [at : {"collecting", "comparing", "recording"}, id : Nat, git : Commits,
              collected : {None} \cup Commits, moved : BOOLEAN]

LocalTypeOK ==
  /\ checkout \in Commits
  /\ shardDisk \in [Shards -> ShardFiles]
  /\ merged \in [manifest : {None} \cup MergedDocs, report : Reports]
  /\ runner \in [Runners -> {NoCommand} \cup ShardRuns]
  /\ merge \in {NoCommand} \cup MergeRuns
  /\ inventory \in [collection : {None} \cup Collections, record : {None} \cup Inventories]
  /\ counting \in {NoCommand} \cup Countings
  /\ spent \in [runs : Nat, checkouts : Nat, merges : Nat, inventories : Nat]

\* The files of a shard are those of the commit it was tested on, which is the one it
\* names unless a checkout came under the run.
OfCommit(row, s) ==
  /\ row.files = SelectShard(Discover(row.tested), s)
  /\ ~row.moved => row.git = row.tested

RunnerOK(j) ==
  /\ j.files = SelectShard(Discover(j.tested), j.shard)
  /\ j.at = "testing" /\ ~j.moved => j.tested = checkout
  /\ j.at # "testing" => j.git \in Commits /\ (~j.moved => j.git = j.tested)

TestedInv ==
  /\ \A s \in Shards : shardDisk[s].manifest # None => OfCommit(shardDisk[s].manifest, s)
  /\ \A r \in Runners : runner[r] # NoCommand => RunnerOK(runner[r])

\* The inventory names the collection it was made from.
CountedInv ==
  /\ counting # NoCommand =>
       /\ counting.at = "collecting" /\ ~counting.moved => counting.git = checkout
       /\ counting.at # "collecting" => /\ counting.collected \in Commits
                                        /\ ~counting.moved => counting.git = counting.collected
       /\ counting.at = "recording" => inventory.collection # None
                                       /\ inventory.collection.of = counting.collected
  /\ inventory.record # None =>
       /\ inventory.record.collection # None
       /\ ~inventory.record.moved => inventory.record.collection.of = inventory.record.git

\* The runs whose data file may still be written.
Unused(d) ==
  d > spent.runs \/ \E r \in Runners : runner[r].at = "testing" /\ runner[r].run = d

Avoids(rows, d) == \A s \in Shards : rows[s] # None => rows[s].data # d

\* Nothing names the data file of run d.
Unnamed(d) ==
  /\ \A s \in Shards : shardDisk[s].data # d
  /\ \A s \in Shards : shardDisk[s].manifest # None => shardDisk[s].manifest.data # d
  /\ merge # NoCommand => Avoids(merge.shards, d)
  /\ merged.manifest # None => Avoids(merged.manifest.shards, d)

TestersInv ==
  /\ \A r \in Runners : runner[r].at = "testing" => runner[r].run \in 1..spent.runs
  /\ \A r, q \in Runners : runner[r].at = "testing" /\ runner[q].at = "testing"
                             /\ runner[r].run = runner[q].run => r = q

UnnamedInv == \A d \in Nat : Unused(d) => Unnamed(d)

\* Where a row's data file is in place, it is the one the report was combined from.
ReportFor(rows, report, disk) ==
  report # NoReport =>
    \A s \in Shards : rows[s] # None /\ rows[s].data # NoRun
                        /\ rows[s].data = disk[s].data => report[s] = rows[s].data

ReportOK(rows, report) == ReportFor(rows, report, shardDisk)

ReportInv ==
  /\ merge # NoCommand => /\ ReportOK(merge.shards, merge.report)
                          /\ merge.at # "write" => merge.report = NoReport
  /\ merged.manifest # None => ReportOK(merged.manifest.shards, merged.manifest.report)

LocalInv == LocalTypeOK /\ TestedInv /\ CountedInv /\ TestersInv /\ UnnamedInv
            /\ ReportInv

LEMMA NoCommandIsIdle ==
  /\ NoCommand.at = "idle"
  /\ \A x \in ShardRuns : x.at \in {"testing", "logging", "recording"} /\ x # NoCommand
  /\ \A x \in MergeRuns : x # NoCommand /\ x.at # "idle"
  /\ \A x \in Countings : x # NoCommand /\ x.at # "idle"
  BY DEF NoCommand, ShardRuns, MergeRuns, Countings

\* Who is testing, and with which number, is as before, or fewer are.
TestersKept ==
  /\ spent'.runs = spent.runs
  /\ \A r \in Runners : runner'[r].at = "testing" =>
       runner[r].at = "testing" /\ runner'[r].run = runner[r].run

LEMMA TestersStep ==
  ASSUME TestersInv, TestersKept
  PROVE  TestersInv' /\ \A d \in Nat : Unused(d)' => Unused(d)
  BY DEF TestersInv, TestersKept, Unused

LEMMA FreeStep ==
  ASSUME UnnamedInv, \A d \in Nat : Unused(d)' => Unused(d),
         \A d \in Nat : Unnamed(d) => Unnamed(d)'
  PROVE  UnnamedInv'
  BY DEF UnnamedInv

\* Steps of test_inventory.py leave the shards, their runs and the merge alone.
InventoryFrame == UNCHANGED <<checkout, pipeline, shardDisk, merged, runner, merge>>

LEMMA InventoryFrameOK ==
  ASSUME LocalInv, InventoryFrame, spent'.runs = spent.runs
  PROVE  TestedInv' /\ TestersInv' /\ UnnamedInv' /\ ReportInv'
  <1>1. TestedInv'
    BY DEF LocalInv, InventoryFrame, TestedInv, OfCommit, RunnerOK
  <1>2. TestersInv' /\ \A d \in Nat : Unused(d)' => Unused(d)
    BY TestersStep DEF LocalInv, InventoryFrame, TestersKept
  <1>3. \A d \in Nat : Unnamed(d) => Unnamed(d)'
    BY DEF InventoryFrame, Unnamed, Avoids
  <1>4. UnnamedInv'
    BY <1>2, <1>3, FreeStep DEF LocalInv
  <1>5. ReportInv'
    BY DEF LocalInv, InventoryFrame, ReportInv, ReportOK, ReportFor
  <1> QED BY <1>1, <1>2, <1>4, <1>5

LEMMA InventoryStep ==
  ASSUME LocalInv, \/ InventoryBegins \/ InventoryCollects \/ InventoryCompares
                   \/ InventoryRecords \/ \E torn \in BOOLEAN : InventoryDies(torn)
  PROVE  LocalInv'
  <1>1. InventoryFrame
    BY DEF InventoryBegins, InventoryCollects, InventoryCompares, InventoryRecords,
       InventoryDies, InventoryFrame
  <1>2. spent' \in [runs : Nat, checkouts : Nat, merges : Nat, inventories : Nat]
        /\ spent'.runs = spent.runs
    <2>1. spent \in [runs : Nat, checkouts : Nat, merges : Nat, inventories : Nat]
      BY DEF LocalInv, LocalTypeOK
    <2>2. CASE spent' = spent
      BY <2>1, <2>2
    <2>3. CASE InventoryBegins
      BY <2>1, <2>3 DEF InventoryBegins
    <2> QED BY <2>2, <2>3 DEF InventoryCollects, InventoryCompares, InventoryRecords, InventoryDies
  <1>3. /\ checkout' \in Commits /\ shardDisk' \in [Shards -> ShardFiles]
        /\ merged' \in [manifest : {None} \cup MergedDocs, report : Reports]
        /\ runner' \in [Runners -> {NoCommand} \cup ShardRuns]
        /\ merge' \in {NoCommand} \cup MergeRuns
    BY <1>1 DEF LocalInv, LocalTypeOK, InventoryFrame
  <1>4. /\ counting' \in {NoCommand} \cup Countings
        /\ inventory' \in [collection : {None} \cup Collections, record : {None} \cup Inventories]
        /\ CountedInv'
    <2>1. /\ counting \in {NoCommand} \cup Countings /\ merged.manifest \in {None} \cup MergedDocs
          /\ inventory \in [collection : {None} \cup Collections, record : {None} \cup Inventories]
          /\ CountedInv /\ checkout \in Commits /\ UNCHANGED checkout
      BY <1>1 DEF LocalInv, LocalTypeOK, InventoryFrame
    <2>2. counting.at # "idle" => counting \in Countings /\ counting # NoCommand
      BY <2>1, NoCommandIsIdle
    <2>3. CASE InventoryBegins
      <3> DEFINE c == [at |-> "collecting", id |-> spent.inventories + 1,
                       git |-> checkout, collected |-> None, moved |-> FALSE]
      <3>1. counting' = c /\ UNCHANGED inventory
        BY <2>3 DEF InventoryBegins
      <3>2. spent.inventories \in Nat
        BY DEF LocalInv, LocalTypeOK
      <3>3. c \in Countings /\ c.at = "collecting" /\ c.git = checkout
        BY <2>1, <3>2 DEF Countings
      <3> HIDE DEF c
      <3> QED BY <2>1, <3>1, <3>3 DEF CountedInv
    <2>4. CASE InventoryCollects
      <3> DEFINE c == [counting EXCEPT !.at = "comparing", !.collected = checkout]
      <3>1. counting' = c /\ UNCHANGED inventory /\ counting.at = "collecting"
        BY <2>4 DEF InventoryCollects
      <3>2. c \in Countings /\ c.at = "comparing" /\ c.collected = checkout
            /\ c.git = counting.git /\ c.moved = counting.moved
        BY <2>1, <2>2, <3>1 DEF Countings
      <3> HIDE DEF c
      <3> QED BY <2>1, <2>2, <3>1, <3>2 DEF CountedInv
    <2>5. CASE InventoryCompares /\ counting' = NoCommand
      <3>1. UNCHANGED inventory
        <4>1. [counting EXCEPT !.at = "recording"] # NoCommand
          BY <2>2, <2>5, NoCommandIsIdle DEF InventoryCompares, Countings
        <4> QED BY <2>5, <4>1 DEF InventoryCompares
      <3> QED BY <2>1, <2>5, <3>1 DEF CountedInv
    <2>6. CASE InventoryCompares /\ counting' # NoCommand
      <3> DEFINE c == [counting EXCEPT !.at = "recording"]
                 k == [id |-> counting.id, of |-> counting.collected]
      <3>1. counting' = c /\ inventory' = [inventory EXCEPT !.collection = k]
            /\ counting.at = "comparing"
        BY <2>6 DEF InventoryCompares
      <3>2. counting.collected \in Commits
        BY <2>1, <2>2, <3>1 DEF CountedInv
      <3>3. c \in Countings /\ c.at = "recording" /\ c.collected = counting.collected
            /\ c.git = counting.git /\ c.moved = counting.moved
        BY <2>2, <3>1 DEF Countings
      <3>4. k \in Collections /\ k # None /\ k.of = counting.collected
        BY <2>2, <3>1, <3>2 DEF Countings, Collections, None
      <3> HIDE DEF c, k
      <3>5. inventory' \in [collection : {None} \cup Collections, record : {None} \cup Inventories]
            /\ inventory'.collection = k /\ inventory'.record = inventory.record
        BY <2>1, <3>1, <3>4
      <3> QED BY <2>1, <2>2, <3>1, <3>2, <3>3, <3>4, <3>5 DEF CountedInv
    <2>7. CASE InventoryRecords
      <3> DEFINE k == [git |-> counting.git, count |-> TestFiles[counting.collected],
                       moved |-> counting.moved, collection |-> inventory.collection,
                       regression |-> merged.manifest]
      <3>1. counting' = NoCommand /\ inventory' = [inventory EXCEPT !.record = k]
            /\ counting.at = "recording"
        BY <2>7 DEF InventoryRecords
      <3>2. counting.collected \in Commits /\ counting.git \in Commits /\ counting.moved \in BOOLEAN
        BY <2>1, <2>2, <3>1 DEF CountedInv, Countings
      <3>3. TestFiles[counting.collected] \in Nat
        BY <3>2, ShardAssumption
      <3>4. k \in Inventories /\ k.collection = inventory.collection /\ k.git = counting.git
            /\ k.moved = counting.moved
        BY <2>1, <3>2, <3>3 DEF Inventories
      <3> HIDE DEF k
      <3>5. inventory' \in [collection : {None} \cup Collections, record : {None} \cup Inventories]
            /\ inventory'.record = k
        BY <2>1, <3>1, <3>4
      <3>6. inventory.collection # None /\ inventory.collection.of = counting.collected
            /\ (~counting.moved => counting.git = counting.collected)
        BY <2>1, <2>2, <3>1 DEF CountedInv
      <3> QED BY <3>1, <3>4, <3>5, <3>6 DEF CountedInv
    <2>8. ASSUME NEW torn \in BOOLEAN, InventoryDies(torn)
          PROVE  /\ counting' \in {NoCommand} \cup Countings
                 /\ inventory' \in [collection : {None} \cup Collections, record : {None} \cup Inventories]
                 /\ CountedInv'
      <3>1. counting' = NoCommand /\ (inventory' = inventory \/ inventory' = [inventory EXCEPT !.record = None])
        BY <2>8 DEF InventoryDies
      <3>2. inventory' \in [collection : {None} \cup Collections, record : {None} \cup Inventories]
            /\ (inventory' = inventory \/ inventory'.record = None)
        BY <2>1, <3>1
      <3> QED BY <2>1, <3>1, <3>2 DEF CountedInv
    <2> QED BY <2>3, <2>4, <2>5, <2>6, <2>7, <2>8
  <1>5. LocalTypeOK'
    BY <1>2, <1>3, <1>4 DEF LocalTypeOK
  <1> QED BY <1>1, <1>2, <1>4, <1>5, InventoryFrameOK DEF LocalInv

\* Steps of the merge leave the shards, their runs and the inventory alone.
MergeFrame == UNCHANGED <<checkout, pipeline, shardDisk, runner, inventory, counting>>

LEMMA MergeFrameOK ==
  ASSUME LocalInv, MergeFrame, spent'.runs = spent.runs
  PROVE  TestedInv' /\ TestersInv' /\ CountedInv' /\ \A d \in Nat : Unused(d)' => Unused(d)
  <1>1. TestedInv'
    BY DEF LocalInv, MergeFrame, TestedInv, OfCommit, RunnerOK
  <1>2. TestersInv' /\ \A d \in Nat : Unused(d)' => Unused(d)
    BY TestersStep DEF LocalInv, MergeFrame, TestersKept
  <1>3. CountedInv'
    BY DEF LocalInv, MergeFrame, CountedInv
  <1> QED BY <1>1, <1>2, <1>3

\* What a step of the merge has to show: m and g are the new values.
LEMMA MergeStepOK ==
  ASSUME LocalInv, MergeFrame, spent'.runs = spent.runs,
         spent' \in [runs : Nat, checkouts : Nat, merges : Nat, inventories : Nat],
         NEW m \in {NoCommand} \cup MergeRuns, merge' = m,
         NEW g \in [manifest : {None} \cup MergedDocs, report : Reports], merged' = g,
         \A d \in Nat : Unnamed(d) => /\ m # NoCommand => Avoids(m.shards, d)
                                      /\ g.manifest # None => Avoids(g.manifest.shards, d),
         m # NoCommand => /\ ReportOK(m.shards, m.report)
                          /\ m.at # "write" => m.report = NoReport,
         g.manifest # None => ReportOK(g.manifest.shards, g.manifest.report)
  PROVE  LocalInv'
  <1>1. LocalTypeOK'
    BY DEF LocalInv, LocalTypeOK, MergeFrame
  <1>2. \A d \in Nat : Unnamed(d) => Unnamed(d)'
    BY DEF Unnamed, MergeFrame, Avoids
  <1>3. UnnamedInv'
    BY <1>2, MergeFrameOK, FreeStep DEF LocalInv
  <1>4. \A rows, report : ReportOK(rows, report) => ReportOK(rows, report)'
    BY DEF ReportOK, ReportFor, MergeFrame
  <1>5. ReportInv'
    BY <1>4 DEF ReportInv, ReportOK, ReportFor, MergeFrame
  <1> QED BY <1>1, <1>3, <1>5, MergeFrameOK DEF LocalInv

LEMMA NextShardOK ==
  ASSUME NEW m \in MergeRuns
  PROVE  /\ NextShard(m) \in MergeRuns
         /\ NextShard(m).shards = m.shards /\ NextShard(m).report = m.report
  <1>1. CASE m.shard + 1 < ShardCount
    <2>1. m.shard + 1 \in Shards
      BY <1>1, ShardAssumption DEF MergeRuns, Shards
    <2> QED BY <1>1, <2>1 DEF NextShard, MergeRuns
  <1>2. CASE ~(m.shard + 1 < ShardCount)
    <2> DEFINE ok == m.ok /\ m.covered = m.expected /\ m.count = Cardinality(m.covered)
               at == IF pipeline = "coverage" /\ ok THEN "combine" ELSE "write"
               n == [m EXCEPT !.ok = ok, !.at = at]
    <2>1. NextShard(m) = n
      BY <1>2 DEF NextShard, Concluded
    <2>2. ok \in BOOLEAN
      BY Zenon
    <2>3. at \in {"combine", "write"}
      OBVIOUS
    <2> HIDE DEF ok, at
    <2>4. n \in MergeRuns /\ n.shards = m.shards /\ n.report = m.report
      BY <2>2, <2>3 DEF MergeRuns
    <2> QED BY <2>1, <2>4
  <1> QED BY <1>1, <1>2

LEMMA FilesAreFew ==
  ASSUME LocalInv, NEW s \in Shards, shardDisk[s].manifest # None
  PROVE  shardDisk[s].manifest \in ShardRows /\ Cardinality(shardDisk[s].manifest.files) \in Nat
  <1>1. shardDisk[s].manifest \in ShardRows
    BY DEF LocalInv, LocalTypeOK, ShardFiles
  <1> DEFINE files == shardDisk[s].manifest.files
             n == TestFiles[shardDisk[s].manifest.tested]
  <1>2. n \in Nat
    BY <1>1, ShardAssumption DEF ShardRows
  <1>3. files \subseteq 1..n
    BY DEF LocalInv, TestedInv, OfCommit, SelectShard, Discover
  <1> HIDE DEF files, n
  <1>4. IsFiniteSet(1..n)
    BY <1>2, FS_Interval
  <1>5. IsFiniteSet(files)
    BY <1>3, <1>4, FS_Subset
  <1>6. Cardinality(files) \in Nat
    BY <1>5, FS_CardinalityType
  <1> QED BY <1>1, <1>6 DEF files

\* A step that keeps the rows that were read, before anything is combined.
LEMMA RowsKept ==
  ASSUME LocalInv, MergeFrame, UNCHANGED <<merged, spent>>, merge \in MergeRuns, merge.at # "write",
         NEW m \in MergeRuns, merge' = m, m.shards = merge.shards, m.report = merge.report
  PROVE  LocalInv'
  <1>1. /\ spent \in [runs : Nat, checkouts : Nat, merges : Nat, inventories : Nat]
        /\ merged \in [manifest : {None} \cup MergedDocs, report : Reports]
    BY DEF LocalInv, LocalTypeOK
  <1>2. merge # NoCommand /\ merge.report = NoReport
    BY NoCommandIsIdle DEF LocalInv, ReportInv
  <1>3. ReportOK(m.shards, m.report) /\ m.report = NoReport
    BY <1>2 DEF ReportOK, ReportFor
  <1>4. \A d \in Nat : Unnamed(d) => /\ m # NoCommand => Avoids(m.shards, d)
                                     /\ merged.manifest # None => Avoids(merged.manifest.shards, d)
    BY <1>2 DEF Unnamed, Avoids
  <1>5. merged.manifest # None => ReportOK(merged.manifest.shards, merged.manifest.report)
    BY DEF LocalInv, ReportInv
  <1> QED BY <1>1, <1>3, <1>4, <1>5, MergeStepOK

LEMMA MergeReadsInv ==
  ASSUME LocalInv, MergeIdentifies \/ MergeReads PROVE LocalInv'
  <1>1. MergeFrame /\ UNCHANGED <<merged, spent>> /\ merge.at \in {"identify", "read"}
    BY DEF MergeIdentifies, MergeReads, MergeFrame
  <1>2. merge \in MergeRuns
    BY <1>1, NoCommandIsIdle DEF LocalInv, LocalTypeOK
  <1>3. CASE MergeIdentifies
    <2> DEFINE m == [merge EXCEPT !.at = "read", !.git = checkout]
    <2>1. merge' = m /\ checkout \in Commits
      BY <1>3 DEF MergeIdentifies, LocalInv, LocalTypeOK
    <2>2. m \in MergeRuns /\ m.shards = merge.shards /\ m.report = merge.report
      BY <1>2, <2>1 DEF MergeRuns
    <2> HIDE DEF m
    <2> QED BY <1>1, <1>2, <2>1, <2>2, RowsKept
  <1>4. CASE MergeReads /\ shardDisk[merge.shard].manifest = None
    <2> DEFINE x == [merge EXCEPT !.ok = FALSE]
    <2>1. merge' = NextShard(x)
      BY <1>4 DEF MergeReads
    <2>2. x \in MergeRuns /\ x.shards = merge.shards /\ x.report = merge.report
      BY <1>2 DEF MergeRuns
    <2> HIDE DEF x
    <2>3. NextShard(x) \in MergeRuns /\ NextShard(x).shards = merge.shards
          /\ NextShard(x).report = merge.report
      BY <2>2, NextShardOK
    <2> QED BY <1>1, <1>2, <2>1, <2>3, RowsKept
  <1>5. CASE MergeReads /\ shardDisk[merge.shard].manifest # None
    <2> DEFINE row == shardDisk[merge.shard].manifest
               ok == merge.ok /\ RowHolds(row, merge.shard, merge.git)
               m == [merge EXCEPT !.at = "hash", !.ok = ok, !.covered = merge.covered \cup row.files,
                                  !.count = merge.count + Cardinality(row.files)]
    <2>1. merge' = m
      BY <1>5 DEF MergeReads
    <2>2. merge.shard \in Shards /\ merge.count \in Nat /\ merge.covered \in SUBSET Nat
      BY <1>2 DEF MergeRuns
    <2>3. row.files \in SUBSET Nat /\ Cardinality(row.files) \in Nat
      BY <1>5, <2>2, FilesAreFew DEF ShardRows
    <2>4. ok \in BOOLEAN
      BY Zenon
    <2> HIDE DEF row, ok
    <2>5. merge.covered \cup row.files \in SUBSET Nat /\ merge.count + Cardinality(row.files) \in Nat
      BY <2>2, <2>3
    <2>6. m \in MergeRuns /\ m.shards = merge.shards /\ m.report = merge.report
      BY <1>2, <2>4, <2>5 DEF MergeRuns
    <2> HIDE DEF m
    <2> QED BY <1>1, <1>2, <2>1, <2>6, RowsKept
  <1> QED BY <1>3, <1>4, <1>5

LEMMA MergeBeginsInv ==
  ASSUME LocalInv, MergeBegins PROVE LocalInv'
  <1>1. MergeFrame /\ UNCHANGED merged
    BY DEF MergeBegins, MergeFrame
  <1>2. /\ spent \in [runs : Nat, checkouts : Nat, merges : Nat, inventories : Nat]
        /\ merged \in [manifest : {None} \cup MergedDocs, report : Reports]
    BY DEF LocalInv, LocalTypeOK
  <1>3. spent' \in [runs : Nat, checkouts : Nat, merges : Nat, inventories : Nat]
        /\ spent'.runs = spent.runs
    BY <1>2 DEF MergeBegins
  <1> DEFINE m == [at |-> "identify", expected |-> Discover(checkout),
                   git |-> None, shard |-> 0, ok |-> TRUE, covered |-> {},
                   count |-> 0, shards |-> [s \in Shards |-> None], report |-> NoReport]
  <1>4. merge' = m
    BY DEF MergeBegins
  <1>5. Discover(checkout) \in SUBSET Nat /\ 0 \in Shards /\ [s \in Shards |-> None] \in RowMaps
    BY ShardAssumption DEF Discover, Shards, RowMaps
  <1>6. m \in MergeRuns /\ m.report = NoReport /\ \A s \in Shards : m.shards[s] = None
    BY <1>5 DEF MergeRuns, Reports
  <1> HIDE DEF m
  <1>7. \A d \in Nat : Unnamed(d) => /\ m # NoCommand => Avoids(m.shards, d)
                                     /\ merged.manifest # None => Avoids(merged.manifest.shards, d)
    BY <1>6 DEF Unnamed, Avoids
  <1>8. ReportOK(m.shards, m.report)
    BY <1>6 DEF ReportOK, ReportFor
  <1>9. merged.manifest # None => ReportOK(merged.manifest.shards, merged.manifest.report)
    BY DEF LocalInv, ReportInv
  <1> QED BY <1>1, <1>2, <1>3, <1>4, <1>6, <1>7, <1>8, <1>9, MergeStepOK

LEMMA MergeHashesInv ==
  ASSUME LocalInv, MergeHashes PROVE LocalInv'
  <1>1. MergeFrame /\ UNCHANGED <<merged, spent>> /\ merge.at = "hash"
    BY DEF MergeHashes, MergeFrame
  <1>2. merge \in MergeRuns /\ merge # NoCommand
    BY <1>1, NoCommandIsIdle DEF LocalInv, LocalTypeOK
  <1>3. /\ spent \in [runs : Nat, checkouts : Nat, merges : Nat, inventories : Nat]
        /\ merged \in [manifest : {None} \cup MergedDocs, report : Reports]
    BY DEF LocalInv, LocalTypeOK
  <1> DEFINE k == merge.shard
             rows == [merge.shards EXCEPT ![k] = shardDisk[k].manifest]
             x == [merge EXCEPT !.shards = rows]
  <1>4. merge' = NextShard(x)
    BY DEF MergeHashes
  <1>5. k \in Shards /\ merge.shards \in RowMaps
    BY <1>2 DEF MergeRuns
  <1>6. shardDisk[k].manifest \in {None} \cup ShardRows
    BY <1>5 DEF LocalInv, LocalTypeOK, ShardFiles
  <1>7. rows \in RowMaps /\ \A s \in Shards : rows[s] = shardDisk[s].manifest \/ rows[s] = merge.shards[s]
    BY <1>5, <1>6 DEF RowMaps
  <1>8. merge.report = NoReport
    BY <1>1, <1>2 DEF LocalInv, ReportInv
  <1> HIDE DEF rows
  <1>9. x \in MergeRuns /\ x.shards = rows /\ x.report = NoReport
    BY <1>2, <1>7, <1>8 DEF MergeRuns
  <1> HIDE DEF x
  <1>10. NextShard(x) \in MergeRuns /\ NextShard(x).shards = rows /\ NextShard(x).report = NoReport
    BY <1>9, NextShardOK
  <1>11. \A d \in Nat : Unnamed(d) => /\ Avoids(rows, d)
                                      /\ merged.manifest # None => Avoids(merged.manifest.shards, d)
    BY <1>2, <1>7 DEF Unnamed, Avoids
  <1>12. ReportOK(rows, NoReport)
    BY DEF ReportOK, ReportFor
  <1>13. merged.manifest # None => ReportOK(merged.manifest.shards, merged.manifest.report)
    BY DEF LocalInv, ReportInv
  <1> QED BY <1>1, <1>3, <1>4, <1>10, <1>11, <1>12, <1>13, MergeStepOK

LEMMA MergeCombinesInv ==
  ASSUME LocalInv, NEW works \in BOOLEAN, MergeCombines(works) PROVE LocalInv'
  <1>1. MergeFrame /\ UNCHANGED spent /\ merge.at = "combine"
    BY DEF MergeCombines, MergeFrame
  <1>2. merge \in MergeRuns /\ merge # NoCommand
    BY <1>1, NoCommandIsIdle DEF LocalInv, LocalTypeOK
  <1>3. /\ spent \in [runs : Nat, checkouts : Nat, merges : Nat, inventories : Nat]
        /\ merged \in [manifest : {None} \cup MergedDocs, report : Reports]
    BY DEF LocalInv, LocalTypeOK
  <1> DEFINE data == [s \in Shards |-> shardDisk[s].data]
             ok == works /\ \A s \in Shards : data[s] # NoRun
             report == IF ok THEN data ELSE NoReport
             m == [merge EXCEPT !.at = "write", !.ok = ok, !.report = report]
             g == IF ok THEN [merged EXCEPT !.report = data] ELSE merged
  <1>4. merge' = m /\ merged' = g
    BY DEF MergeCombines
  <1>5. data \in [Shards -> Nat] /\ \A s \in Shards : data[s] = shardDisk[s].data
    BY DEF LocalInv, LocalTypeOK, ShardFiles
  <1>6. report \in Reports /\ data \in Reports
    BY <1>5 DEF Reports
  <1>7. report # NoReport => \A s \in Shards : report[s] = shardDisk[s].data
    BY <1>5
  <1>8. ok \in BOOLEAN
    BY Zenon
  <1> HIDE DEF data, ok
  <1>9. g \in [manifest : {None} \cup MergedDocs, report : Reports] /\ g.manifest = merged.manifest
    BY <1>3, <1>6
  <1> HIDE DEF report, g
  <1>10. m \in MergeRuns /\ m.shards = merge.shards /\ m.report = report /\ m.at = "write"
    BY <1>2, <1>6, <1>8 DEF MergeRuns
  <1> HIDE DEF m
  <1>11. ReportOK(m.shards, m.report)
    BY <1>7, <1>10 DEF ReportOK, ReportFor
  <1>12. \A d \in Nat : Unnamed(d) => /\ m # NoCommand => Avoids(m.shards, d)
                                      /\ g.manifest # None => Avoids(g.manifest.shards, d)
    BY <1>2, <1>9, <1>10 DEF Unnamed
  <1>13. g.manifest # None => ReportOK(g.manifest.shards, g.manifest.report)
    BY <1>9 DEF LocalInv, ReportInv
  <1> QED BY <1>1, <1>3, <1>4, <1>9, <1>10, <1>11, <1>12, <1>13, MergeStepOK

LEMMA MergeEndsInv ==
  ASSUME LocalInv, MergeWrites \/ \E torn \in BOOLEAN : MergeDies(torn) PROVE LocalInv'
  <1>1. MergeFrame /\ UNCHANGED spent /\ merge.at # "idle" /\ merge' = NoCommand
    BY DEF MergeWrites, MergeDies, MergeFrame
  <1>2. merge \in MergeRuns /\ merge # NoCommand
    BY <1>1, NoCommandIsIdle DEF LocalInv, LocalTypeOK
  <1>3. /\ spent \in [runs : Nat, checkouts : Nat, merges : Nat, inventories : Nat]
        /\ merged \in [manifest : {None} \cup MergedDocs, report : Reports]
    BY DEF LocalInv, LocalTypeOK
  <1> DEFINE doc == [git |-> merge.git, ok |-> merge.ok, count |-> merge.count,
                     shards |-> merge.shards, report |-> merge.report]
  <1>4. doc \in MergedDocs /\ doc.shards = merge.shards /\ doc.report = merge.report
    BY <1>2 DEF MergeRuns, MergedDocs
  <1>5. PICK x \in {doc, None, merged.manifest} : merged' = [merged EXCEPT !.manifest = x]
    BY <1>3 DEF MergeWrites, MergeDies
  <1> HIDE DEF doc
  <1> DEFINE g == [merged EXCEPT !.manifest = x]
  <1>6. g \in [manifest : {None} \cup MergedDocs, report : Reports] /\ g.manifest = x
    BY <1>3, <1>4, <1>5
  <1>7. merged' = g
    BY <1>5
  <1> HIDE DEF g
  <1>8. \A d \in Nat : Unnamed(d) => (x # None => Avoids(x.shards, d))
    BY <1>2, <1>4, <1>5 DEF Unnamed
  <1>9. x # None => ReportOK(x.shards, x.report)
    BY <1>2, <1>4, <1>5 DEF LocalInv, ReportInv
  <1> QED BY <1>1, <1>3, <1>6, <1>7, <1>8, <1>9, MergeStepOK

\* Steps of a shard run leave the merge and the inventory alone.
RunFrame == UNCHANGED <<checkout, pipeline, merged, merge, inventory, counting>>

\* What a step of a shard run has to show: x is the run, f the files of shard s.
LEMMA RunStepOK ==
  ASSUME LocalInv, RunFrame, NEW r \in Runners, NEW s \in Shards,
         NEW x \in {NoCommand} \cup ShardRuns, runner' = [runner EXCEPT ![r] = x],
         NEW f \in ShardFiles, shardDisk' = [shardDisk EXCEPT ![s] = f],
         spent' \in [runs : Nat, checkouts : Nat, merges : Nat, inventories : Nat],
         x # NoCommand => RunnerOK(x), f.manifest # None => OfCommit(f.manifest, s),
         TestersInv', \A d \in Nat : Unused(d)' => Unused(d),
         \A d \in Nat : Unused(d)' /\ Unnamed(d) =>
           f.data # d /\ (f.manifest # None => f.manifest.data # d),
         f.data = shardDisk[s].data \/ f.data = NoRun \/ Unnamed(f.data)
  PROVE  LocalInv'
  <1>1. runner \in [Runners -> {NoCommand} \cup ShardRuns] /\ shardDisk \in [Shards -> ShardFiles]
    BY DEF LocalInv, LocalTypeOK
  <1>2. LocalTypeOK'
    BY <1>1 DEF LocalInv, LocalTypeOK, RunFrame
  <1>3. TestedInv'
    <2>1. ASSUME NEW q \in Runners, runner'[q] # NoCommand PROVE RunnerOK(runner'[q])
      BY <1>1, <2>1 DEF LocalInv, TestedInv
    <2>2. ASSUME NEW k \in Shards, shardDisk'[k].manifest # None PROVE OfCommit(shardDisk'[k].manifest, k)
      BY <1>1, <2>2 DEF LocalInv, TestedInv
    <2>3. \A q \in Runners : runner'[q] # NoCommand => RunnerOK(runner[q])'
      BY <2>1 DEF RunnerOK, RunFrame
    <2>4. \A k \in Shards : shardDisk'[k].manifest # None => OfCommit(shardDisk[k].manifest, k)'
      BY <2>2 DEF OfCommit
    <2> QED BY <2>3, <2>4 DEF TestedInv
  <1>4. CountedInv'
    BY DEF LocalInv, CountedInv, RunFrame
  <1>5. UnnamedInv'
    <2>1. ASSUME NEW d \in Nat, Unused(d)' PROVE Unnamed(d)'
      <3>1. Unnamed(d)
        BY <2>1 DEF LocalInv, UnnamedInv
      <3>2. \A k \in Shards : shardDisk'[k].data # d
        BY <1>1, <2>1, <3>1 DEF Unnamed
      <3>3. \A k \in Shards : shardDisk'[k].manifest # None => shardDisk'[k].manifest.data # d
        BY <1>1, <2>1, <3>1 DEF Unnamed
      <3> QED BY <3>1, <3>2, <3>3 DEF Unnamed, Avoids, RunFrame
    <2> QED BY <2>1 DEF UnnamedInv
  <1>6. ReportInv'
    <2>1. ASSUME NEW rows, NEW report, ReportOK(rows, report), Unnamed(f.data) => Avoids(rows, f.data)
          PROVE  ReportFor(rows, report, shardDisk')
      <3>1. ASSUME NEW k \in Shards, rows[k] # None, rows[k].data # NoRun,
                   rows[k].data = shardDisk'[k].data, report # NoReport
            PROVE  report[k] = rows[k].data
        <4>1. CASE k # s
          BY <1>1, <2>1, <3>1, <4>1 DEF ReportOK, ReportFor
        <4>2. CASE k = s
          <5>1. shardDisk'[k].data = f.data
            BY <1>1, <4>2
          <5>2. f.data = shardDisk[s].data
            BY <2>1, <3>1, <4>2, <5>1 DEF Avoids
          <5> QED BY <2>1, <3>1, <4>2, <5>1, <5>2 DEF ReportOK, ReportFor
        <4> QED BY <4>1, <4>2
      <3> QED BY <3>1 DEF ReportFor
    <2>2. merge # NoCommand => (Unnamed(f.data) => Avoids(merge.shards, f.data))
      BY DEF Unnamed
    <2>3. merged.manifest # None => (Unnamed(f.data) => Avoids(merged.manifest.shards, f.data))
      BY DEF Unnamed
    <2>4. merge # NoCommand => /\ ReportOK(merge.shards, merge.report)
                               /\ merge.at # "write" => merge.report = NoReport
      BY DEF LocalInv, ReportInv
    <2>5. merged.manifest # None => ReportOK(merged.manifest.shards, merged.manifest.report)
      BY DEF LocalInv, ReportInv
    <2>6. merge' # NoCommand => ReportOK(merge.shards, merge.report)'
      BY <2>1, <2>2, <2>4 DEF RunFrame, ReportOK
    <2>7. merged'.manifest # None => ReportOK(merged.manifest.shards, merged.manifest.report)'
      BY <2>1, <2>3, <2>5 DEF RunFrame, ReportOK
    <2> QED BY <2>4, <2>6, <2>7 DEF ReportInv, RunFrame
  <1> QED BY <1>2, <1>3, <1>4, <1>5, <1>6 DEF LocalInv

LEMMA LocalTypes ==
  ASSUME LocalInv
  PROVE  /\ checkout \in Commits /\ spent \in [runs : Nat, checkouts : Nat, merges : Nat, inventories : Nat]
         /\ spent.runs \in Nat
         /\ \A s \in Shards : shardDisk[s] \in ShardFiles
         /\ \A r \in Runners : runner[r] \in {NoCommand} \cup ShardRuns
         /\ \A r \in Runners : runner[r].at # "idle" => /\ runner[r] \in ShardRuns
                                                       /\ RunnerOK(runner[r])
         /\ \A s \in Shards : shardDisk[s].manifest # None => OfCommit(shardDisk[s].manifest, s)
  <1>1. /\ checkout \in Commits /\ spent \in [runs : Nat, checkouts : Nat, merges : Nat, inventories : Nat]
        /\ spent.runs \in Nat
        /\ \A s \in Shards : shardDisk[s] \in ShardFiles
        /\ \A r \in Runners : runner[r] \in {NoCommand} \cup ShardRuns
    BY DEF LocalInv, LocalTypeOK
  <1>2. \A r \in Runners : runner[r].at # "idle" => runner[r] \in ShardRuns /\ runner[r] # NoCommand
    BY <1>1, NoCommandIsIdle
  <1> QED BY <1>1, <1>2 DEF LocalInv, TestedInv

LEMMA RunBeginsInv ==
  ASSUME LocalInv, NEW r \in Runners, NEW s \in Shards, RunBegins(r, s) PROVE LocalInv'
  <1>1. RunFrame /\ runner[r].at = "idle" /\ spent' = [spent EXCEPT !.runs = spent.runs + 1]
    BY DEF RunBegins, RunFrame
  <1>2. spent' \in [runs : Nat, checkouts : Nat, merges : Nat, inventories : Nat] /\ spent'.runs = spent.runs + 1
        /\ spent.runs \in Nat
    BY <1>1, LocalTypes
  <1> DEFINE x == [at |-> "testing", shard |-> s, run |-> spent.runs + 1,
                   tested |-> checkout, files |-> SelectShard(Discover(checkout), s),
                   moved |-> FALSE, passed |-> FALSE, git |-> None]
             f == IF pipeline = "coverage" THEN [shardDisk[s] EXCEPT !.data = NoRun] ELSE shardDisk[s]
  <1>3. runner' = [runner EXCEPT ![r] = x]
    BY DEF RunBegins
  <1>4. shardDisk' = [shardDisk EXCEPT ![s] = f]
    BY DEF RunBegins, LocalInv, LocalTypeOK
  <1>5. SelectShard(Discover(checkout), s) \in SUBSET Nat
    BY LocalTypes, ShardAssumption DEF SelectShard, Discover
  <1>6. x \in ShardRuns /\ x.at = "testing" /\ x.run = spent.runs + 1 /\ RunnerOK(x)
    BY <1>2, <1>5, LocalTypes DEF ShardRuns, RunnerOK
  <1>7. f \in ShardFiles /\ f.manifest = shardDisk[s].manifest
        /\ (f.data = NoRun \/ f.data = shardDisk[s].data)
    BY LocalTypes DEF ShardFiles, NoRun
  <1> HIDE DEF x, f
  <1>8. \A q \in Runners : runner'[q] = IF q = r THEN x ELSE runner[q]
    BY <1>3 DEF LocalInv, LocalTypeOK
  <1>9. TestersInv'
    <2>1. \A q \in Runners : runner'[q].at = "testing" =>
            /\ runner'[q].run \in 1..spent'.runs
            /\ q # r => runner[q].at = "testing" /\ runner'[q].run = runner[q].run
                        /\ runner[q].run \in 1..spent.runs
      BY <1>2, <1>6, <1>8 DEF LocalInv, TestersInv
    <2>2. \A q, u \in Runners : runner'[q].at = "testing" /\ runner'[u].at = "testing"
                                /\ runner'[q].run = runner'[u].run => q = u
      BY <1>2, <1>6, <1>8, <2>1 DEF LocalInv, TestersInv
    <2> QED BY <2>1, <2>2 DEF TestersInv
  <1>10. \A d \in Nat : Unused(d)' => Unused(d) /\ d # NoRun
    <2>1. ASSUME NEW d \in Nat, Unused(d)' PROVE Unused(d) /\ d # NoRun
      <3>1. CASE d > spent'.runs
        BY <1>2, <3>1 DEF Unused, NoRun
      <3>2. CASE ~(d > spent'.runs)
        <4>1. PICK q \in Runners : runner'[q].at = "testing" /\ runner'[q].run = d
          BY <2>1, <3>2 DEF Unused
        <4>2. d \in 1..spent'.runs
          BY <1>9, <4>1 DEF TestersInv
        <4>3. Unused(d)
          BY <1>2, <1>6, <1>8, <4>1 DEF Unused
        <4> QED BY <1>2, <4>2, <4>3 DEF NoRun
      <3> QED BY <3>1, <3>2
    <2> QED BY <2>1
  <1>11. \A d \in Nat : Unused(d)' /\ Unnamed(d) =>
           f.data # d /\ (f.manifest # None => f.manifest.data # d)
    BY <1>7, <1>10 DEF Unnamed
  <1>12. f.manifest # None => OfCommit(f.manifest, s)
    BY <1>7, LocalTypes
  <1> QED BY <1>1, <1>2, <1>3, <1>4, <1>6, <1>7, <1>9, <1>10, <1>11, <1>12, RunStepOK

LEMMA RunTestsInv ==
  ASSUME LocalInv, NEW r \in Runners, NEW passed \in BOOLEAN, NEW data \in Nat,
         RunTests(r, passed, data)
  PROVE  LocalInv'
  <1> DEFINE s == runner[r].shard
             ok == passed /\ (pipeline = "coverage" => data # NoRun)
             x == [runner[r] EXCEPT !.at = "logging", !.git = checkout, !.passed = ok]
             f == [shardDisk[s] EXCEPT !.data = data]
  <1>1. RunFrame /\ UNCHANGED spent /\ runner[r].at = "testing"
    BY DEF RunTests, RunFrame
  <1>2. runner[r] \in ShardRuns /\ RunnerOK(runner[r]) /\ checkout \in Commits /\ s \in Shards
    BY <1>1, LocalTypes DEF ShardRuns
  <1>3. data \in {shardDisk[s].data, NoRun, runner[r].run}
    BY DEF RunTests
  <1>4. runner' = [runner EXCEPT ![r] = x] /\ shardDisk' = [shardDisk EXCEPT ![s] = f]
    BY DEF RunTests
  <1>5. ok \in BOOLEAN
    BY Zenon
  <1> HIDE DEF ok
  <1>6. x \in ShardRuns /\ x.at = "logging" /\ x.git = checkout /\ x.tested = runner[r].tested
        /\ x.moved = runner[r].moved /\ x.files = runner[r].files /\ x.shard = s
    BY <1>2, <1>5 DEF ShardRuns
  <1>7. f \in ShardFiles /\ f.manifest = shardDisk[s].manifest /\ f.data = data
    BY <1>2, LocalTypes DEF ShardFiles
  <1> HIDE DEF x, f
  <1>8. RunnerOK(x)
    BY <1>1, <1>2, <1>6 DEF RunnerOK
  <1>9. \A q \in Runners : runner'[q] = IF q = r THEN x ELSE runner[q]
    BY <1>4 DEF LocalInv, LocalTypeOK
  <1>10. TestersKept
    BY <1>1, <1>6, <1>9 DEF TestersKept
  <1>11. TestersInv' /\ \A d \in Nat : Unused(d)' => Unused(d)
    BY <1>10, TestersStep DEF LocalInv
  <1>12. runner[r].run \in 1..spent.runs /\ runner[r].run \in Nat /\ Unnamed(runner[r].run)
    <2>1. runner[r].run \in 1..spent.runs
      BY <1>1 DEF LocalInv, TestersInv
    <2>2. runner[r].run \in Nat /\ Unused(runner[r].run)
      BY <1>1, <1>2 DEF Unused, ShardRuns
    <2> QED BY <2>1, <2>2 DEF LocalInv, UnnamedInv
  <1>13. \A d \in Nat : Unused(d)' => d # NoRun /\ d # runner[r].run
    <2>1. ASSUME NEW d \in Nat, Unused(d)' PROVE d # NoRun /\ d # runner[r].run
      <3>1. CASE d > spent.runs
        BY <1>12, <3>1, LocalTypes DEF NoRun
      <3>2. CASE ~(d > spent.runs)
        <4>1. PICK q \in Runners : runner'[q].at = "testing" /\ runner'[q].run = d
          BY <1>1, <2>1, <3>2 DEF Unused
        <4>2. q # r /\ runner[q].at = "testing" /\ runner[q].run = d
          BY <1>6, <1>9, <4>1
        <4>3. d \in 1..spent.runs /\ d # runner[r].run
          BY <1>1, <4>2 DEF LocalInv, TestersInv
        <4> QED BY <4>3, LocalTypes DEF NoRun
      <3> QED BY <3>1, <3>2
    <2> QED BY <2>1
  <1>14. \A d \in Nat : Unused(d)' /\ Unnamed(d) =>
           f.data # d /\ (f.manifest # None => f.manifest.data # d)
    BY <1>2, <1>3, <1>7, <1>13 DEF Unnamed
  <1>15. f.manifest # None => OfCommit(f.manifest, s)
    BY <1>2, <1>7, LocalTypes
  <1>16. f.data = shardDisk[s].data \/ f.data = NoRun \/ Unnamed(f.data)
    BY <1>3, <1>7, <1>12
  <1>17. spent' \in [runs : Nat, checkouts : Nat, merges : Nat, inventories : Nat]
    BY <1>1, LocalTypes
  <1> HIDE DEF s
  <1> QED BY <1>1, <1>2, <1>4, <1>6, <1>7, <1>8, <1>11, <1>14, <1>15, <1>16, <1>17, RunStepOK

\* The steps that write no data file.
LEMMA RunGoesOnInv ==
  ASSUME LocalInv, NEW r \in Runners,
         RunLogs(r) \/ RunRecords(r) \/ \E torn \in BOOLEAN : RunDies(r, torn)
  PROVE  LocalInv'
  <1> DEFINE s == runner[r].shard
             me == runner[r]
             row == [run |-> me.run, git |-> me.git, passed |-> me.passed,
                     files |-> me.files, tested |-> me.tested, moved |-> me.moved,
                     log |-> shardDisk[s].log, data |-> shardDisk[s].data]
  <1>1. RunFrame /\ UNCHANGED spent /\ runner[r].at # "idle"
    BY DEF RunLogs, RunRecords, RunDies, RunFrame
  <1>2. me \in ShardRuns /\ RunnerOK(me) /\ s \in Shards /\ shardDisk[s] \in ShardFiles
    BY <1>1, LocalTypes DEF ShardRuns
  <1>3. PICK x \in {NoCommand} \cup ShardRuns :
          /\ runner' = [runner EXCEPT ![r] = x] /\ x.at # "testing"
          /\ x # NoCommand => RunnerOK(x)
    <2>1. CASE RunLogs(r)
      <3> DEFINE x == [me EXCEPT !.at = "recording"]
      <3>1. runner' = [runner EXCEPT ![r] = x] /\ me.at = "logging"
        BY <2>1 DEF RunLogs
      <3>2. x \in ShardRuns /\ x.at = "recording" /\ x.git = me.git /\ x.tested = me.tested
            /\ x.moved = me.moved /\ x.files = me.files /\ x.shard = me.shard
        BY <1>2 DEF ShardRuns
      <3> HIDE DEF x
      <3>3. RunnerOK(x)
        BY <1>2, <3>1, <3>2 DEF RunnerOK
      <3> QED BY <3>1, <3>2, <3>3
    <2>2. CASE runner' = [runner EXCEPT ![r] = NoCommand]
      BY <2>2, NoCommandIsIdle
    <2> QED BY <2>1, <2>2 DEF RunRecords, RunDies
  <1>4. PICK f \in ShardFiles :
          /\ shardDisk' = [shardDisk EXCEPT ![s] = f] /\ f.data = shardDisk[s].data
          /\ f.manifest # None => OfCommit(f.manifest, s) /\
                (f.manifest.data = shardDisk[s].data \/ f.manifest = shardDisk[s].manifest)
    <2>1. CASE RunLogs(r)
      <3> DEFINE f == [shardDisk[s] EXCEPT !.log = me.run]
      <3>1. shardDisk' = [shardDisk EXCEPT ![s] = f]
        BY <2>1 DEF RunLogs
      <3>2. f \in ShardFiles /\ f.data = shardDisk[s].data /\ f.manifest = shardDisk[s].manifest
        BY <1>2 DEF ShardFiles, ShardRuns
      <3> HIDE DEF f
      <3> QED BY <1>2, <3>1, <3>2, LocalTypes
    <2>2. CASE RunRecords(r)
      <3> DEFINE f == [shardDisk[s] EXCEPT !.manifest = row]
      <3>1. shardDisk' = [shardDisk EXCEPT ![s] = f] /\ me.at = "recording"
        BY <2>2 DEF RunRecords
      <3>2. me.git \in Commits
        BY <1>2, <3>1 DEF RunnerOK
      <3>3. row \in ShardRows /\ row.data = shardDisk[s].data /\ row.files = me.files
            /\ row.tested = me.tested /\ row.moved = me.moved /\ row.git = me.git
        BY <1>2, <3>2 DEF ShardRows, ShardRuns, ShardFiles
      <3> HIDE DEF row
      <3>4. OfCommit(row, s)
        BY <1>2, <3>1, <3>3 DEF OfCommit, RunnerOK
      <3>5. f \in ShardFiles /\ f.data = shardDisk[s].data /\ f.manifest = row
        BY <1>2, <3>3 DEF ShardFiles
      <3> HIDE DEF f
      <3> QED BY <3>1, <3>3, <3>4, <3>5
    <2>3. CASE shardDisk' = [shardDisk EXCEPT ![s].manifest = None]
      <3> DEFINE f == [shardDisk[s] EXCEPT !.manifest = None]
      <3>1. shardDisk' = [shardDisk EXCEPT ![s] = f]
        BY <2>3
      <3>2. f \in ShardFiles /\ f.data = shardDisk[s].data /\ f.manifest = None
        BY <1>2 DEF ShardFiles
      <3> HIDE DEF f
      <3> QED BY <3>1, <3>2
    <2>4. CASE shardDisk' = shardDisk
      <3>1. shardDisk' = [shardDisk EXCEPT ![s] = shardDisk[s]]
        BY <1>2, <2>4 DEF LocalInv, LocalTypeOK
      <3> QED BY <1>2, <3>1, LocalTypes
    <2> QED BY <2>1, <2>2, <2>3, <2>4 DEF RunDies
  <1>5. TestersKept
    BY <1>1, <1>3 DEF TestersKept, LocalInv, LocalTypeOK
  <1>6. TestersInv' /\ \A d \in Nat : Unused(d)' => Unused(d)
    BY <1>5, TestersStep DEF LocalInv
  <1>7. \A d \in Nat : Unused(d)' /\ Unnamed(d) =>
          f.data # d /\ (f.manifest # None => f.manifest.data # d)
    BY <1>2, <1>4 DEF Unnamed
  <1>8. spent' \in [runs : Nat, checkouts : Nat, merges : Nat, inventories : Nat]
    BY <1>1, LocalTypes
  <1> HIDE DEF s, me, row
  <1> QED BY <1>1, <1>2, <1>3, <1>4, <1>6, <1>7, <1>8, RunStepOK

LEMMA CheckoutInv ==
  ASSUME LocalInv, NEW c \in Commits, Checkout(c) PROVE LocalInv'
  <1>1. UNCHANGED <<pipeline, shardDisk, merged, merge, inventory>> /\ checkout' = c
        /\ spent' = [spent EXCEPT !.checkouts = spent.checkouts + 1]
    BY DEF Checkout
  <1>2. spent' \in [runs : Nat, checkouts : Nat, merges : Nat, inventories : Nat] /\ spent'.runs = spent.runs
    BY <1>1, LocalTypes
  <1>3. ASSUME NEW r \in Runners
        PROVE  /\ runner'[r] \in {NoCommand} \cup ShardRuns /\ runner'[r].at = runner[r].at
               /\ runner[r].at = "testing" => runner'[r].run = runner[r].run
               /\ runner'[r] # NoCommand => RunnerOK(runner[r])'
    <2>1. CASE runner[r].at = "testing"
      <3> DEFINE x == [runner[r] EXCEPT !.moved = TRUE]
      <3>1. runner'[r] = x
        BY <2>1 DEF Checkout
      <3>2. runner[r] \in ShardRuns /\ RunnerOK(runner[r])
        BY <2>1, LocalTypes
      <3>3. x \in ShardRuns /\ x.moved = TRUE /\ x.at = runner[r].at /\ x.run = runner[r].run
            /\ x.files = runner[r].files /\ x.tested = runner[r].tested /\ x.shard = runner[r].shard
        BY <3>2 DEF ShardRuns
      <3> HIDE DEF x
      <3> QED BY <2>1, <3>1, <3>2, <3>3 DEF RunnerOK
    <2>2. CASE runner[r].at # "testing"
      <3>1. runner'[r] = runner[r]
        BY <2>2 DEF Checkout
      <3>2. runner[r] \in {NoCommand} \cup ShardRuns
        BY LocalTypes
      <3>3. runner[r] # NoCommand => RunnerOK(runner[r])
        BY DEF LocalInv, TestedInv
      <3> QED BY <2>2, <3>1, <3>2, <3>3 DEF RunnerOK
    <2> QED BY <2>1, <2>2
  <1>4. runner' \in [Runners -> {NoCommand} \cup ShardRuns]
    <2>1. runner' = [r \in Runners |-> runner'[r]]
      BY DEF Checkout
    <2> QED BY <1>3, <2>1
  <1>5. counting' \in {NoCommand} \cup Countings /\ CountedInv'
    <2>1. counting \in {NoCommand} \cup Countings /\ CountedInv
      BY DEF LocalInv, LocalTypeOK
    <2>2. CASE counting.at = "collecting"
      <3> DEFINE x == [counting EXCEPT !.moved = TRUE]
      <3>1. counting' = x /\ counting \in Countings /\ counting # NoCommand
        BY <2>1, <2>2, NoCommandIsIdle DEF Checkout
      <3>2. x \in Countings /\ x.moved = TRUE /\ x.at = "collecting"
        BY <2>2, <3>1 DEF Countings
      <3> HIDE DEF x
      <3> QED BY <1>1, <2>1, <3>1, <3>2 DEF CountedInv
    <2>3. CASE counting.at # "collecting"
      <3>1. counting' = counting
        BY <2>3 DEF Checkout
      <3> QED BY <1>1, <2>1, <2>3, <3>1 DEF CountedInv
    <2> QED BY <2>2, <2>3
  <1>6. LocalTypeOK'
    BY <1>1, <1>2, <1>4, <1>5 DEF LocalInv, LocalTypeOK
  <1>7. TestedInv'
    <2>1. \A s \in Shards : shardDisk'[s].manifest # None => OfCommit(shardDisk[s].manifest, s)'
      BY <1>1, LocalTypes DEF OfCommit
    <2> QED BY <1>3, <2>1 DEF TestedInv
  <1>8. TestersKept
    BY <1>2, <1>3 DEF TestersKept
  <1>9. TestersInv' /\ \A d \in Nat : Unused(d)' => Unused(d)
    BY <1>8, TestersStep DEF LocalInv
  <1>10. \A d \in Nat : Unnamed(d) => Unnamed(d)'
    BY <1>1 DEF Unnamed, Avoids
  <1>11. UnnamedInv'
    BY <1>9, <1>10, FreeStep DEF LocalInv
  <1>12. ReportInv'
    BY <1>1 DEF LocalInv, ReportInv, ReportOK, ReportFor
  <1> QED BY <1>5, <1>6, <1>7, <1>9, <1>11, <1>12 DEF LocalInv

LEMMA LocalInitInv == LocalInit => LocalInv
  <1> SUFFICES ASSUME LocalInit PROVE LocalInv
    OBVIOUS
  <1>1. [log |-> NoRun, data |-> NoRun, manifest |-> None] \in ShardFiles
    BY DEF ShardFiles, NoRun
  <1>2. /\ \A s \in Shards : shardDisk[s].data = NoRun /\ shardDisk[s].manifest = None
        /\ \A r \in Runners : runner[r] = NoCommand
        /\ merge = NoCommand /\ counting = NoCommand /\ merged.manifest = None
        /\ inventory.record = None /\ spent.runs = 0
    BY DEF LocalInit
  <1>3. LocalTypeOK
    <2>1. shardDisk \in [Shards -> ShardFiles] /\ runner \in [Runners -> {NoCommand} \cup ShardRuns]
      BY <1>1 DEF LocalInit
    <2>2. merged \in [manifest : {None} \cup MergedDocs, report : Reports]
      BY DEF LocalInit, Reports
    <2>3. inventory \in [collection : {None} \cup Collections, record : {None} \cup Inventories]
      BY DEF LocalInit
    <2> QED BY <2>1, <2>2, <2>3 DEF LocalInit, LocalTypeOK
  <1>4. TestedInv /\ CountedInv /\ ReportInv
    BY <1>2 DEF TestedInv, CountedInv, ReportInv
  <1>5. \A r \in Runners : runner[r].at # "testing"
    BY <1>2, NoCommandIsIdle
  <1>6. TestersInv
    BY <1>5 DEF TestersInv
  <1>7. UnnamedInv
    BY <1>2, <1>5 DEF UnnamedInv, Unused, Unnamed, NoRun
  <1> QED BY <1>3, <1>4, <1>6, <1>7 DEF LocalInv

LEMMA LocalNextInv == LocalInv /\ [LocalNext]_localVars => LocalInv'
  <1> SUFFICES ASSUME LocalInv, [LocalNext]_localVars PROVE LocalInv'
    OBVIOUS
  <1>1. CASE UNCHANGED localVars
    <2>1. UNCHANGED <<checkout, pipeline, shardDisk, merged, runner, merge, inventory, counting, spent>>
      BY <1>1 DEF localVars
    <2>2. LocalTypeOK' /\ CountedInv'
      BY <2>1 DEF LocalInv, LocalTypeOK, CountedInv
    <2> QED BY <2>1, <2>2, InventoryFrameOK DEF InventoryFrame, LocalInv
  <1>2. CASE LocalNext
    <2>1. ASSUME NEW r \in Runners, NEW passed \in BOOLEAN, NEW data \in 0 .. spent.runs,
                 RunTests(r, passed, data)
          PROVE  LocalInv'
      <3>1. data \in Nat
        BY <2>1, LocalTypes
      <3> QED BY <2>1, <3>1, RunTestsInv
    <2> QED BY <1>2, <2>1, CheckoutInv, RunBeginsInv, RunGoesOnInv, MergeBeginsInv, MergeReadsInv,
         MergeHashesInv, MergeCombinesInv, MergeEndsInv, InventoryStep DEF LocalNext
  <1> QED BY <1>1, <1>2

\* The local runners, the merge and the three verifiers, with shards that run again, die
\* or overlap and checkouts under all of them: verified tests are tests of every file of
\* the commit, a verified coverage report is of the data files in place, and a verified
\* inventory of the commit's own collection, but for a checkout under the run itself.
THEOREM LocalEvidenceHolds == LocalSpec => []VerifiedEvidenceIsTrue
<1>1. LocalInv => VerifiedEvidenceIsTrue
  <2> SUFFICES ASSUME LocalInv PROVE VerifiedEvidenceIsTrue
    OBVIOUS
  <2>1. ASSUME pipeline = "tests", VerifyLocal,
               ~\E row \in {shardDisk[s].manifest : s \in Shards} : row.moved,
               NEW f \in Discover(checkout)
        PROVE  \E row \in {shardDisk[s].manifest : s \in Shards} :
                 f \in row.files /\ row.passed /\ row.tested = checkout
    <3> DEFINE s == f % ShardCount
               row == shardDisk[s].manifest
    <3>1. f \in Nat /\ s \in Shards
      <4>1. TestFiles[checkout] \in Nat
        BY LocalTypes, ShardAssumption
      <4> QED BY <2>1, <4>1, ShardAssumption DEF Discover, Shards
    <3>2. ShardHolds(s, row)
      BY <2>1, <3>1 DEF VerifyLocal
    <3>3. row # None /\ row.git = checkout /\ row.passed /\ ~row.moved
      BY <2>1, <3>1, <3>2 DEF ShardHolds
    <3>4. OfCommit(row, s)
      BY <3>1, <3>3, LocalTypes
    <3>5. row.tested = checkout /\ f \in row.files
      BY <2>1, <3>3, <3>4 DEF OfCommit, SelectShard
    <3> QED BY <3>1, <3>3, <3>5
  <2>2. VerifiedIsTested
    BY <2>1 DEF VerifiedIsTested
  <2>3. ASSUME pipeline = "coverage", VerifyLocal
        PROVE  merged.report = [s \in Shards |-> shardDisk[s].data]
    <3>1. merged.manifest # None /\ merged.manifest.report # NoReport
          /\ merged.report = merged.manifest.report
          /\ \A s \in Shards : ShardHolds(s, shardDisk[s].manifest)
      BY <2>3 DEF VerifyLocal
    <3>2. merged.report \in [Shards -> Nat]
      BY <3>1 DEF LocalInv, LocalTypeOK, Reports
    <3>3. ReportFor(merged.manifest.shards, merged.manifest.report, shardDisk)
      BY <3>1 DEF LocalInv, ReportInv, ReportOK
    <3>4. ASSUME NEW s \in Shards PROVE merged.report[s] = shardDisk[s].data
      <4>1. /\ merged.manifest.shards[s] # None
            /\ merged.manifest.shards[s].data = shardDisk[s].data
            /\ merged.manifest.shards[s].data # NoRun
        BY <2>3, <3>1 DEF ShardHolds
      <4> QED BY <3>1, <3>3, <4>1 DEF ReportFor
    <3> QED BY <3>2, <3>4
  <2>4. CoverageIsOfShards
    BY <2>3 DEF CoverageIsOfShards
  <2>5. InventoryIsCurrent
    BY DEF InventoryIsCurrent, ReadVerified, LocalInv, CountedInv
  <2> QED BY <2>2, <2>4, <2>5 DEF VerifiedEvidenceIsTrue
<1> QED BY <1>1, LocalInitInv, LocalNextInv, PTL DEF LocalSpec
=============================================================================
