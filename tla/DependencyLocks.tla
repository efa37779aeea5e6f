--------------------------- MODULE DependencyLocks ---------------------------
(* scripts/bootstrap_dependency_locks.py: one command resolves both lock    *)
(* files in a private directory and promotes them under a durable rollback  *)
(* journal.  A lock is a version number, 0 when the file is absent; the     *)
(* digest of a file is its version.  Any step may raise, the process may    *)
(* die between two steps, and people, merges and other tools may write or   *)
(* remove a lock at any time, also between two reads of the command.        *)
EXTENDS Naturals, TLAPS

CONSTANTS Keys,            \* TARGETS, promoted in this order: <<"uv", "npm">>
          NoJournal,
          MaxLockVersion,  \* bound on the different contents of a lock
          MaxLockFaults    \* bound on exceptions and on crashes

VARIABLES lockFile,  \* the two lock files of the repository
          lockJournal,   \* .dependency-lock-bootstrap.transaction.json
          material,  \* the transaction directory: backups and candidates
          boot,      \* the running command: step, file index, digests, journal
          standing,  \* history: the pair that stood when the transaction
                     \* began, both its candidates once it is committed, and
                     \* what others made of the pair outside a transaction
          disturbed, \* history: the journal records another pair than the
                     \* standing one, or others wrote beside the journal
          lockFaults

lockVars ==
    <<lockFile, lockJournal, material, boot, standing, disturbed, lockFaults>>
lockHistory == <<standing, disturbed>>

Files == 1..2
Absent == 0
LockPairs == [Files -> Nat]
BootSteps == {"idle", "recover", "rollback", "recovered", "digest", "resolve",
              "prepare", "commit", "mark", "unlink", "leave"}
LockStatuses == {"PREPARED", "VERIFIED_BOTH"} \cup {Keys[i] : i \in Files}

ASSUME LocksAssumption ==
    /\ NoJournal \notin [status : LockStatuses, before : LockPairs]
    /\ MaxLockVersion \in Nat

Gone == [kept |-> FALSE, backup |-> <<Absent, Absent>>,
         candidate |-> <<Absent, Absent>>]
Idle == [at |-> "idle", file |-> 1, before |-> <<Absent, Absent>>,
         expect |-> <<Absent, Absent>>]

LocksInit ==
    /\ lockFile \in {<<1, 1>>, <<1, Absent>>, <<Absent, Absent>>}
    /\ lockJournal = NoJournal /\ material = Gone /\ boot = Idle
    /\ standing = lockFile /\ disturbed = FALSE /\ lockFaults = 0

LockContents == 0..MaxLockVersion

(* bootstrap() and --recover-only: the journal is dealt with first.         *)
BootStart(recoverOnly) ==
    /\ boot.at = "idle"
    /\ boot' = IF lockJournal # NoJournal
                 THEN [boot EXCEPT !.at = "recover", !.before = lockJournal.before]
                 ELSE IF recoverOnly THEN Idle ELSE [boot EXCEPT !.at = "digest"]
    /\ UNCHANGED <<lockFile, lockJournal, material, lockHistory, lockFaults>>

(* _restore_pre_transaction_state: a file that was present is replaced by   *)
(* its backup once the backup still has the recorded digest, one that was   *)
(* absent is removed; both are verified at the end.  at is "recover" in     *)
(* recover_incomplete_transaction and "rollback" in the command itself.     *)
RestorePreTransaction ==
    /\ boot.at \in {"recover", "rollback"} /\ boot.file \in Files
    /\ LET i == boot.file  b == boot.before[i] IN
       IF \/ ~material.kept
          \/ b # Absent /\ material.backup[i] # b
         THEN /\ boot' = [boot EXCEPT !.at = "leave"]
              /\ UNCHANGED lockFile
         ELSE /\ lockFile' = [lockFile EXCEPT ![i] = b]
              /\ boot' = [boot EXCEPT !.file = i + 1]
    /\ UNCHANGED <<lockJournal, material, lockHistory, lockFaults>>

(* The end of either restoration: unlink of the journal.                    *)
RestoreVerified ==
    /\ boot.at \in {"recover", "rollback"} /\ boot.file = 3
    /\ IF lockFile = boot.before
         THEN /\ lockJournal' = NoJournal
              /\ boot' = [boot EXCEPT !.at = IF @ = "recover" THEN "recovered"
                                             ELSE "leave"]
         ELSE UNCHANGED lockJournal /\ boot' = [boot EXCEPT !.at = "leave"]
    /\ UNCHANGED <<lockFile, material, lockHistory, lockFaults>>

(* shutil.rmtree of the recovered directory; a bootstrap goes on, a         *)
(* --recover-only returns.                                                  *)
RecoveredCleanup ==
    /\ boot.at = "recovered"
    /\ material' = Gone
    /\ \/ boot' = Idle
       \/ boot' = [Idle EXCEPT !.at = "digest"]
    /\ UNCHANGED <<lockFile, lockJournal, lockHistory, lockFaults>>

(* The digest of one lock before; others may write between the two reads.   *)
(* The new transaction directory follows the second.                        *)
DigestBefore ==
    /\ boot.at = "digest" /\ boot.file \in Files
    /\ LET i == boot.file IN
       /\ boot' = [boot EXCEPT !.before = [@ EXCEPT ![i] = lockFile[i]],
                               !.file = IF i = 1 THEN 2 ELSE 1,
                               !.at = IF i = 1 THEN "digest" ELSE "resolve"]
       /\ material' = IF i = 1 THEN material ELSE [Gone EXCEPT !.kept = TRUE]
    /\ UNCHANGED <<lockFile, lockJournal, lockHistory, lockFaults>>

(* _run for one ecosystem: it succeeds with a candidate, or the tool is     *)
(* missing, fails, or is killed with its process tree at the timeout and    *)
(* leaves none.  npm is resolved even when uv failed.                       *)
Resolve ==
    /\ boot.at = "resolve" /\ boot.file \in Files
    /\ \E v \in LockContents :
            material' = [material EXCEPT !.candidate[boot.file] = v]
    /\ boot' = [boot EXCEPT !.file = @ + 1]
    /\ UNCHANGED <<lockFile, lockJournal, lockHistory, lockFaults>>

(* all_ok: nothing is promoted unless both ecosystems resolved.             *)
AllResolved ==
    /\ boot.at = "resolve" /\ boot.file = 3
    /\ boot' = [boot EXCEPT !.file = 1,
                  !.at = IF \A i \in Files : material.candidate[i] # Absent
                           THEN "prepare" ELSE "leave"]
    /\ UNCHANGED <<lockFile, lockJournal, material, lockHistory, lockFaults>>

(* _prepare_transaction, one file: the backup of a lock that was present    *)
(* must have the digest that was taken before the resolution; one that was  *)
(* absent is not looked at again.                                           *)
PrepareBackup ==
    /\ boot.at = "prepare" /\ boot.file \in Files
    /\ LET i == boot.file IN
       /\ material' = IF boot.before[i] = Absent THEN material
                      ELSE [material EXCEPT !.backup[i] = lockFile[i]]
       /\ boot' = IF boot.before[i] \notin {Absent, lockFile[i]}
                    THEN [boot EXCEPT !.at = "leave"]
                    ELSE [boot EXCEPT !.file = i + 1]
    /\ UNCHANGED <<lockFile, lockJournal, lockHistory, lockFaults>>

(* Mutation of WriteJournal: the journal waits for the first promotion.     *)
LateJournal ==
    /\ boot.at = "prepare" /\ boot.file = 3
    /\ UNCHANGED lockJournal
    /\ boot' = [boot EXCEPT !.at = "commit", !.file = 1,
                         !.expect = material.candidate]
    /\ UNCHANGED <<lockFile, material, lockHistory, lockFaults>>

(* The PREPARED journal is written, atomically, before the first promotion. *)
WriteJournal ==
    /\ boot.at = "prepare" /\ boot.file = 3
    /\ lockJournal' = [status |-> "PREPARED", before |-> boot.before]
    /\ boot' = [boot EXCEPT !.at = "commit", !.file = 1,
                         !.expect = material.candidate]
    /\ standing' = lockFile /\ disturbed' = (lockFile # boot.before)
    /\ UNCHANGED <<lockFile, material, lockFaults>>

(* _commit_transaction, one file: _promote_file moves the candidate.        *)
PromoteLock ==
    /\ boot.at = "commit" /\ boot.file \in Files
    /\ LET i == boot.file IN
       /\ lockFile' = [lockFile EXCEPT ![i] = material.candidate[i]]
       /\ material' = [material EXCEPT !.candidate[i] = Absent]
    /\ boot' = [boot EXCEPT !.at = "mark"]
    /\ UNCHANGED <<lockJournal, lockHistory, lockFaults>>

(* _update_journal after a promotion.                                       *)
MarkPromoted ==
    /\ boot.at = "mark"
    /\ lockJournal' = [status |-> Keys[boot.file], before |-> boot.before]
    /\ boot' = [boot EXCEPT !.at = "commit", !.file = @ + 1]
    /\ UNCHANGED <<lockFile, material, lockHistory, lockFaults>>

(* Both promoted files must have the candidates' digests; VERIFIED_BOTH.    *)
VerifyBoth ==
    /\ boot.at = "commit" /\ boot.file = 3
    /\ IF lockFile = boot.expect
         THEN /\ lockJournal' = [status |-> "VERIFIED_BOTH", before |-> boot.before]
              /\ boot' = [boot EXCEPT !.at = "unlink"]
         ELSE /\ UNCHANGED lockJournal
              /\ boot' = [boot EXCEPT !.at = "rollback", !.file = 1]
    /\ UNCHANGED <<lockFile, material, lockHistory, lockFaults>>

(* The unlink of the journal is the commit point.                           *)
UnlinkJournal ==
    /\ boot.at = "unlink"
    /\ lockJournal' = NoJournal
    /\ standing' = boot.expect
    /\ boot' = [boot EXCEPT !.at = "leave"]
    /\ UNCHANGED <<lockFile, material, disturbed, lockFaults>>

(* Mutation of BootLeave: the material goes in any case.                    *)
EagerLeave ==
    /\ boot.at = "leave"
    /\ material' = Gone
    /\ boot' = Idle
    /\ UNCHANGED <<lockFile, lockJournal, lockHistory, lockFaults>>

(* The finally clause: the material goes only when no journal needs it.     *)
BootLeave ==
    /\ boot.at = "leave"
    /\ material' = IF lockJournal = NoJournal THEN Gone ELSE material
    /\ boot' = Idle
    /\ UNCHANGED <<lockFile, lockJournal, lockHistory, lockFaults>>

(* An exception.  In the commit it starts the rollback; in the rollback it  *)
(* leaves the journal in place; in the recovery it ends the command.        *)
BootRaises ==
    /\ boot.at \notin {"idle", "leave"} /\ lockFaults < MaxLockFaults
    /\ lockFaults' = lockFaults + 1
    /\ boot' = IF boot.at \in {"commit", "mark", "unlink"}
                 THEN [boot EXCEPT !.at = "rollback", !.file = 1]
                 ELSE [boot EXCEPT !.at = "leave"]
    /\ UNCHANGED <<lockFile, lockJournal, material, lockHistory>>

(* The process dies, or is cancelled by something that is not an Exception: *)
(* what is on disk stays.                                                   *)
BootDies ==
    /\ boot.at # "idle" /\ lockFaults < MaxLockFaults
    /\ lockFaults' = lockFaults + 1
    /\ boot' = Idle
    /\ UNCHANGED <<lockFile, lockJournal, material, lockHistory>>

(* Somebody else writes or removes a lock.                                  *)
OtherWriter ==
    /\ \E i \in Files, v \in LockContents :
            /\ v # lockFile[i]
            /\ lockFile' = [lockFile EXCEPT ![i] = v]
    /\ IF lockJournal = NoJournal
         THEN standing' = lockFile' /\ UNCHANGED disturbed
         ELSE disturbed' = TRUE /\ UNCHANGED standing
    /\ UNCHANGED <<lockJournal, material, boot, lockFaults>>

LocksNext ==
    \/ \E r \in BOOLEAN : BootStart(r)
    \/ RestorePreTransaction \/ RestoreVerified \/ RecoveredCleanup
    \/ DigestBefore \/ Resolve \/ AllResolved \/ PrepareBackup \/ WriteJournal
    \/ PromoteLock \/ MarkPromoted \/ VerifyBoth \/ UnlinkJournal \/ BootLeave
    \/ BootRaises \/ BootDies \/ OtherWriter

LocksSpec == LocksInit /\ [][LocksNext]_lockVars

-----------------------------------------------------------------------------
(* Properties                                                               *)

(* BOTH_OR_NONE: while no journal is on disk the two locks are the pair     *)
(* that stood when the transaction began, or both its candidates, whatever  *)
(* raised or died; unless others wrote while it looked.  A lock that was    *)
(* present is digested again as it is backed up, one that was absent is     *)
(* not, and nothing keeps others from writing after either: the pair of the *)
(* journal may then never have stood.                                       *)
BothOrNone == lockJournal = NoJournal /\ ~disturbed => lockFile = standing

(* The same whatever others write, which is what atomic_policy reads as.    *)
BothOrNoneDespiteWriters == lockJournal = NoJournal => lockFile = standing

(* A journal can always be rolled back: its transaction directory stands    *)
(* with a backup of every lock that was present, so no crash or failed      *)
(* rollback leaves the repository behind a journal recovery must refuse.    *)
JournalCanRollBack ==
    lockJournal # NoJournal =>
        material.kept /\ \A i \in Files :
            lockJournal.before[i] # Absent => material.backup[i] = lockJournal.before[i]

\* bootstrap_dependency_locks.py: outside a transaction the two locks belong
\* together, and inside one the way back is on disk.
LocksAreRecoverable == BothOrNone /\ JournalCanRollBack

-----------------------------------------------------------------------------
(* Proof.  The journal is what separates the two states of the repository:  *)
(* while there is none the locks are the standing pair, and while there is  *)
(* one it records that pair and the directory it names holds its locks.     *)

BootCommands == [at : BootSteps, file : 1..3, before : LockPairs, expect : LockPairs]

LocksTypeOK ==
    /\ lockFile \in LockPairs
    /\ lockJournal = NoJournal \/ lockJournal \in [status : LockStatuses, before : LockPairs]
    /\ material \in [kept : BOOLEAN, backup : LockPairs, candidate : LockPairs]
    /\ boot \in BootCommands
    /\ standing \in LockPairs /\ disturbed \in BOOLEAN

(* Which steps of the command run with a journal, and which without one.    *)
JournalFollowsCommand ==
    /\ boot.at \in {"digest", "resolve", "prepare", "recovered"} => lockJournal = NoJournal
    /\ boot.at \in {"commit", "mark", "unlink", "rollback", "recover"} =>
         lockJournal # NoJournal /\ lockJournal.before = boot.before

(* The pair to go back to is the standing one; the directory is there.      *)
PairsStand ==
    /\ lockJournal = NoJournal /\ ~disturbed => lockFile = standing
    /\ lockJournal # NoJournal /\ ~disturbed => lockJournal.before = standing
    /\ boot.at = "unlink" /\ ~disturbed => lockFile = boot.expect
    /\ boot.at \in {"resolve", "prepare"} => material.kept

(* _prepare_transaction has verified the backups it has passed.             *)
BackupsAreVerified ==
    boot.at = "prepare" =>
        \A i \in Files : i < boot.file /\ boot.before[i] # Absent
                           => material.backup[i] = boot.before[i]

MarkedIsAFile == boot.at \in {"idle", "digest", "mark"} => boot.file \in Files

LocksInv == /\ LocksTypeOK /\ JournalFollowsCommand /\ PairsStand
            /\ BackupsAreVerified /\ MarkedIsAFile /\ JournalCanRollBack

(* A tuple of two versions is a pair.                                       *)
LEMMA TuplesArePairs == \A a, b \in Nat : <<a, b>> \in LockPairs
BY DEF LockPairs, Files

(* Replacing one lock of a pair by a version leaves a pair.                 *)
LEMMA PairsStayPairs ==
    ASSUME NEW p \in LockPairs, NEW i \in Files, NEW v \in Nat
    PROVE  [p EXCEPT ![i] = v] \in LockPairs
BY DEF LockPairs

(* A step of the command changes where it is and which file it is at.       *)
LEMMA CommandsMove ==
    ASSUME NEW c \in BootCommands, NEW a \in BootSteps, NEW f \in 1..3
    PROVE  /\ [c EXCEPT !.at = a, !.file = f] \in BootCommands
           /\ [c EXCEPT !.file = f, !.at = a] \in BootCommands
<1>1. [c EXCEPT !.at = a, !.file = f] \in BootCommands  BY DEF BootCommands
<1>2. [c EXCEPT !.file = f, !.at = a] \in BootCommands  BY DEF BootCommands
<1> QED  BY <1>1, <1>2

(* A step that also records a pair.                                         *)
LEMMA CommandsRecord ==
    ASSUME NEW c \in BootCommands, NEW a \in BootSteps, NEW f \in 1..3, NEW p \in LockPairs
    PROVE  /\ [c EXCEPT !.at = a, !.file = f, !.before = p] \in BootCommands
           /\ [c EXCEPT !.at = a, !.file = f, !.expect = p] \in BootCommands
<1>1. [c EXCEPT !.at = a, !.file = f, !.before = p] \in BootCommands  BY DEF BootCommands
<1>2. [c EXCEPT !.at = a, !.file = f, !.expect = p] \in BootCommands  BY DEF BootCommands
<1> QED  BY <1>1, <1>2

(* At the start there is no journal, and the locks are the first pair.      *)
LEMMA LocksInitially == LocksInit => LocksInv
<1> SUFFICES ASSUME LocksInit PROVE LocksInv  OBVIOUS
<1>1. lockFile \in LockPairs /\ <<Absent, Absent>> \in LockPairs
  BY TuplesArePairs DEF LocksInit, Absent
<1>2. LocksTypeOK
  <2>1. standing \in LockPairs /\ disturbed \in BOOLEAN  BY <1>1 DEF LocksInit
  <2>2. /\ material \in [kept : BOOLEAN, backup : LockPairs, candidate : LockPairs]
        /\ boot \in BootCommands
    BY <1>1 DEF LocksInit, BootCommands, BootSteps, Gone, Idle
  <2> QED  BY <1>1, <2>1, <2>2 DEF LocksInit, LocksTypeOK
<1>3. JournalFollowsCommand /\ MarkedIsAFile /\ BackupsAreVerified
  BY DEF LocksInit, JournalFollowsCommand, MarkedIsAFile, BackupsAreVerified, Idle, Files
<1>4. PairsStand /\ JournalCanRollBack
  BY DEF LocksInit, PairsStand, JournalCanRollBack, Idle
<1> QED  BY <1>2, <1>3, <1>4 DEF LocksInv

(* What the command reads of its own state never leaves the types.          *)
LEMMA LocksStepTypeOK ==
    ASSUME LocksInv, [LocksNext]_lockVars PROVE LocksTypeOK'
<1> USE DEF LocksInv, lockHistory
<1>a. /\ <<Absent, Absent>> \in LockPairs
      /\ Gone \in [kept : BOOLEAN, backup : LockPairs, candidate : LockPairs]
      /\ Idle \in BootCommands
  BY TuplesArePairs DEF Absent, Gone, Idle, BootCommands, BootSteps
<1>1. ASSUME NEW r \in BOOLEAN, BootStart(r) PROVE LocksTypeOK'
  BY <1>1, <1>a DEF BootStart, LocksTypeOK, BootCommands, BootSteps
<1>2. CASE RestorePreTransaction
  BY <1>2, PairsStayPairs
      DEF RestorePreTransaction, LocksTypeOK, BootCommands, BootSteps, LockPairs, Files
<1>3. CASE RestoreVerified
  BY <1>3 DEF RestoreVerified, LocksTypeOK, BootCommands, BootSteps
<1>4. CASE RecoveredCleanup
  BY <1>4, <1>a DEF RecoveredCleanup, LocksTypeOK, BootCommands, BootSteps
<1>5. CASE DigestBefore
  <2>1. lockFile[boot.file] \in Nat /\ boot.file \in Files
    BY <1>5 DEF DigestBefore, LocksTypeOK, LockPairs
  <2>2. [boot.before EXCEPT ![boot.file] = lockFile[boot.file]] \in LockPairs
    BY <2>1, PairsStayPairs DEF LocksTypeOK, BootCommands
  <2>3. boot' \in BootCommands
    <3> DEFINE b == [boot.before EXCEPT ![boot.file] = lockFile[boot.file]]
    <3>0. boot \in BootCommands /\ b \in LockPairs  BY <2>2 DEF LocksTypeOK
    <3> HIDE DEF b
    <3>1. boot' = [boot EXCEPT !.before = b, !.file = IF boot.file = 1 THEN 2 ELSE 1,
                               !.at = IF boot.file = 1 THEN "digest" ELSE "resolve"]
      BY <1>5 DEF DigestBefore, b
    <3>2. "digest" \in BootSteps /\ "resolve" \in BootSteps  BY DEF BootSteps
    <3> DEFINE a == IF boot.file = 1 THEN "digest" ELSE "resolve"
               f == IF boot.file = 1 THEN 2 ELSE 1
    <3>3. a \in BootSteps /\ f \in 1..3 /\ boot' = [boot EXCEPT !.before = b, !.file = f, !.at = a]
      BY <3>1, <3>2
    <3> HIDE DEF a, f
    <3> QED  BY <3>0, <3>3 DEF BootCommands
  <2> QED  BY <1>5, <2>3, <1>a DEF DigestBefore, LocksTypeOK, Gone
<1>6. CASE Resolve
  <2>1. LockContents \subseteq Nat  BY LocksAssumption DEF LockContents
  <2>2. PICK v \in Nat : material' = [material EXCEPT !.candidate[boot.file] = v]
    BY <1>6, <2>1 DEF Resolve
  <2> QED  BY <1>6, <2>2, PairsStayPairs
      DEF Resolve, LocksTypeOK, BootCommands, BootSteps, Files
<1>7. CASE AllResolved
  <2>1. boot' \in BootCommands
    <3>0. boot \in BootCommands /\ 1 \in 1..3  BY DEF LocksTypeOK
    <3>1. "prepare" \in BootSteps /\ "leave" \in BootSteps  BY DEF BootSteps
    <3>2. PICK a \in BootSteps : boot' = [boot EXCEPT !.file = 1, !.at = a]
      BY <1>7, <3>1 DEF AllResolved
    <3> QED  BY <3>0, <3>2, CommandsMove
  <2> QED  BY <1>7, <2>1 DEF AllResolved, LocksTypeOK
<1>8. CASE PrepareBackup
  <2>1. lockFile[boot.file] \in Nat  BY <1>8
      DEF PrepareBackup, LocksTypeOK, BootCommands, BootSteps, LockPairs
  <2> QED  BY <1>8, <2>1, PairsStayPairs
      DEF PrepareBackup, LocksTypeOK, BootCommands, BootSteps, Files
<1>9. CASE WriteJournal
  <2>1. boot' \in BootCommands
    <3>0. boot \in BootCommands /\ 1 \in 1..3 /\ material.candidate \in LockPairs
      BY DEF LocksTypeOK
    <3>1. "commit" \in BootSteps  BY DEF BootSteps
    <3>2. boot' = [boot EXCEPT !.at = "commit", !.file = 1, !.expect = material.candidate]
      BY <1>9 DEF WriteJournal
    <3> QED  BY <3>0, <3>1, <3>2, CommandsRecord
  <2>2. lockJournal' \in [status : LockStatuses, before : LockPairs]
    BY <1>9 DEF WriteJournal, LocksTypeOK, BootCommands, LockStatuses
  <2> QED  BY <1>9, <2>1, <2>2 DEF WriteJournal, LocksTypeOK
<1>10. CASE PromoteLock
  <2>1. material.candidate[boot.file] \in Nat
    BY <1>10 DEF PromoteLock, LocksTypeOK, BootCommands, BootSteps, LockPairs
  <2> QED  BY <1>10, <2>1, PairsStayPairs
      DEF PromoteLock, LocksTypeOK, BootCommands, BootSteps, Absent
<1>11. CASE MarkPromoted
  <2>1. boot' \in BootCommands
    <3>1. boot.file + 1 \in 1..3  BY <1>11 DEF MarkPromoted, MarkedIsAFile, Files
    <3> QED  BY <1>11, <3>1, CommandsMove DEF MarkPromoted, LocksTypeOK, BootSteps
  <2>2. lockJournal' \in [status : LockStatuses, before : LockPairs]
    BY <1>11
        DEF MarkPromoted, LocksTypeOK, BootCommands, LockStatuses, MarkedIsAFile, Files
  <2> QED  BY <1>11, <2>1, <2>2 DEF MarkPromoted, LocksTypeOK
<1>12. CASE VerifyBoth
  <2>1. boot' \in BootCommands
    <3>1. CASE lockFile = boot.expect
      BY <1>12, <3>1 DEF VerifyBoth, LocksTypeOK, BootCommands, BootSteps
    <3>2. CASE lockFile # boot.expect
      <4>1. boot \in BootCommands /\ 1 \in 1..3  BY DEF LocksTypeOK
      <4>2. "rollback" \in BootSteps  BY DEF BootSteps
      <4>3. boot' = [boot EXCEPT !.at = "rollback", !.file = 1]
        BY <1>12, <3>2 DEF VerifyBoth
      <4> QED  BY <4>1, <4>2, <4>3, CommandsMove
    <3> QED  BY <3>1, <3>2
  <2>2. \/ UNCHANGED lockJournal
        \/ lockJournal' \in [status : LockStatuses, before : LockPairs]
    BY <1>12 DEF VerifyBoth, LocksTypeOK, BootCommands, LockStatuses
  <2> QED  BY <1>12, <2>1, <2>2 DEF VerifyBoth, LocksTypeOK
<1>13. CASE UnlinkJournal
  BY <1>13 DEF UnlinkJournal, LocksTypeOK, BootCommands, BootSteps
<1>14. CASE BootLeave
  BY <1>14, <1>a DEF BootLeave, LocksTypeOK, BootCommands, BootSteps
<1>15. CASE BootRaises
  <2>1. boot' \in BootCommands
    <3>1. CASE boot.at \in {"commit", "mark", "unlink"}
      <4>1. boot \in BootCommands /\ 1 \in 1..3  BY DEF LocksTypeOK
      <4>2. "rollback" \in BootSteps  BY DEF BootSteps
      <4>3. boot' = [boot EXCEPT !.at = "rollback", !.file = 1]
        BY <1>15, <3>1 DEF BootRaises
      <4> QED  BY <4>1, <4>2, <4>3, CommandsMove
    <3>2. CASE boot.at \notin {"commit", "mark", "unlink"}
      BY <1>15, <3>2 DEF BootRaises, LocksTypeOK, BootCommands, BootSteps
    <3> QED  BY <3>1, <3>2
  <2> QED  BY <1>15, <2>1 DEF BootRaises, LocksTypeOK
<1>16. CASE BootDies
  BY <1>16, <1>a DEF BootDies, LocksTypeOK, BootCommands, BootSteps
<1>17. CASE OtherWriter
  <2>1. LockContents \subseteq Nat  BY LocksAssumption DEF LockContents
  <2>2. PICK i \in Files, v \in Nat : lockFile' = [lockFile EXCEPT ![i] = v]
    BY <1>17, <2>1 DEF OtherWriter
  <2>3. lockFile' \in LockPairs  BY <2>2, PairsStayPairs DEF LocksTypeOK
  <2>4. standing' \in LockPairs /\ disturbed' \in BOOLEAN
    BY <1>17, <2>3 DEF OtherWriter, LocksTypeOK
  <2>5. UNCHANGED <<lockJournal, material, boot>>  BY <1>17 DEF OtherWriter
  <2> QED  BY <2>3, <2>4, <2>5 DEF LocksTypeOK
<1>18. CASE UNCHANGED lockVars
  BY <1>18 DEF lockVars, LocksTypeOK, BootCommands, BootSteps
<1> QED
  BY <1>1, <1>2, <1>3, <1>4, <1>5, <1>6, <1>7, <1>8, <1>9, <1>10, <1>11, <1>12,
     <1>13, <1>14, <1>15, <1>16, <1>17, <1>18 DEF LocksNext

(* Every step of the command, of a fault and of another writer keeps the    *)
(* invariant.                                                               *)
LEMMA LocksStep ==
    ASSUME LocksInv, [LocksNext]_lockVars PROVE LocksInv'
<1> DEFINE Kept == /\ JournalFollowsCommand' /\ PairsStand'
                   /\ BackupsAreVerified' /\ MarkedIsAFile' /\ JournalCanRollBack'
<1> USE DEF LocksInv, LocksTypeOK, BootCommands, JournalFollowsCommand, PairsStand,
        BackupsAreVerified, MarkedIsAFile, JournalCanRollBack, Files, Gone, Idle, lockHistory
<1>1. ASSUME NEW r \in BOOLEAN, BootStart(r) PROVE Kept
  BY <1>1 DEF BootStart
<1>2. ASSUME RestorePreTransaction PROVE Kept
  BY <1>2 DEF RestorePreTransaction
<1>3. ASSUME RestoreVerified PROVE Kept
  BY <1>3 DEF RestoreVerified
<1>4. ASSUME RecoveredCleanup PROVE Kept
  BY <1>4 DEF RecoveredCleanup
<1>5. ASSUME DigestBefore PROVE Kept
  BY <1>5 DEF DigestBefore
<1>6. ASSUME Resolve PROVE Kept
  BY <1>6 DEF Resolve
<1>7. ASSUME AllResolved PROVE Kept
  BY <1>7 DEF AllResolved
<1>8. ASSUME PrepareBackup PROVE Kept
  <2>1. JournalFollowsCommand' /\ PairsStand' /\ JournalCanRollBack'
    BY <1>8 DEF PrepareBackup
  <2>2. BackupsAreVerified' /\ MarkedIsAFile'
    BY <1>8 DEF PrepareBackup, LockPairs
  <2> QED  BY <2>1, <2>2
<1>9. ASSUME WriteJournal PROVE Kept
  <2>1. "PREPARED" \in LockStatuses /\ boot.before \in LockPairs
    BY <1>9 DEF WriteJournal, LockStatuses
  <2>2. lockJournal' # NoJournal /\ lockJournal'.before = boot.before
    BY <1>9, <2>1, LocksAssumption DEF WriteJournal
  <2> QED  BY <1>9, <2>2 DEF WriteJournal
<1>10. ASSUME PromoteLock PROVE Kept
  BY <1>10 DEF PromoteLock
<1>11. ASSUME MarkPromoted PROVE Kept
  <2>1. Keys[boot.file] \in LockStatuses /\ boot.before \in LockPairs
    BY <1>11 DEF MarkPromoted, LockStatuses
  <2>2. lockJournal' # NoJournal /\ lockJournal'.before = boot.before
    BY <1>11, <2>1, LocksAssumption DEF MarkPromoted
  <2> QED  BY <1>11, <2>2 DEF MarkPromoted
<1>12. ASSUME VerifyBoth PROVE Kept
  <2>1. "VERIFIED_BOTH" \in LockStatuses /\ boot.before \in LockPairs
    BY DEF LockStatuses
  <2>2. lockJournal' # NoJournal /\ lockJournal'.before = boot.before
    BY <1>12, <2>1, LocksAssumption DEF VerifyBoth
  <2>3. boot'.at \in {"unlink", "rollback"} /\ boot'.before = boot.before
    BY <1>12 DEF VerifyBoth
  <2>4. lockJournal # NoJournal /\ lockJournal.before = boot.before
    BY <1>12 DEF VerifyBoth
  <2>5. boot'.at = "unlink" => lockFile = boot'.expect
    BY <1>12 DEF VerifyBoth
  <2>6. UNCHANGED <<lockFile, material, standing, disturbed>>  BY <1>12 DEF VerifyBoth
  <2>7. PairsStand'  BY <2>2, <2>3, <2>4, <2>5, <2>6
  <2>8. JournalFollowsCommand' /\ JournalCanRollBack'
    BY <2>2, <2>3, <2>4, <2>6
  <2>9. BackupsAreVerified' /\ MarkedIsAFile'  BY <2>3
  <2> QED  BY <2>7, <2>8, <2>9
<1>13. ASSUME UnlinkJournal PROVE Kept
  BY <1>13 DEF UnlinkJournal
<1>14. ASSUME BootLeave PROVE Kept
  BY <1>14 DEF BootLeave
<1>15. ASSUME BootRaises PROVE Kept
  BY <1>15 DEF BootRaises
<1>16. ASSUME BootDies PROVE Kept
  BY <1>16 DEF BootDies
<1>17. ASSUME OtherWriter PROVE Kept
  BY <1>17 DEF OtherWriter
<1>18. ASSUME UNCHANGED lockVars PROVE Kept
  BY <1>18 DEF lockVars
<1> HIDE DEF LocksInv, LocksTypeOK, BootCommands, JournalFollowsCommand, PairsStand,
        BackupsAreVerified, MarkedIsAFile, JournalCanRollBack, Files, Gone, Idle, lockHistory
<1> QED
  <2>1. Kept
    BY <1>1, <1>2, <1>3, <1>4, <1>5, <1>6, <1>7, <1>8, <1>9, <1>10, <1>11, <1>12,
       <1>13, <1>14, <1>15, <1>16, <1>17, <1>18 DEF LocksNext
  <2> QED  BY <2>1, LocksStepTypeOK DEF LocksInv

(* bootstrap_dependency_locks.py keeps both locks or none: whatever step    *)
(* raises, dies or is repeated, for every number of faults and versions,    *)
(* outside a journal the two locks are the standing pair, unless others     *)
(* wrote while it looked, and a journal can always be rolled back.          *)
THEOREM LocksSurviveFaults == LocksSpec => []LocksAreRecoverable
<1>1. LocksInv => LocksAreRecoverable
  BY DEF LocksInv, LocksAreRecoverable, BothOrNone, PairsStand
<1> QED  BY LocksInitially, LocksStep, <1>1, PTL DEF LocksSpec

=============================================================================
