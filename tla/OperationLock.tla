---------------------------- MODULE OperationLock ----------------------------
(***************************************************************************)
(* The platform operation lock: a file that install, update, rollback and   *)
(* migration processes create exclusively, refresh from a heartbeat thread  *)
(* and unlink, and that a stale-lock recovery may unlink for a dead owner.  *)
(*                                                                          *)
(* A process is a run of a pid: pids are reused, runs are told apart by the *)
(* process start identity.  Every check of the file is a step of its own,   *)
(* so other processes move between a check and what follows from it.        *)
(***************************************************************************)
EXTENDS Integers, FiniteSets

CONSTANTS Pids,
          Recoverers,     \* pids whose processes pass recover_stale=True
          SlowHeartbeat,  \* a heartbeat write may outlast thread.join's timeout
          MaxRuns,        \* bound on the processes of one pid, for model checking only
          MaxBoots        \* bound on reboots, likewise

ASSUME LockAssumption ==
  /\ Recoverers \subseteq Pids
  /\ SlowHeartbeat \in BOOLEAN
  /\ MaxRuns \in Nat /\ MaxBoots \in Nat

VARIABLES file,   \* the lock file
          proc,   \* the process of each pid
          hb,     \* its heartbeat thread
          run,    \* how many processes the pid had
          boot    \* the boot identity

lockVars == <<file, proc, hb, run, boot>>

-----------------------------------------------------------------------------
\* The token, pid and start identity are the run; old: the heartbeat is older
\* than minimum_age_seconds.
Tokens == [pid : Pids, run : Nat, boot : Nat]
NoFile == [state |-> "none"]
Empty == [state |-> "empty"]         \* created and not yet written
Locks == [state : {"written"}, token : Tokens, old : BOOLEAN]

Counters == {"off", "start", "judged", "confirmed", "create", "writing", "body",
             "joining", "joined", "checked", "exiting"}
\* seen: the token a recovery read; failed: the body raised.
Procs == [pc : Counters, seen : Tokens, failed : BOOLEAN]

Me(p) == [pid |-> p, run |-> run[p], boot |-> boot]
Written == file.state = "written"
Owned(p) == Written /\ file.token = Me(p)
Fresh(p) == [state |-> "written", token |-> Me(p), old |-> FALSE]

Off(p) == [pc |-> "off", seen |-> Me(p), failed |-> FALSE]

LockTypeOK ==
  /\ file \in Locks \cup {NoFile, Empty}
  /\ proc \in [Pids -> Procs]
  /\ hb \in [Pids -> {"idle", "replacing", "error"}]
  /\ run \in [Pids -> Nat]
  /\ boot \in Nat

LockInit ==
  /\ file = NoFile
  /\ run = [p \in Pids |-> 0]
  /\ boot = 0
  /\ proc = [p \in Pids |-> [pc |-> "off", seen |-> [pid |-> p, run |-> 0, boot |-> 0],
                             failed |-> FALSE]]
  /\ hb = [p \in Pids |-> "idle"]

At(p, pc) == proc[p].pc = pc
Goto(p, pc) == proc' = [proc EXCEPT ![p].pc = pc]

\* The process ends with its threads.
Ends(p) == proc' = [proc EXCEPT ![p] = Off(p)] /\ hb' = [hb EXCEPT ![p] = "idle"]

-----------------------------------------------------------------------------
(* Processes and time.                                                     *)

Start(p) ==
  /\ At(p, "off") /\ run[p] < MaxRuns
  /\ run' = [run EXCEPT ![p] = @ + 1]
  /\ Goto(p, "start")
  /\ UNCHANGED <<file, hb, boot>>

\* Crash, or the end of a process that has nothing more to do.
Exit(p) ==
  /\ ~At(p, "off")
  /\ Ends(p)
  /\ UNCHANGED <<file, run, boot>>

Reboot ==
  /\ boot < MaxBoots
  /\ boot' = boot + 1
  /\ proc' = [p \in Pids |-> Off(p)]
  /\ hb' = [p \in Pids |-> "idle"]
  /\ UNCHANGED <<file, run>>

\* minimum_age_seconds pass without a heartbeat.
Age ==
  /\ Written
  /\ file' = [file EXCEPT !.old = TRUE]
  /\ UNCHANGED <<proc, hb, run, boot>>

-----------------------------------------------------------------------------
(* recover_stale_lock.                                                     *)

\* Mutation of OwnerAlive: a lock whose heartbeat is old is taken for dead.
OldIsDead(token) == FALSE

\* _owner_state answers ALIVE.
OwnerAlive(token) ==
  token.boot = boot /\ token.run = run[token.pid] /\ ~At(token.pid, "off")

\* The first read, the owner's state and the age.
RecoverJudge(p) ==
  /\ At(p, "start") /\ p \in Recoverers
  /\ Written
  /\ file.old /\ ~OwnerAlive(file.token)
  /\ proc' = [proc EXCEPT ![p].pc = "judged", ![p].seen = file.token]
  /\ UNCHANGED <<file, hb, run, boot>>

\* The file is read again and must carry the same token.
RecoverConfirm(p) ==
  /\ At(p, "judged")
  /\ IF Written /\ file.token = proc[p].seen THEN Goto(p, "confirmed") /\ UNCHANGED hb
     ELSE Ends(p)
  /\ UNCHANGED <<file, run, boot>>

RecoverUnlink(p) ==
  /\ At(p, "confirmed")
  /\ file' = NoFile
  /\ IF file = NoFile THEN Ends(p) ELSE Goto(p, "create") /\ UNCHANGED hb
  /\ UNCHANGED <<run, boot>>

-----------------------------------------------------------------------------
(* operation_lock.                                                         *)

\* os.open with O_EXCL; a process that does not recover stale locks starts here.
Create(p) ==
  /\ At(p, "start") \/ At(p, "create")
  /\ file = NoFile
  /\ file' = Empty
  /\ Goto(p, "writing")
  /\ UNCHANGED <<hb, run, boot>>

\* OPERATION_LOCK_BUSY, or a recovery that is refused.
Busy(p) ==
  /\ At(p, "start") \/ At(p, "create")
  /\ file # NoFile
  /\ Ends(p)
  /\ UNCHANGED <<file, run, boot>>

\* The payload is written and the heartbeat thread started.
Write(p) ==
  /\ At(p, "writing")
  /\ file' = Fresh(p)
  /\ Goto(p, "body")
  /\ UNCHANGED <<hb, run, boot>>

\* The write fails and the file is removed.
WriteFails(p) ==
  /\ At(p, "writing")
  /\ file' = NoFile
  /\ Ends(p)
  /\ UNCHANGED <<run, boot>>

\* _refresh_heartbeat reads the file and checks that it is still its own.
HeartbeatRead(p) ==
  /\ At(p, "body") \/ At(p, "joining")
  /\ hb[p] = "idle"
  /\ hb' = [hb EXCEPT ![p] = IF Owned(p) THEN "replacing" ELSE "error"]
  /\ UNCHANGED <<file, proc, run, boot>>

\* _atomic_replace_json: os.replace, after a check that may find the file gone.
HeartbeatReplace(p) ==
  /\ hb[p] = "replacing"
  /\ \E gone \in BOOLEAN :
       /\ gone => file = NoFile
       /\ file' = IF gone THEN file ELSE Fresh(p)
       /\ hb' = [hb EXCEPT ![p] = IF gone THEN "error" ELSE "idle"]
  /\ UNCHANGED <<proc, run, boot>>

\* The body returns or raises; operation_lock_exec raises when assert_healthy
\* finds the heartbeat failed or the file not its own.
Leave(p, failed) ==
  /\ At(p, "body")
  /\ proc' = [proc EXCEPT ![p].pc = "joining", ![p].failed = failed]
  /\ UNCHANGED <<file, hb, run, boot>>

\* thread.join.  A thread that is still writing ends the process unless the body
\* failed; so does a heartbeat error.
Join(p) ==
  /\ At(p, "joining")
  /\ hb[p] = "replacing" => SlowHeartbeat
  /\ IF hb[p] = "idle" \/ proc[p].failed THEN Goto(p, "joined") /\ UNCHANGED hb
     ELSE Ends(p)
  /\ UNCHANGED <<file, run, boot>>

\* The file is read and compared before it is unlinked.
ReleaseCheck(p) ==
  /\ At(p, "joined")
  /\ IF Owned(p) THEN Goto(p, "checked") /\ UNCHANGED hb ELSE Ends(p)
  /\ UNCHANGED <<file, run, boot>>

ReleaseUnlink(p) ==
  /\ At(p, "checked")
  /\ file' = NoFile
  /\ Goto(p, "exiting")
  /\ UNCHANGED <<hb, run, boot>>

-----------------------------------------------------------------------------
Step(p) ==
  \/ Start(p) \/ Exit(p)
  \/ RecoverJudge(p) \/ RecoverConfirm(p) \/ RecoverUnlink(p)
  \/ Create(p) \/ Busy(p) \/ Write(p) \/ WriteFails(p)
  \/ HeartbeatRead(p) \/ HeartbeatReplace(p)
  \/ \E failed \in BOOLEAN : Leave(p, failed)
  \/ Join(p) \/ ReleaseCheck(p) \/ ReleaseUnlink(p)

LockNext == Reboot \/ Age \/ \E p \in Pids : Step(p)

LockSpec == LockInit /\ [][LockNext]_lockVars

-----------------------------------------------------------------------------
(* Properties.                                                             *)

InBody(p) == proc[p].pc \in {"body", "joining", "joined", "checked"}

\* operation_lock: a live holder's lock is not stolen, with crashes, reboots,
\* reused pids and stale locks: while a process works, the file is its own, so at
\* most one process works.
HolderKeepsLock == \A p \in Pids : InBody(p) => Owned(p)

\* Why HolderKeepsLock is inductive: identities in the file are of the past or the
\* present, only the holder's heartbeat writes, a created file is its creator's, and
\* what a recovery has seen stays dead and, once confirmed, in place.
Past(token) == token.boot <= boot /\ token.run <= run[token.pid]
StampsArePast == Written => Past(file.token)
HeartbeatInBody == \A p \in Pids : hb[p] = "replacing" => proc[p].pc \in {"body", "joining"}
CreatorWrites ==
  \A p \in Pids : At(p, "writing") => file = Empty /\ \A q \in Pids : At(q, "writing") => q = p
SeenIsDead ==
  \A p \in Pids : proc[p].pc \in {"judged", "confirmed"}
    => p \in Recoverers /\ Past(proc[p].seen) /\ ~OwnerAlive(proc[p].seen)
ConfirmedInPlace == \A p \in Pids : At(p, "confirmed") => Written /\ file.token = proc[p].seen
LockInv == StampsArePast /\ HeartbeatInBody /\ CreatorWrites /\ SeenIsDead /\ ConfirmedInPlace

\* docs/UPDATE_ROLLBACK.md: "a concurrently replaced lock is not deleted".  What a
\* confirmed recovery is about to unlink is still the lock it judged stale.
StaleRecoveryIsExact ==
  \A p \in Pids : At(p, "confirmed") /\ file # NoFile
    => Written /\ file.token = proc[p].seen
=============================================================================
