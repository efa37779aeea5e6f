------------------------------- MODULE Outbox -------------------------------
(***************************************************************************)
(* The transactional outbox: OutboxDispatcher.dispatch_once in several      *)
(* workers, its dead letters, and the DeadLetterOperator that inspects,     *)
(* migrates, replays and resolves them.                                     *)
(*                                                                          *)
(* A pass reads the unpublished rows, publishes them one by one (a side     *)
(* effect no rollback undoes) and commits all marks at its end; an operator *)
(* call reads, checks and then commits.  No row is locked between read and  *)
(* commit, and a commit writes only the columns the session changed.        *)
(***************************************************************************)
EXTENDS Integers, FiniteSets

CONSTANTS Events, Workers, Operators,
          MaxAttempts,    \* OutboxDispatcher.max_attempts
          MaxVersion,     \* bound on payload versions, for model checking only
          MaxCrashes      \* bound on crashes and failed commits, likewise

ASSUME OutboxAssumption ==
  Events # {} /\ MaxAttempts \in Nat \ {0} /\ MaxVersion \in Nat /\ MaxCrashes \in Nat

VARIABLES outbox,    \* OutboxEvent rows
          dlq,       \* DeadLetterRow rows
          pass,      \* dispatch_once of each worker
          call,      \* the operator calls in progress
          sent,      \* history: events whose message left the publisher
          crashes

vars == <<outbox, dlq, pass, call, sent, crashes>>

-----------------------------------------------------------------------------
Versions == 0..MaxVersion     \* a payload; payload_hash tells versions apart
Resolution == {"NONE", "OPEN", "MIGRATED", "REPLAY_PENDING", "RESOLVED"}

\* waiting: next_attempt_at is in the future.
Rows == [present : BOOLEAN, payload : Versions, published : BOOLEAN,
         attempts : 0..MaxAttempts, waiting : BOOLEAN]
DeadLetters == [state : Resolution, hash : Versions]

\* What a pass will commit for a row: nothing yet, success, or its attempts after
\* one more failure.  dead: rows whose DeadLetterRow it will insert.
Untried == -1
Published == 0
Passes == [active : BOOLEAN, todo : SUBSET Events, seen : [Events -> Rows],
           mark : [Events -> Untried..MaxAttempts], dead : SUBSET Events]
Calls == [kind : {"idle", "migrate", "replay", "resolve"}, event : Events,
          state : Resolution, from : Versions, to : Versions]

NoRow == [present |-> FALSE, payload |-> 0, published |-> FALSE, attempts |-> 0,
          waiting |-> FALSE]
NoDeadLetter == [state |-> "NONE", hash |-> 0]
NoPass == [active |-> FALSE, todo |-> {}, seen |-> [e \in Events |-> NoRow],
           mark |-> [e \in Events |-> Untried], dead |-> {}]
NoCall == [kind |-> "idle", event |-> CHOOSE e \in Events : TRUE,
           state |-> "NONE", from |-> 0, to |-> 0]

TypeOK ==
  /\ outbox \in [Events -> Rows]
  /\ dlq \in [Events -> DeadLetters]
  /\ pass \in [Workers -> Passes]
  /\ call \in [Operators -> Calls]
  /\ sent \subseteq Events
  /\ crashes \in 0..MaxCrashes

Init ==
  /\ outbox = [e \in Events |-> NoRow]
  /\ dlq = [e \in Events |-> NoDeadLetter]
  /\ pass = [w \in Workers |-> NoPass]
  /\ call = [o \in Operators |-> NoCall]
  /\ sent = {}
  /\ crashes = 0

-----------------------------------------------------------------------------
(* The environment: business transactions, the clock, crashes.             *)

\* A business transaction commits its event.
Commit(e) ==
  /\ ~outbox[e].present
  /\ outbox' = [outbox EXCEPT ![e].present = TRUE]
  /\ UNCHANGED <<dlq, pass, call, sent, crashes>>

BackoffEnds(e) ==
  /\ outbox[e].waiting
  /\ outbox' = [outbox EXCEPT ![e].waiting = FALSE]
  /\ UNCHANGED <<dlq, pass, call, sent, crashes>>

\* The worker dies, or its commit fails: the session is rolled back.
Crash(w) ==
  /\ pass[w].active /\ crashes < MaxCrashes
  /\ crashes' = crashes + 1
  /\ pass' = [pass EXCEPT ![w] = NoPass]
  /\ UNCHANGED <<outbox, dlq, call, sent>>

-----------------------------------------------------------------------------
(* OutboxDispatcher.dispatch_once.                                         *)

Pending(e) == outbox[e].present /\ ~outbox[e].published

\* Rows in their backoff are skipped with the clock read at the start.
Begin(w) ==
  LET due == {e \in Events : Pending(e) /\ ~outbox[e].waiting}
  IN  /\ ~pass[w].active
      /\ due # {}
      /\ pass' = [pass EXCEPT ![w] = [NoPass EXCEPT !.active = TRUE, !.todo = due,
                                                    !.seen = outbox]]
      /\ UNCHANGED <<outbox, dlq, call, sent, crashes>>

Publish(w, e) ==
  /\ pass[w].active /\ e \in pass[w].todo
  /\ sent' = sent \cup {e}
  /\ pass' = [pass EXCEPT ![w].todo = @ \ {e}, ![w].mark[e] = Published]
  /\ UNCHANGED <<outbox, dlq, call, crashes>>

\* Mutation of FailedMark: the last failure counts as published.
FailedMarkPublishes(w, e) ==
  LET n == pass[w].seen[e].attempts + 1
  IN  IF n >= MaxAttempts THEN Published ELSE n

\* Mutation of FailedMark: attempts = 1 instead of attempts += 1.
FailedMarkOnce(w, e) == 1

\* attempts += 1, from the row as the pass read it.
FailedMark(w, e) == pass[w].seen[e].attempts + 1

\* The publisher raises, before or after the message left.  At max_attempts a
\* dead letter is added unless the event has one.
PublishFails(w, e, left) ==
  /\ pass[w].active /\ e \in pass[w].todo
  /\ sent' = IF left THEN sent \cup {e} ELSE sent
  /\ pass' = [pass EXCEPT
       ![w].todo = @ \ {e},
       ![w].mark[e] = FailedMark(w, e),
       ![w].dead = IF FailedMark(w, e) >= MaxAttempts /\ dlq[e].state = "NONE"
                   THEN @ \cup {e} ELSE @]
  /\ UNCHANGED <<outbox, dlq, call, crashes>>

\* The columns a commit writes for a row.
Marked(row, n) ==
  CASE n = Untried      -> row
    [] n = Published    -> [row EXCEPT !.published = TRUE]
    [] n >= MaxAttempts -> [row EXCEPT !.published = TRUE, !.attempts = n]
    [] OTHER            -> [row EXCEPT !.attempts = n, !.waiting = TRUE]

\* dead_letters.original_event_id is unique.
Conflicts(w) == \E e \in pass[w].dead : dlq[e].state # "NONE"

CommitPass(w) ==
  /\ pass[w].active /\ pass[w].todo = {} /\ ~Conflicts(w)
  /\ outbox' = [e \in Events |-> Marked(outbox[e], pass[w].mark[e])]
  /\ dlq' = [e \in Events |-> IF e \in pass[w].dead
                              THEN [state |-> "OPEN", hash |-> pass[w].seen[e].payload]
                              ELSE dlq[e]]
  /\ pass' = [pass EXCEPT ![w] = NoPass]
  /\ UNCHANGED <<call, sent, crashes>>

\* The insert is refused: every mark of the pass is lost.
CommitRefused(w) ==
  /\ pass[w].active /\ pass[w].todo = {} /\ Conflicts(w)
  /\ pass' = [pass EXCEPT ![w] = NoPass]
  /\ UNCHANGED <<outbox, dlq, call, sent, crashes>>

-----------------------------------------------------------------------------
(* DeadLetterOperator: each call checks what it read, then commits.        *)

\* expected is the hash the operator saw when inspecting the dead letter.
StartMigrate(o, e, expected, to) ==
  /\ call[o].kind = "idle"
  /\ dlq[e].state \in {"OPEN", "MIGRATED"}
  /\ outbox[e].payload = expected
  /\ call' = [call EXCEPT ![o] = [kind |-> "migrate", event |-> e,
                                  state |-> dlq[e].state, from |-> expected, to |-> to]]
  /\ UNCHANGED <<outbox, dlq, pass, sent, crashes>>

\* A column set to the value that was read is not written.
Unless(read, new, current) == IF read = new THEN current ELSE new

\* Mutation of CommitMigrate: the dead letter keeps its payload_hash.
CommitMigrateKeepsHash(o) ==
  LET e == call[o].event
  IN  /\ call[o].kind = "migrate"
      /\ outbox' = [outbox EXCEPT ![e].payload = Unless(call[o].from, call[o].to, @)]
      /\ dlq' = [dlq EXCEPT ![e].state = Unless(call[o].state, "MIGRATED", @)]
      /\ call' = [call EXCEPT ![o] = NoCall]
      /\ UNCHANGED <<pass, sent, crashes>>

CommitMigrate(o) ==
  LET e == call[o].event
  IN  /\ call[o].kind = "migrate"
      /\ outbox' = [outbox EXCEPT ![e].payload = Unless(call[o].from, call[o].to, @)]
      /\ dlq' = [dlq EXCEPT ![e].hash = Unless(call[o].from, call[o].to, @),
                            ![e].state = Unless(call[o].state, "MIGRATED", @)]
      /\ call' = [call EXCEPT ![o] = NoCall]
      /\ UNCHANGED <<pass, sent, crashes>>

StartReplay(o, e, expected) ==
  /\ call[o].kind = "idle"
  /\ outbox[e].payload = expected /\ dlq[e].hash = expected
  /\ dlq[e].state \in {"OPEN", "MIGRATED"}
  /\ call' = [call EXCEPT ![o] = [NoCall EXCEPT !.kind = "replay", !.event = e]]
  /\ UNCHANGED <<outbox, dlq, pass, sent, crashes>>

\* Mutation of CommitReplay: the attempts are not reset.
CommitReplayKeepsAttempts(o) ==
  LET e == call[o].event
  IN  /\ call[o].kind = "replay"
      /\ outbox' = [outbox EXCEPT ![e] = [@ EXCEPT !.published = FALSE, !.waiting = FALSE]]
      /\ dlq' = [dlq EXCEPT ![e].state = "REPLAY_PENDING"]
      /\ call' = [call EXCEPT ![o] = NoCall]
      /\ UNCHANGED <<pass, sent, crashes>>

CommitReplay(o) ==
  LET e == call[o].event
  IN  /\ call[o].kind = "replay"
      /\ outbox' = [outbox EXCEPT ![e] =
                      [@ EXCEPT !.published = FALSE, !.attempts = 0, !.waiting = FALSE]]
      /\ dlq' = [dlq EXCEPT ![e].state = "REPLAY_PENDING"]
      /\ call' = [call EXCEPT ![o] = NoCall]
      /\ UNCHANGED <<pass, sent, crashes>>

StartResolve(o, e) ==
  /\ call[o].kind = "idle"
  /\ dlq[e].state = "REPLAY_PENDING" /\ outbox[e].published
  /\ call' = [call EXCEPT ![o] = [NoCall EXCEPT !.kind = "resolve", !.event = e]]
  /\ UNCHANGED <<outbox, dlq, pass, sent, crashes>>

CommitResolve(o) ==
  /\ call[o].kind = "resolve"
  /\ dlq' = [dlq EXCEPT ![call[o].event].state = "RESOLVED"]
  /\ call' = [call EXCEPT ![o] = NoCall]
  /\ UNCHANGED <<outbox, pass, sent, crashes>>

-----------------------------------------------------------------------------
Dispatch(w) ==
  \/ Begin(w)
  \/ \E e \in Events : Publish(w, e) \/ \E left \in BOOLEAN : PublishFails(w, e, left)
  \/ CommitPass(w) \/ CommitRefused(w)

Operate(o) ==
  \/ \E e \in Events, expected, to \in Versions : StartMigrate(o, e, expected, to)
  \/ \E e \in Events, expected \in Versions : StartReplay(o, e, expected)
  \/ \E e \in Events : StartResolve(o, e)
  \/ CommitMigrate(o) \/ CommitReplay(o) \/ CommitResolve(o)

Next ==
  \/ \E e \in Events : Commit(e) \/ BackoffEnds(e)
  \/ \E w \in Workers : Dispatch(w) \/ Crash(w)
  \/ \E o \in Operators : Operate(o)

Spec == Init /\ [][Next]_vars

\* Workers keep calling dispatch_once, which always ends, and time passes.
FairSpec ==
  /\ Spec
  /\ \A w \in Workers : WF_vars(Dispatch(w))
  /\ \A e \in Events : WF_vars(BackoffEnds(e))

-----------------------------------------------------------------------------
(* Properties.                                                             *)

\* OutboxDispatcher: an event marked published was sent or has a dead letter,
\* whatever passes overlap, crash or lose their commit.
PublishedIsAccountedFor ==
  \A e \in Events : outbox[e].published => e \in sent \/ dlq[e].state # "NONE"

\* DeadLetterOperator: the recorded payload_hash is the stored payload's, so
\* inspect never reports a mismatch that no one caused.
HashMatches ==
  \A e \in Events : dlq[e].state # "NONE" => dlq[e].hash = outbox[e].payload

\* Outbox and dead letters agree: nothing is marked published that was neither
\* sent nor dead-lettered, and hashes are of the stored payload.
OutboxInv == TypeOK /\ PublishedIsAccountedFor /\ HashMatches

\* OutboxDispatcher: every committed event is eventually sent or dead-lettered,
\* though passes overwrite each other's attempts.
EventuallySettled ==
  \A e \in Events : outbox[e].present ~> (e \in sent \/ dlq[e].state # "NONE")

\* REQUIREMENTS_TRACEABILITY.md: a committed event is not lost and can be
\* published again (REQ-V51-092-003 and -004): unsent, it is pending or replayable.
UnsentStaysPublishable ==
  \A e \in Events : outbox[e].present /\ e \notin sent
    => ~outbox[e].published \/ dlq[e].state \in {"OPEN", "MIGRATED"}
=============================================================================
