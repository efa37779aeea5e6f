----------------------------- MODULE AuditChain -----------------------------
(***************************************************************************)
(* DatabaseAuditStore: writers append hash-linked rows, verify replays the  *)
(* chain in (created_at, id) order.  A writer takes its timestamp first,    *)
(* then (on PostgreSQL) the advisory lock, then reads the newest row's hash *)
(* and commits its own row.                                                 *)
(*                                                                          *)
(* A hash is modelled by what it was computed from: the previous hash and   *)
(* the hashed fields.  Two digests are then equal only if all these are.    *)
(***************************************************************************)
EXTENDS Integers, Sequences

CONSTANTS Writers, Entries, NoWriter,
          Ids,            \* uuid4 row identifiers, in their sort order (numbers)
          MaxTime,        \* bound on clock readings, for model checking only
          Postgres        \* the dialect has the advisory lock

ASSUME AuditAssumption ==
  /\ NoWriter \notin Writers
  /\ Ids \subseteq Nat
  /\ MaxTime \in Nat
  /\ Postgres \in BOOLEAN

VARIABLES log,      \* AuditLog rows
          clock,
          writer,   \* append in progress, per writer
          lock,     \* holder of pg_advisory_xact_lock
          halted,   \* the risk machine was halted by a failed write
          inOrder   \* history: rows were committed in the order of their timestamps

auditVars == <<log, clock, writer, lock, halted, inOrder>>

-----------------------------------------------------------------------------
Genesis == <<>>
Digest(prev, entry, at) == Append(prev, <<entry, at>>)

\* The order of both queries; ids decide between equal timestamps.
Before(r, s) == r.at < s.at \/ (r.at = s.at /\ r.id < s.id)
LatestRow(rows) == CHOOSE r \in rows : \A s \in rows \ {r} : Before(s, r)

\* Mutation of Newest: ascending order, as verify sorts.
OldestHash(rows) ==
  IF rows = {} THEN Genesis ELSE (CHOOSE r \in rows : \A s \in rows \ {r} : Before(r, s)).hash

\* The newest row's hash, or GENESIS.
Newest(rows) == IF rows = {} THEN Genesis ELSE LatestRow(rows).hash

\* verify's prev when its loop comes to r: the hash of the row sorted before it.
PrevIn(rows, r) ==
  LET earlier == {s \in rows : Before(s, r)}
  IN  IF earlier = {} THEN Genesis ELSE LatestRow(earlier).hash

\* Mutation of RowVerifies: the link is compared and the digest is not.
RowLinks(rows, r) == r.prev = PrevIn(rows, r)

RowVerifies(rows, r) ==
  /\ r.prev = PrevIn(rows, r)
  /\ r.hash = Digest(r.prev, r.entry, r.at)

Verify(rows) == \A r \in rows : RowVerifies(rows, r)

-----------------------------------------------------------------------------
Idle == [pc |-> "idle"]

AuditInit ==
  /\ log = {}
  /\ clock = 1
  /\ writer = [w \in Writers |-> Idle]
  /\ lock = NoWriter
  /\ halted = FALSE
  /\ inOrder = TRUE

Tick ==
  /\ clock < MaxTime
  /\ clock' = clock + 1
  /\ UNCHANGED <<log, writer, lock, halted, inOrder>>

\* now = datetime.now(), before the session is opened.
Stamp(w, entry) ==
  /\ writer[w].pc = "idle"
  /\ writer' = [writer EXCEPT ![w] = [pc |-> "stamped", entry |-> entry, at |-> clock]]
  /\ UNCHANGED <<log, clock, lock, halted, inOrder>>

\* The advisory lock, then the newest hash.
Link(w) ==
  /\ writer[w].pc = "stamped"
  /\ Postgres => lock = NoWriter
  /\ lock' = IF Postgres THEN w ELSE lock
  /\ writer' = [writer EXCEPT ![w] =
                  [pc |-> "linked", entry |-> @.entry, at |-> @.at, prev |-> Newest(log)]]
  /\ UNCHANGED <<log, clock, halted, inOrder>>

Unlock(w) == lock' = IF lock = w THEN NoWriter ELSE lock

\* The commit; audit_log.current_hash is unique.
AppendRow(w, id) ==
  LET job == writer[w]
      hash == Digest(job.prev, job.entry, job.at)
  IN  /\ job.pc = "linked"
      /\ \A r \in log : r.id # id /\ r.hash # hash
      /\ log' = log \cup {[id |-> id, prev |-> job.prev, entry |-> job.entry,
                           at |-> job.at, hash |-> hash]}
      /\ inOrder' = (inOrder /\ \A r \in log : r.at < job.at)
      /\ writer' = [writer EXCEPT ![w] = Idle]
      /\ Unlock(w)
      /\ UNCHANGED <<clock, halted>>

\* The commit fails: rollback, the risk machine is halted, append raises.
AppendFails(w) ==
  /\ writer[w].pc = "linked"
  /\ halted' = TRUE
  /\ writer' = [writer EXCEPT ![w] = Idle]
  /\ Unlock(w)
  /\ UNCHANGED <<log, clock, inOrder>>

AuditNext ==
  \/ Tick
  \/ \E w \in Writers :
       \/ \E entry \in Entries : Stamp(w, entry)
       \/ Link(w)
       \/ \E id \in Ids : AppendRow(w, id)
       \/ AppendFails(w)

AuditSpec == AuditInit /\ [][AuditNext]_auditVars

-----------------------------------------------------------------------------
(* Properties.                                                             *)

\* append, verify: rows committed in the order of their timestamps verify, with
\* any writers interleaving and any writes failing.
OrderedAppendsVerify == inOrder /\ Postgres => Verify(log)

\* verify: changing a stored row's content, or removing any row but the newest,
\* makes a chain that verifies fail to.
TamperEvident ==
  Verify(log) =>
    \A r \in log :
      /\ \A entry \in Entries \ {r.entry} :
           ~Verify((log \ {r}) \cup {[r EXCEPT !.entry = entry]})
      /\ (\E s \in log : Before(r, s)) => ~Verify(log \ {r})

\* audit_store.py: the log verifies when its writers kept the order of their
\* timestamps, and only an untouched log verifies.
AuditLogIsSound == OrderedAppendsVerify /\ TamperEvident

\* test_persistent_safety.py: what append wrote, verify accepts.  Even when no two
\* rows share a timestamp, it may not.
AppendedVerifies ==
  (\A r, s \in log : r.at = s.at => r = s) => Verify(log)
=============================================================================
