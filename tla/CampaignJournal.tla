---------------------------- MODULE CampaignJournal ----------------------------
(***************************************************************************)
(* The append-only campaign journal of campaign_evidence_recorder: a header *)
(* and a chain of events in one file, and the four receipts derived from    *)
(* it. No lock is taken, so recorders may read, append and derive in any    *)
(* order, and any of them may stop in the middle of a write (before the     *)
(* record is complete; that only its newline is lost is left out). A record's *)
(* hash is a number of its own.                                             *)
(***************************************************************************)
EXTENDS Integers, Sequences, FiniteSetsExt

CONSTANTS Recorders,    \* the processes that use the journal
          Bindings,     \* well-formed identities: candidate, challenge, environment
          NoBinding,    \* an identity that is not well-formed
          JournalKinds, \* the event kinds: "sample", which has an id, and others
          SampleIds,    \* ids of samples and observations
          Skew,         \* MAX_FUTURE_SKEW_SECONDS
          MaxWallClock, \* bound on the clock, for model checking only
          MaxLines      \* bound on the records made, for model checking only

ASSUME JournalAssumption ==
  /\ NoBinding \notin Bindings /\ JournalKinds # {}
  /\ Skew \in Nat /\ MaxWallClock \in Nat /\ MaxLines \in Nat

VARIABLES journalFile, \* the file: rows, and what is left of a row that was cut off
          wallClock,   \* which may be set back
          recorder,    \* what each recorder is doing
          derived,     \* the receipt of each kind on disk
          recordsMade, \* how many records were made: the hash of the last one
          returned     \* history: the records whose append returned

journalVars == <<journalFile, wallClock, recorder, derived, recordsMade, returned>>

DerivedOrder == <<"private-stream", "paper", "live-shadow", "profitability">>
DerivedKinds == {"private-stream", "paper", "live-shadow", "profitability"}

LastRow(rows) == rows[Len(rows)]

\* A record that continues the rows seen; whole: the line was not cut off.
JournalRow(b, at, seen, kind, id, whole) ==
  [binding |-> b, at |-> at, sequence |-> Len(seen), kind |-> kind, id |-> id, whole |-> whole,
   previous |-> IF seen = <<>> THEN 0 ELSE LastRow(seen).hash, hash |-> recordsMade + 1]

\* next: the receipt to write.
IdleRecorder == [pc |-> "idle", kind |-> "none", id |-> "none", at |-> 0, rows |-> <<>>,
                 bytes |-> <<>>, next |-> 1]
NotDerived == [made |-> FALSE, rows |-> <<>>, bytes |-> <<>>]

JournalInit ==
  /\ journalFile = <<>> /\ wallClock = 0 /\ recordsMade = 0 /\ returned = {}
  /\ recorder = [p \in Recorders |-> IdleRecorder]
  /\ derived = [k \in DerivedKinds |-> NotDerived]

-----------------------------------------------------------------------------
ValidBinding(b) == b \in Bindings

\* A sample or an observation has an id; no payload holds a secret.
ValidateEventPayload(kind, id) == kind \in JournalKinds /\ (kind = "sample" => id \in SampleIds)

\* The previous_sha256 that line i has to carry.
PreviousHash(file, i) == IF i = 1 THEN 0 ELSE file[i - 1].hash

Checked(file, i, now) ==
  /\ file[i].sequence = i - 1 /\ file[i].previous = PreviousHash(file, i)
  /\ file[i].at <= now + Skew
  /\ i > 1 => /\ file[i].at >= file[i - 1].at
              /\ file[i].binding = file[1].binding
              /\ ValidateEventPayload(file[i].kind, file[i].id)

\* Mutation of LoadJournal: a line that does not parse is skipped.
LoadParsedLines(file, now) ==
  /\ file # <<>> /\ file[1].kind = "header" /\ ValidBinding(file[1].binding)
  /\ \A i \in 1..Len(file) : file[i].whole => Checked(file, i, now)

\* Every line is checked against the one before it, the header and the clock.
LoadJournal(file, now) ==
  /\ file # <<>> /\ file[1].kind = "header" /\ ValidBinding(file[1].binding)
  /\ \A i \in 1..Len(file) : file[i].whole /\ Checked(file, i, now)

\* Mutation of InitializeJournal: the file is opened for writing, not created.
InitializeTruncates(p, b, whole) ==
  /\ recorder[p].pc = "idle" /\ ValidBinding(b) /\ recordsMade < MaxLines
  /\ journalFile' = <<JournalRow(b, wallClock, <<>>, "header", "none", whole)>>
  /\ recordsMade' = recordsMade + 1
  /\ UNCHANGED <<wallClock, recorder, derived, returned>>

\* The file is created exclusively; a header that is cut off stays.
InitializeJournal(p, b, whole) ==
  /\ recorder[p].pc = "idle" /\ journalFile = <<>> /\ ValidBinding(b)
  /\ journalFile' = <<JournalRow(b, wallClock, <<>>, "header", "none", whole)>>
  /\ recordsMade' = recordsMade + 1
  /\ UNCHANGED <<wallClock, recorder, derived, returned>>

\* append_event: the journal is loaded, and the clock compared with its last record.
AppendLoad(p, kind, id) ==
  /\ recorder[p].pc = "idle"
  /\ ValidateEventPayload(kind, id) /\ LoadJournal(journalFile, wallClock)
  /\ wallClock >= LastRow(journalFile).at
  /\ recorder' = [recorder EXCEPT ![p] =
       [IdleRecorder EXCEPT !.pc = "append", !.kind = kind, !.id = id, !.at = wallClock,
                            !.rows = journalFile]]
  /\ UNCHANGED <<journalFile, wallClock, derived, recordsMade, returned>>

\* The record continues the rows that were loaded, whatever the file holds by now. A
\* line that was cut off swallows the next one.
AppendWrite(p, whole) ==
  LET r == recorder[p]  row == JournalRow(r.rows[1].binding, r.at, r.rows, r.kind, r.id, whole) IN
  /\ r.pc = "append" /\ recordsMade < MaxLines
  /\ journalFile' = IF LastRow(journalFile).whole THEN Append(journalFile, row) ELSE journalFile
  /\ recordsMade' = recordsMade + 1
  /\ returned' = IF whole THEN returned \cup {row.hash} ELSE returned
  /\ recorder' = [recorder EXCEPT ![p] = IdleRecorder]
  /\ UNCHANGED <<wallClock, derived>>

-----------------------------------------------------------------------------
\* _events of one kind, of the samples and of the others. A repeated sample counts once.
Samples(rows) == {i \in 1..Len(rows) : rows[i].kind = "sample"}
Ids(rows) == {rows[i].id : i \in Samples(rows)}
Passes(rows) == {i \in 1..Len(rows) : rows[i].kind \notin {"header", "sample"}}

\* From the first sample to the last: with one of them it is 0.
ElapsedDays(rows) ==
  LET from == rows[Min(Samples(rows))].at  to == rows[Max(Samples(rows))].at
  IN IF Samples(rows) = {} THEN 0 ELSE Max({0, to - from})

DeriveMetrics(rows) ==
  [samples |-> Cardinality(Ids(rows)), passed |-> Passes(rows) # {},
   days |-> ElapsedDays(rows)]

\* build_receipts loads the journal and then reads the file again for its hash.
BuildLoad(p) ==
  /\ recorder[p].pc = "idle" /\ LoadJournal(journalFile, wallClock)
  /\ recorder' = [recorder EXCEPT ![p] = [IdleRecorder EXCEPT !.pc = "hash", !.rows = journalFile]]
  /\ UNCHANGED <<journalFile, wallClock, derived, recordsMade, returned>>

BuildHash(p) ==
  /\ recorder[p].pc = "hash"
  /\ recorder' = [recorder EXCEPT ![p].pc = "write", ![p].bytes = journalFile]
  /\ UNCHANGED <<journalFile, wallClock, derived, recordsMade, returned>>

\* write_receipts replaces the four files one by one.
WriteReceipts(p) ==
  LET r == recorder[p] IN
  /\ r.pc = "write"
  /\ derived' = [derived EXCEPT ![DerivedOrder[r.next]] =
       [made |-> TRUE, rows |-> r.rows, bytes |-> r.bytes]]
  /\ recorder' = [recorder EXCEPT ![p] =
       IF r.next = Len(DerivedOrder) THEN IdleRecorder ELSE [r EXCEPT !.next = @ + 1]]
  /\ UNCHANGED <<journalFile, wallClock, recordsMade, returned>>

\* A recorder stops between two steps.
RecorderStops(p) ==
  /\ recorder[p].pc # "idle"
  /\ recorder' = [recorder EXCEPT ![p] = IdleRecorder]
  /\ UNCHANGED <<journalFile, wallClock, derived, recordsMade, returned>>

ClockIsSet(now) ==
  /\ now # wallClock /\ wallClock' = now
  /\ UNCHANGED <<journalFile, recorder, derived, recordsMade, returned>>

JournalNext ==
  \/ \E p \in Recorders :
       \/ \E b \in Bindings \cup {NoBinding}, whole \in BOOLEAN : InitializeJournal(p, b, whole)
       \/ \E kind \in JournalKinds, id \in SampleIds : AppendLoad(p, kind, id)
       \/ \E whole \in BOOLEAN : AppendWrite(p, whole)
       \/ BuildLoad(p) \/ BuildHash(p) \/ WriteReceipts(p) \/ RecorderStops(p)
  \/ \E now \in 0..MaxWallClock : ClockIsSet(now)

JournalSpec == JournalInit /\ [][JournalNext]_journalVars
-----------------------------------------------------------------------------
(* Properties.                                                             *)

Begins(s, t) == Len(s) <= Len(t) /\ \A i \in 1..Len(s) : s[i] = t[i]
OnDisk == {derived[k] : k \in {n \in DerivedKinds : derived[n].made}}

\* append_event: as long as the journal loads it holds every event whose append returned,
\* though appends overlap and a line that was cut off swallows the next.
NoEventIsLost ==
  \A now \in 0..MaxWallClock : LoadJournal(journalFile, now) =>
    \A h \in returned : \E i \in 1..Len(journalFile) : journalFile[i].hash = h

\* build_receipts: what a receipt was derived from is the beginning of the file it names
\* by hash and of the journal as it is now, whoever appended since and forked the chain.
ReceiptsAreOfThisJournal ==
  \A r \in OnDisk : Begins(r.rows, r.bytes) /\ Begins(r.bytes, journalFile)

\* write_receipts: receipts of two runs, mixed on disk by one that stopped half way, are of
\* one candidate and one challenge, and the later one never shows less.
ReceiptsOnlyGrow ==
  \A r1, r2 \in OnDisk :
    /\ r1.rows[1].binding = r2.rows[1].binding
    /\ Len(r1.rows) <= Len(r2.rows) =>
         LET m1 == DeriveMetrics(r1.rows)  m2 == DeriveMetrics(r2.rows) IN
         /\ m1.days <= m2.days
         /\ m1.samples <= m2.samples /\ (m1.passed => m2.passed)

\* campaign_evidence_recorder.py: a journal that loads is complete, and every receipt
\* on disk is of that one journal.
JournalIsEvidence == NoEventIsLost /\ ReceiptsAreOfThisJournal /\ ReceiptsOnlyGrow
=============================================================================
