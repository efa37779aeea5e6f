----------------------------- MODULE Escalation -----------------------------
(***************************************************************************)
(* PersistentEscalationLedger, shared by the monitors that record an alert,  *)
(* the pager that escalates what is due and the operator that acknowledges   *)
(* and resolves.  Every statement commits on its own: record's SELECT and    *)
(* its INSERT or UPDATE are two steps.  One alert key: keys do not interact. *)
(***************************************************************************)
EXTENDS Integers, FiniteSets

CONSTANTS Monitors, Severities,
          EscalationSeconds,
          MaxAlertTime,   \* bound on the clock
          MaxRecords      \* bound on the calls of record

ASSUME EscalationAssumption ==
  EscalationSeconds \in Nat \ {0} /\ MaxAlertTime \in Nat /\ MaxRecords \in Nat

VARIABLES alert,       \* the row; severity "none" when there is none
          recording,   \* record in progress, per monitor
          pager,       \* an alert that due() returned is being sent
          alertNow,
          records,
          settled      \* history: what the last record to finish has left

alertVars == <<alert, recording, pager, alertNow, records, settled>>

NoAlert == [severity |-> "none", next |-> 0, attempts |-> 0, acknowledged |-> FALSE,
            resolved |-> FALSE]
NotRecording == [step |-> "idle", severity |-> "none", now |-> 0, overtaken |-> FALSE]

AlertInit ==
  /\ alert = NoAlert
  /\ recording = [m \in Monitors |-> NotRecording]
  /\ pager = FALSE
  /\ alertNow = 0 /\ records = 0
  /\ settled = [open |-> TRUE, overtaken |-> FALSE]

Exists == alert.severity # "none"

AlertTick ==
  /\ alertNow < MaxAlertTime /\ alertNow' = alertNow + 1
  /\ UNCHANGED <<alert, recording, pager, records, settled>>

\* Mutation of Reopens: a resolved row counts as an open alert.
ReopensAbsentOnly == ~Exists

\* row is None or bool(row["resolved"]).
Reopens == ~Exists \/ alert.resolved

\* record: the SELECT decides between a new alert and an update.
RecordReads(m, severity) ==
  /\ recording[m].step = "idle" /\ records < MaxRecords
  /\ records' = records + 1
  /\ recording' = [recording EXCEPT ![m] =
       [step |-> IF Reopens THEN "insert" ELSE "update", severity |-> severity,
        now |-> alertNow, overtaken |-> FALSE]]
  /\ UNCHANGED <<alert, pager, alertNow, settled>>

\* record: INSERT OR REPLACE starts over; UPDATE leaves the escalation alone.
RecordWrites(m) ==
  LET r == recording[m]
  IN  /\ r.step # "idle"
      /\ alert' = IF r.step = "insert"
                  THEN [severity |-> r.severity, next |-> r.now + EscalationSeconds,
                        attempts |-> 0, acknowledged |-> FALSE, resolved |-> FALSE]
                  ELSE [alert EXCEPT !.severity = r.severity]
      /\ settled' = [open |-> ~alert'.resolved, overtaken |-> r.overtaken]
      /\ recording' = [recording EXCEPT ![m] = NotRecording]
      /\ UNCHANGED <<pager, alertNow, records>>

Active == Exists /\ ~alert.resolved

\* due, by a pager that will send what it has been given.
PagerAsks ==
  /\ ~pager /\ Active /\ ~alert.acknowledged /\ alert.next <= alertNow
  /\ pager' = TRUE
  /\ UNCHANGED <<alert, recording, alertNow, records, settled>>

\* Mutation of MarkEscalated: what due() returned is taken as still true.
MarkEscalatedBlindly ==
  /\ pager /\ pager' = FALSE
  /\ alert' = [alert EXCEPT !.attempts = @ + 1, !.next = alertNow + EscalationSeconds]
  /\ UNCHANGED <<recording, alertNow, records, settled>>

\* mark_escalated after sending: refused (LookupError) unless still active.
MarkEscalated ==
  /\ pager /\ pager' = FALSE
  /\ alert' = IF Active /\ ~alert.acknowledged
              THEN [alert EXCEPT !.attempts = @ + 1, !.next = alertNow + EscalationSeconds]
              ELSE alert
  /\ UNCHANGED <<recording, alertNow, records, settled>>

Acknowledge ==
  /\ Active
  /\ alert' = [alert EXCEPT !.acknowledged = TRUE]
  /\ UNCHANGED <<recording, pager, alertNow, records, settled>>

\* resolve; a record between its two statements is overtaken.
Resolve ==
  /\ Exists
  /\ alert' = [alert EXCEPT !.resolved = TRUE]
  /\ recording' = [m \in Monitors |->
       [recording[m] EXCEPT !.overtaken = recording[m].step # "idle"]]
  /\ UNCHANGED <<pager, alertNow, records, settled>>

AlertNext ==
  \/ AlertTick \/ PagerAsks \/ MarkEscalated \/ Acknowledge \/ Resolve
  \/ \E m \in Monitors : RecordWrites(m) \/ \E s \in Severities : RecordReads(m, s)

AlertSpec == AlertInit /\ [][AlertNext]_alertVars

-----------------------------------------------------------------------------
(* Properties.                                                             *)

\* record: an alert that comes back after it was resolved is open again when
\* record returns; only a resolve between record's own two statements can leave
\* a reported alert resolved.
RecordedAlertIsOpen == settled.open \/ settled.overtaken

\* From the acknowledgement of an alert until it is resolved or replaced nobody
\* escalates it.
QuietStep ==
  Active /\ alert.acknowledged /\ Active' /\ alert'.acknowledged
    => alert'.attempts = alert.attempts /\ alert'.next = alert.next

\* mark_escalated, acknowledge and record: an acknowledged alert stays quiet, also
\* for a pager that was given it as due before the acknowledgement, and an alert
\* that comes back is open.
AlertsAreFaithful == [][QuietStep /\ RecordedAlertIsOpen']_alertVars
=============================================================================
