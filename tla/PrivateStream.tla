---------------------------- MODULE PrivateStream ----------------------------
(***************************************************************************)
(* PrivateStreamProjector: the order state projected from the user-data     *)
(* stream.  The exchange reports each order's life in order; the reports    *)
(* reach project any number of times, in any order, or not at all.          *)
(***************************************************************************)
EXTENDS Integers, Sequences

CONSTANTS Orders,
          Size,        \* quantity of an order
          MaxReports   \* bound on reports per order, for model checking only

ASSUME StreamAssumption == Size \in Nat \ {0} /\ MaxReports \in Nat

VARIABLES reports,   \* what the exchange reported of each order, oldest first
          progress,  \* order_progress: the report last applied
          seen,      \* seen_trades
          applied,   \* history: quantity of the fills applied
          got        \* history: the newest report that reached project

streamVars == <<reports, progress, seen, applied, got>>

-----------------------------------------------------------------------------
TERMINAL == {"FILLED", "CANCELED", "REJECTED", "EXPIRED"}

RANK(status) ==
  CASE status = "NEW" -> 1
    [] status = "PARTIALLY_FILLED" -> 2
    [] status \in TERMINAL -> 4
    [] OTHER -> 0

Statuses == {"NEW", "PARTIALLY_FILLED"} \cup TERMINAL

\* fill: last_qty of a trade, 0 for a report that is not one.
Reports == [status : Statuses, qty : 0..Size, time : Nat, fill : 0..Size]
NoReport == [status |-> "NONE", qty |-> 0, time |-> 0, fill |-> 0]

StreamInit ==
  /\ reports = [o \in Orders |-> <<>>]
  /\ progress = [o \in Orders |-> NoReport]
  /\ seen = {}
  /\ applied = [o \in Orders |-> 0]
  /\ got = [o \in Orders |-> 0]

-----------------------------------------------------------------------------
(* The exchange.                                                           *)

Latest(o) == IF reports[o] = <<>> THEN NoReport ELSE reports[o][Len(reports[o])]

\* Two reports may carry the same millisecond.
Emit(o, status, fill, later) ==
  /\ Len(reports[o]) < MaxReports
  /\ reports' = [reports EXCEPT ![o] = Append(@,
       [status |-> status, qty |-> Latest(o).qty + fill,
        time |-> Latest(o).time + (IF later THEN 1 ELSE 0), fill |-> fill])]
  /\ UNCHANGED <<progress, seen, applied, got>>

Report(o) ==
  \E later \in BOOLEAN :
    \/ reports[o] = <<>> /\ \E status \in {"NEW", "REJECTED"} : Emit(o, status, 0, TRUE)
    \/ /\ Latest(o).status \in {"NEW", "PARTIALLY_FILLED"}
       /\ \/ \E fill \in 1..(Size - Latest(o).qty) :
               Emit(o, IF Latest(o).qty + fill = Size THEN "FILLED" ELSE "PARTIALLY_FILLED",
                    fill, later)
          \/ \E status \in {"CANCELED", "EXPIRED"} : Emit(o, status, 0, later)

-----------------------------------------------------------------------------
(* project, of the k-th report of order o.                                 *)

\* DUPLICATE_FILL.
SeenFill(o, k) == reports[o][k].fill > 0 /\ <<o, k>> \in seen

\* Mutation of StaleReport: an older cumulative quantity is not looked at.
StaleByTime(o, r) == r.time < progress[o].time

\* STALE_ORDER_EVENT.
StaleReport(o, r) == r.time < progress[o].time \/ r.qty < progress[o].qty

\* TERMINAL_ORDER_REGRESSION.
Regresses(o, r) == progress[o].status \in TERMINAL /\ r.status # progress[o].status

\* OUT_OF_ORDER_ORDER_EVENT.
OutOfOrder(o, r) ==
  RANK(r.status) < RANK(progress[o].status) /\ r.qty <= progress[o].qty

\* DUPLICATE_ORDER_EVENT.
Duplicate(o, r) ==
  /\ r.time = progress[o].time /\ r.status = progress[o].status
  /\ r.qty = progress[o].qty

Ignored(o, k) ==
  LET r == reports[o][k]
  IN  \/ SeenFill(o, k)
      \/ /\ progress[o] # NoReport
         /\ StaleReport(o, r) \/ Regresses(o, r) \/ OutOfOrder(o, r) \/ Duplicate(o, r)

Reach(o, k) == got' = [got EXCEPT ![o] = IF k > @ THEN k ELSE @]

Ignore(o, k) ==
  /\ Ignored(o, k)
  /\ Reach(o, k)
  /\ UNCHANGED <<reports, progress, seen, applied>>

\* APPLY_ORDER_EVENT.
Apply(o, k) ==
  LET r == reports[o][k]
  IN  /\ ~Ignored(o, k)
      /\ seen' = IF r.fill > 0 THEN seen \cup {<<o, k>>} ELSE seen
      /\ progress' = [progress EXCEPT ![o] = r]
      /\ applied' = [applied EXCEPT ![o] = @ + r.fill]
      /\ Reach(o, k)
      /\ UNCHANGED reports

StreamNext ==
  \E o \in Orders :
    \/ Report(o)
    \/ \E k \in 1..Len(reports[o]) : Ignore(o, k) \/ Apply(o, k)

StreamSpec == StreamInit /\ [][StreamNext]_streamVars

-----------------------------------------------------------------------------
(* Properties.                                                             *)

\* project: with duplicates, losses and any order of arrival the projection is
\* the newest report that arrived.
ProjectionIsNewest ==
  \A o \in Orders :
    progress[o] = IF got[o] = 0 THEN NoReport ELSE reports[o][got[o]]

\* project: the fills applied never exceed the executed quantity projected.
FillsAppliedOnce == \A o \in Orders : applied[o] <= progress[o].qty

\* PrivateStreamProjector: the projection is that of the newest report, with
\* every fill applied once, whatever was repeated, lost or reordered.
ProjectionIsExact == ProjectionIsNewest /\ FillsAppliedOnce

=============================================================================
