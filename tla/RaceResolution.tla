--------------------------- MODULE RaceResolution ---------------------------
(*****************************************************************************)
(* The classifiers of ambiguous outcomes: resolve_replace_race,              *)
(* resolve_unknown_outcome and resolve_cancel_timeout, fed with evidence     *)
(* collected from an exchange that moves on meanwhile.  An order is replaced *)
(* by another: its cancel may come too late, either order may still be under *)
(* way, its acknowledgement may be lost, and every read may fail.  A status  *)
(* and its cumulative quantity are one answer of the exchange; different     *)
(* reads are different moments.                                              *)
(*****************************************************************************)
EXTENDS Integers

CONSTANTS OrderQty    \* the quantity of each order

ASSUME RaceAssumption == OrderQty \in Nat \ {0}

VARIABLES old, replacement,  \* the exchange's orders
          sent,              \* replacement_order_id is not None
          knownQty,          \* local_expected_old_qty: fills of old reported so far
          ackLost,
          evidence,          \* what has been read for a decision in progress
          verdict            \* the last decision

raceVars == <<old, replacement, sent, knownQty, ackLost, evidence, verdict>>

TERMINAL_STATUS == {"FILLED", "CANCELED", "REJECTED"}
OPEN_STATUS == {"NEW", "PARTIALLY_FILLED", "PENDING_CANCEL"}
UNKNOWN == "UNKNOWN"

NoOrder == [status |-> UNKNOWN, qty |-> 0]
NoEvidence == [asked |-> "nothing", old |-> NoOrder, replacement |-> UNKNOWN, user |-> UNKNOWN,
               opened |-> UNKNOWN, fill |-> 0, reads |-> {}]
NoVerdict == [kind |-> "none", status |-> UNKNOWN, qty |-> 0]

RaceInit ==
  /\ old = NoOrder /\ replacement = NoOrder /\ sent = FALSE
  /\ knownQty = 0 /\ ackLost = FALSE
  /\ evidence = NoEvidence /\ verdict = NoVerdict

-----------------------------------------------------------------------------
(* The exchange and what the process hears of it.                          *)

Filled(order) ==
  [status |-> IF order.qty + 1 = OrderQty THEN "FILLED"
              ELSE IF order.status = "PENDING_CANCEL" THEN order.status ELSE "PARTIALLY_FILLED",
   qty |-> order.qty + 1]

\* The order, whose submission may have timed out, reaches the exchange.
OldArrives(status) ==
  /\ old = NoOrder
  /\ old' = [status |-> status, qty |-> 0]
  /\ UNCHANGED <<replacement, sent, knownQty, ackLost, evidence, verdict>>

OldFills ==
  /\ old.status \in OPEN_STATUS
  /\ old' = Filled(old)
  /\ UNCHANGED <<replacement, sent, knownQty, ackLost, evidence, verdict>>

CancelArrives ==
  /\ old.status \in {"NEW", "PARTIALLY_FILLED"}
  /\ old' = [old EXCEPT !.status = "PENDING_CANCEL"]
  /\ UNCHANGED <<replacement, sent, knownQty, ackLost, evidence, verdict>>

CancelTakesEffect ==
  /\ old.status = "PENDING_CANCEL"
  /\ old' = [old EXCEPT !.status = "CANCELED"]
  /\ UNCHANGED <<replacement, sent, knownQty, ackLost, evidence, verdict>>

SendReplacement ==
  /\ ~sent /\ sent' = TRUE
  /\ UNCHANGED <<old, replacement, knownQty, ackLost, evidence, verdict>>

ReplacementArrives(status, lost) ==
  /\ sent /\ replacement = NoOrder
  /\ replacement' = [status |-> status, qty |-> 0]
  /\ ackLost' = lost
  /\ UNCHANGED <<old, sent, knownQty, evidence, verdict>>

ReplacementFills ==
  /\ replacement.status \in OPEN_STATUS
  /\ replacement' = Filled(replacement)
  /\ UNCHANGED <<old, sent, knownQty, ackLost, evidence, verdict>>

\* The user stream reports a fill of the old order, or its acknowledgement comes.
FillReported ==
  /\ knownQty < old.qty /\ knownQty' = knownQty + 1
  /\ UNCHANGED <<old, replacement, sent, ackLost, evidence, verdict>>

AckRecovered ==
  /\ ackLost /\ ackLost' = FALSE
  /\ UNCHANGED <<old, replacement, sent, knownQty, evidence, verdict>>

-----------------------------------------------------------------------------
(* Collecting evidence.                                                    *)

Ask(question) ==
  /\ evidence = NoEvidence
  /\ evidence' = [NoEvidence EXCEPT !.asked = question]
  /\ UNCHANGED <<old, replacement, sent, knownQty, ackLost, verdict>>

\* The two orders of a replace are queried in either order; a query may fail.
ReadOld(fails) ==
  /\ evidence.asked = "replace" /\ "old" \notin evidence.reads
  /\ evidence' = [evidence EXCEPT !.reads = @ \cup {"old"}, !.old = IF fails THEN NoOrder ELSE old]
  /\ UNCHANGED <<old, replacement, sent, knownQty, ackLost, verdict>>

ReadReplacement(fails) ==
  /\ evidence.asked = "replace" /\ "replacement" \notin evidence.reads
  /\ evidence' = [evidence EXCEPT !.reads = @ \cup {"replacement"},
                    !.replacement = IF fails THEN UNKNOWN ELSE replacement.status]
  /\ UNCHANGED <<old, replacement, sent, knownQty, ackLost, verdict>>

\* For an unknown outcome: the user stream, then the open orders, where a
\* finished order is missing, and the fills last.
ReadUser(fails) ==
  /\ evidence.asked = "outcome" /\ evidence.reads = {}
  /\ evidence' = [evidence EXCEPT !.reads = {"user"}, !.user = IF fails THEN UNKNOWN ELSE old.status]
  /\ UNCHANGED <<old, replacement, sent, knownQty, ackLost, verdict>>

ReadOpenOrders ==
  /\ evidence.asked = "outcome" /\ evidence.reads = {"user"}
  /\ evidence' = [evidence EXCEPT !.reads = {"user", "opened"},
                    !.opened = IF old.status \in OPEN_STATUS THEN old.status ELSE UNKNOWN]
  /\ UNCHANGED <<old, replacement, sent, knownQty, ackLost, verdict>>

ReadFills ==
  /\ evidence.asked = "outcome" /\ evidence.reads = {"user", "opened"}
  /\ evidence' = [evidence EXCEPT !.reads = @ \cup {"fills"}, !.fill = old.qty]
  /\ UNCHANGED <<old, replacement, sent, knownQty, ackLost, verdict>>

-----------------------------------------------------------------------------
(* The decisions.                                                          *)

Decide(kind, status, qty) ==
  /\ verdict' = [kind |-> kind, status |-> status, qty |-> qty]
  /\ evidence' = NoEvidence
  /\ UNCHANGED <<old, replacement, sent, knownQty, ackLost>>

\* Mutation of ReplaceReasons: what old has filled is not compared.
ReplaceReasonsWithoutFills(e) ==
  \/ ackLost
  \/ e.old.status = UNKNOWN
  \/ sent /\ e.replacement = UNKNOWN
  \/ sent /\ e.old.status \in OPEN_STATUS /\ e.replacement \in OPEN_STATUS

\* The reasons to reconcile first.
ReplaceReasons(e) ==
  \/ ackLost
  \/ e.old.status = UNKNOWN
  \/ sent /\ e.replacement = UNKNOWN
  \/ e.old.qty > knownQty
  \/ sent /\ e.old.status \in OPEN_STATUS /\ e.replacement \in OPEN_STATUS

ResolveReplaceRace ==
  /\ evidence.asked = "replace" /\ evidence.reads = {"old", "replacement"}
  /\ IF ReplaceReasons(evidence) \/ evidence.old.status \notin TERMINAL_STATUS
     THEN Decide("reconcile", UNKNOWN, 0)
     ELSE Decide("safe", evidence.old.status, knownQty)

\* Mutation of OutcomeOf: an order that is not among the open ones is cancelled.
OutcomeByAbsence(e) ==
  CASE e.fill = OrderQty         -> "FILLED"
    [] e.fill \in 1..OrderQty-1  -> "PARTIALLY_FILLED"
    [] OTHER -> IF e.user # UNKNOWN THEN e.user
                ELSE IF e.opened = UNKNOWN THEN "CANCELED" ELSE e.opened

\* resolve_unknown_outcome: fills first, then the stream, then the open orders.
OutcomeOf(e) ==
  CASE e.fill = OrderQty         -> "FILLED"
    [] e.fill \in 1..OrderQty-1  -> "PARTIALLY_FILLED"
    [] OTHER -> IF e.user # UNKNOWN THEN e.user ELSE e.opened

ResolveUnknownOutcome ==
  /\ evidence.asked = "outcome" /\ "fills" \in evidence.reads
  /\ Decide(IF OutcomeOf(evidence) = UNKNOWN THEN "manual" ELSE "outcome",
            OutcomeOf(evidence), evidence.fill)

\* resolve_cancel_timeout: one query, None when the order is not found.
ResolveCancelTimeout(missing) ==
  /\ evidence.asked = "cancel"
  /\ old = NoOrder => missing
  /\ IF missing THEN Decide("manual", UNKNOWN, 0)
     ELSE IF old.status \in TERMINAL_STATUS THEN Decide("outcome", old.status, old.qty)
     ELSE Decide("retry", old.status, old.qty)

RaceNext ==
  \/ OldFills \/ CancelArrives \/ CancelTakesEffect \/ ReplacementFills
  \/ FillReported \/ AckRecovered
  \/ \E status \in {"NEW", "REJECTED"} :
       OldArrives(status) \/ \E lost \in BOOLEAN : ReplacementArrives(status, lost)
  \/ SendReplacement
  \/ \E question \in {"replace", "outcome", "cancel"} : Ask(question)
  \/ \E fails \in BOOLEAN : ReadOld(fails) \/ ReadReplacement(fails) \/ ReadUser(fails)
  \/ ReadOpenOrders \/ ReadFills
  \/ ResolveReplaceRace \/ ResolveUnknownOutcome
  \/ \E missing \in BOOLEAN : ResolveCancelTimeout(missing)

RaceSpec == RaceInit /\ [][RaceNext]_raceVars

-----------------------------------------------------------------------------
(* Properties.                                                             *)

\* resolve_replace_race ("Fail closed across cancel/replace races"): once a
\* replace was called safe, the old order is finished at the exchange and stays
\* so, and no fill of it is unknown to the process: replacement and old order
\* are never live together behind a safe verdict.
SafeReplaceIsSettled ==
  verdict.kind = "safe" => old.status \in TERMINAL_STATUS /\ verdict.qty = old.qty

\* resolve_unknown_outcome ("never by timeout assumption") and
\* resolve_cancel_timeout: an order is declared finished only when the exchange
\* has finished it that way, with every fill it ever had in the evidence.
FinishedIsTrue ==
  verdict.kind = "outcome" /\ verdict.status \in TERMINAL_STATUS
    => old.status = verdict.status /\ old.qty = verdict.qty

\* race_recovery.py: no verdict that lets the caller go on is wrong about the
\* exchange, although each piece of evidence is of another moment.
VerdictsAreTrue == SafeReplaceIsSettled /\ FinishedIsTrue
=============================================================================
