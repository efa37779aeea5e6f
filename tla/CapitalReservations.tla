------------------------ MODULE CapitalReservations ------------------------
(***************************************************************************)
(* Capital reserved for intents before they are submitted: the in-process  *)
(* CapitalReservations, whose lock makes reserve one step, and the         *)
(* DatabaseCapitalReservations of several processes, where reserve reads   *)
(* its row, then the sum of the active reservations, and commits its row   *)
(* later, each a statement of its own in the default isolation level.      *)
(* One asset of one account, whose free balance stays Available.           *)
(***************************************************************************)
EXTENDS Integers, FiniteSets, Functions

CONSTANTS Intents, NoIntent,
          Processes,     \* the processes, and threads, that reserve in the database
          Amounts,       \* amounts a caller may ask for
          Largest,       \* at least every amount
          Available,     \* the free balance every caller passes
          Ledgers        \* the ledgers to choose from

ASSUME CapitalAssumption ==
  /\ NoIntent \notin Intents /\ IsFiniteSet(Intents)
  /\ IsFiniteSet(Processes) /\ Processes # {}
  /\ Largest \in Nat /\ Amounts \subseteq 1..Largest
  /\ Available \in Nat
  /\ Ledgers \subseteq {"process", "database"}

VARIABLES ledger, \* CapitalReservations or DatabaseCapitalReservations
          rows,   \* the reservation of each intent
          job     \* reserve in progress, per process; summed: the amount fitted

capitalVars == <<ledger, rows, job>>

Database == ledger = "database"

States == {"none", "active", "expired", "released"}
Rows == [state : States, amount : Amounts \cup {0}]
NoRow == [state |-> "none", amount |-> 0]
NoJob == [intent |-> NoIntent, amount |-> 0, seen |-> NoRow, summed |-> FALSE]
Jobs == [intent : Intents \cup {NoIntent}, amount : Amounts \cup {0}, seen : Rows,
         summed : BOOLEAN]

CapitalTypeOK ==
  /\ ledger \in Ledgers
  /\ rows \in [Intents -> Rows]
  /\ job \in [Processes -> Jobs]

CapitalInit ==
  /\ ledger \in Ledgers
  /\ rows = [i \in Intents |-> NoRow]
  /\ job = [p \in Processes |-> NoJob]

Active == {i \in Intents : rows[i].state = "active"}
Used == SumFunctionOnSet([i \in Intents |-> rows[i].amount], Active)

\* Mutation of Fits: the new amount is compared without what is reserved.
FitsAlone(amount) == amount <= Available

\* used + amount > available is refused.
Fits(amount) == Used + amount <= Available

-----------------------------------------------------------------------------
\* CapitalReservations.reserve, under the lock: prune, an active reservation is
\* returned as it is, a new one is added if it fits.
ReserveLocked(i, amount) ==
  /\ ~Database
  /\ rows[i].state # "active"
  /\ Fits(amount)
  /\ rows' = [rows EXCEPT ![i] = [state |-> "active", amount |-> amount]]
  /\ UNCHANGED <<ledger, job>>

\* DatabaseCapitalReservations.reserve: the row; an active one is returned as it is.
ReadRow(p, i, amount) ==
  /\ Database
  /\ job[p] = NoJob
  /\ rows[i].state # "active"
  /\ job' = [job EXCEPT ![p] = [intent |-> i, amount |-> amount, seen |-> rows[i],
                                summed |-> FALSE]]
  /\ UNCHANGED <<ledger, rows>>

\* The sum and the check, which raises.
Check(p) ==
  /\ job[p] # NoJob /\ ~job[p].summed
  /\ job' = [job EXCEPT ![p] = IF Fits(job[p].amount) THEN [@ EXCEPT !.summed = TRUE] ELSE NoJob]
  /\ UNCHANGED <<ledger, rows>>

\* Mutation of CommitRow: the row gets the new total instead of the new amount.
CommitTotal(p) ==
  LET i == job[p].intent
  IN  /\ job[p].summed
      /\ rows' = [rows EXCEPT ![i] = [state |-> "active", amount |-> Used + job[p].amount]]
      /\ job' = [job EXCEPT ![p] = NoJob]
      /\ UNCHANGED ledger

\* The update of a row that was read writes the columns that change: released_at
\* unless it was read as NULL, amount unless it was read as the same.
Updated(row, seen, amount) ==
  [state  |-> IF seen.state = "expired" /\ row.state = "released" THEN "released" ELSE "active",
   amount |-> IF seen.amount = amount THEN row.amount ELSE amount]

\* The commit: an insert if no row was seen, which fails if another process has
\* inserted the intent since; else an update of the row.
CommitRow(p) ==
  LET i == job[p].intent
  IN  /\ job[p].summed
      /\ rows' = IF job[p].seen = NoRow /\ rows[i] # NoRow
                 THEN rows
                 ELSE [rows EXCEPT ![i] = IF job[p].seen = NoRow
                                          THEN [state |-> "active", amount |-> job[p].amount]
                                          ELSE Updated(@, job[p].seen, job[p].amount)]
      /\ job' = [job EXCEPT ![p] = NoJob]
      /\ UNCHANGED ledger

Release(i) ==
  /\ rows[i].state \in {"active", "expired"}
  /\ rows' = [rows EXCEPT ![i] = IF Database THEN [@ EXCEPT !.state = "released"] ELSE NoRow]
  /\ UNCHANGED <<ledger, job>>

\* expires_at passes; the in-process store prunes the entry when it next looks.
Expire(i) ==
  /\ rows[i].state = "active"
  /\ rows' = [rows EXCEPT ![i] = IF Database THEN [@ EXCEPT !.state = "expired"] ELSE NoRow]
  /\ UNCHANGED <<ledger, job>>

CapitalNext ==
  \/ \E i \in Intents, amount \in Amounts :
       ReserveLocked(i, amount) \/ \E p \in Processes : ReadRow(p, i, amount)
  \/ \E p \in Processes : Check(p) \/ CommitRow(p)
  \/ \E i \in Intents : Release(i) \/ Expire(i)

CapitalSpec == CapitalInit /\ [][CapitalNext]_capitalVars

-----------------------------------------------------------------------------
\* CapitalReservations: "against concurrent scanner/order submissions
\* overcommitting free capital".
NoOvercommit == Used <= Available

\* The processes that a check does not see: all but the one that makes it.
Unseen == IF Database THEN Cardinality(Processes) - 1 ELSE 0

\* reserve: what is promised beyond the free balance is at most one amount for every other
\* process, whichever checks overlapped; one process, or the in-process ledger, promises no
\* more than there is.
OvercommitIsBounded == Used <= Available + Unseen * Largest

\* Both ledgers stay well formed and promise no more than the checks that overlap allow.
CapitalInv == CapitalTypeOK /\ OvercommitIsBounded
=============================================================================
