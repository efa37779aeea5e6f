-------------------------- MODULE DurableExecution --------------------------
(***************************************************************************)
(* ExecutionService.submit over a PersistentIntentLedger, run by several   *)
(* instances against one database and one exchange, for one account.       *)
(*                                                                         *)
(* submit holds the account's in-process lock from its first check to its  *)
(* return, so an instance runs one submit at a time: job[i].  Database and *)
(* exchange are shared, so every ledger or exchange call is a step of its  *)
(* own, and instances, network, exchange, lease and crashes interleave     *)
(* between them.  A return or raise without effect is a step back to Idle, *)
(* or no step at all when nothing has been called yet.                     *)
(***************************************************************************)
EXTENDS LeaderLease

CONSTANTS Intents,      \* order intents of the account
          NoIntent,     \* the intent of an idle instance
          Symbols,
          SymbolOf,     \* intent.symbol
          ReduceOnly,   \* intents with reduce_only
          Unaligned,    \* intents whose quantity is not a multiple of the lot step
          Arrivals,     \* adapter states of a freshly accepted order
          Outcomes,     \* adapter states an open order may move to
          Live,         \* mode = LIVE: lease, fence and balance are checked
          Isolation,    \* a SymbolRiskIsolation is configured
          Clearable,    \* symbols whose isolation its owner lifts
          MaxCrashes    \* bound on process crashes, for model checking only

\* OrderState values an order of the exchange can be reported in.  UNKNOWN is
\* what BinanceSpotAdapter._map_order makes of a status it does not list.
Open == {"ACKNOWLEDGED", "UNKNOWN"}
Terminal == {"FILLED", "CANCELLED", "REJECTED"}
Remote == Open \cup Terminal
Unresolved == {"SUBMITTED", "UNKNOWN"}
Status == Remote \cup {"SUBMITTED"}

ASSUME ExecutionAssumption ==
  /\ NoIntent \notin Intents
  /\ SymbolOf \in [Intents -> Symbols]
  /\ ReduceOnly \subseteq Intents
  /\ Unaligned \subseteq Intents
  /\ Arrivals \subseteq Remote
  /\ Outcomes \subseteq Terminal
  /\ Live \in BOOLEAN
  /\ Isolation \in BOOLEAN
  /\ Clearable \subseteq Symbols
  /\ MaxCrashes \in Nat

VARIABLES row,       \* orders table: status and whether exchange_order_id is set
          order,     \* the exchange's own state of the order ("NONE": no order)
          reply,     \* the state the exchange's reply to the submit reports
          inflight,  \* submit requests travelling to the exchange
          sends,     \* history: how often submit_order was called for an intent
          job,       \* the submit each instance is running
          records,   \* ExecutionService.records of each process
          isolated,  \* SymbolRiskIsolation of each process
          riskOpen,  \* RiskMachine.allow_new_risk() of each process
          crashes,
          staleSends, \* history: sends while another instance leads, since the
                      \* instance last acquired the lease itself
          lateSends   \* history: risk-increasing sends while the risk machine
                      \* is closed, since it was last opened

exchangeVars == <<order, reply, inflight, sends>>
processVars == <<records, isolated, riskOpen>>
history == <<staleSends, lateSends>>
vars == <<leaseVars, row, exchangeVars, job, processVars, crashes, history>>

Row == [status : Status, xid : BOOLEAN]
NoRow == [status |-> "NONE", xid |-> FALSE]
Reserved == [status |-> "SUBMITTED", xid |-> FALSE]
Unknown == [status |-> "UNKNOWN", xid |-> FALSE]

Steps == {"lookup", "query", "markFound", "reserve", "relookup", "fence",
          "send", "wait", "markSent", "markUnknown"}
Idle == [pc |-> "idle", intent |-> NoIntent, token |-> 0, seen |-> Unknown]
Job == [pc : Steps, intent : Intents, token : 0..MaxToken, seen : Row]

TypeOK ==
  /\ LeaseTypeOK
  /\ row \in [Intents -> Row \cup {NoRow}]
  /\ order \in [Intents -> Remote \cup {"NONE"}]
  /\ reply \in [Intents -> Remote]
  /\ inflight \subseteq Intents
  /\ sends \in [Intents -> Nat]
  /\ job \in [Instances -> Job \cup {Idle}]
  /\ records \in [Instances -> [Intents -> Status \cup {"NONE"}]]
  /\ isolated \in [Instances -> SUBSET Symbols]
  /\ riskOpen \in [Instances -> BOOLEAN]
  /\ crashes \in 0..MaxCrashes
  /\ staleSends \in [Instances -> Nat]
  /\ lateSends \in [Instances -> Nat]

Init ==
  /\ LeaseInit
  /\ row = [n \in Intents |-> NoRow]
  /\ order = [n \in Intents |-> "NONE"]
  /\ reply = [n \in Intents |-> "UNKNOWN"]
  /\ inflight = {}
  /\ sends = [n \in Intents |-> 0]
  /\ job = [i \in Instances |-> Idle]
  /\ records = [i \in Instances |-> [n \in Intents |-> "NONE"]]
  /\ isolated = [i \in Instances |-> {}]
  /\ riskOpen = [i \in Instances |-> TRUE]
  /\ crashes = 0
  /\ staleSends = [i \in Instances |-> 0]
  /\ lateSends = [i \in Instances |-> 0]

-----------------------------------------------------------------------------
(* Helpers: moving through submit.                                         *)

At(i, pc) == job[i].pc = pc
Intent(i) == job[i].intent
Goto(i, pc) == job' = [job EXCEPT ![i].pc = pc]
GotoWith(i, pc, r) == job' = [job EXCEPT ![i].pc = pc, ![i].seen = r]
Return(i) == job' = [job EXCEPT ![i] = Idle]
Remember(i, status) == records' = [records EXCEPT ![i][Intent(i)] = status]
Write(i, r) == row' = [row EXCEPT ![Intent(i)] = r]

-----------------------------------------------------------------------------
(* ExecutionService.submit.                                                *)

\* Mutation of MayTakeRisk: the risk machine is not asked.
MayTakeRiskUnlessIsolated(i, n) == n \in ReduceOnly \/ SymbolOf[n] \notin isolated[i]

\* Symbol isolation and the risk machine bind risk-increasing intents only.
MayTakeRisk(i, n) ==
  n \in ReduceOnly \/ (riskOpen[i] /\ SymbolOf[n] \notin isolated[i])

\* The fencing tokens a caller in process i can pass, and leader.validate.
Tokened(i) == IF Live THEN held[i] ELSE {0}
MayLead(i, token) == ~Live \/ Validate(i, token)

\* The checks before the first ledger call.  A cached record ends submit here.
\* Reservation, pre-trade limits and quantity checks only ever raise.
Begin(i, n, token) ==
  /\ At(i, "idle")
  /\ MayTakeRisk(i, n)
  /\ token \in Tokened(i) /\ MayLead(i, token)
  /\ records[i][n] = "NONE"
  /\ job' = [job EXCEPT ![i] = [pc |-> "lookup", intent |-> n,
                                token |-> token, seen |-> Unknown]]
  /\ UNCHANGED <<leaseVars, row, exchangeVars, processVars, crashes, history>>

\* validate_live_balance raises: risk.restrict, and submit raises.
BalanceChanged(i, n, token) ==
  /\ Live /\ n \notin ReduceOnly
  /\ At(i, "idle")
  /\ MayTakeRisk(i, n)
  /\ token \in Tokened(i) /\ MayLead(i, token)
  /\ riskOpen' = [riskOpen EXCEPT ![i] = FALSE]
  /\ UNCHANGED <<leaseVars, row, exchangeVars, job, records, isolated, crashes, history>>

\* reconcile_existing, its ledger.get.  The first call compares the row with
\* the intent as given, before normalisation: an unaligned quantity differs
\* from the stored one and _assert_same_intent raises.
\* Mutation of LookupMiss: the reservation is skipped.
LookupMissSubmits(i) ==
  /\ At(i, "lookup")
  /\ row[Intent(i)] = NoRow
  /\ Goto(i, "fence")
  /\ UNCHANGED <<leaseVars, row, exchangeVars, processVars, crashes, history>>

LookupMiss(i) ==
  /\ At(i, "lookup")
  /\ row[Intent(i)] = NoRow
  /\ Goto(i, "reserve")
  /\ UNCHANGED <<leaseVars, row, exchangeVars, processVars, crashes, history>>

LookupCollides(i) ==
  /\ At(i, "lookup")
  /\ row[Intent(i)] # NoRow /\ Intent(i) \in Unaligned
  /\ Return(i)
  /\ UNCHANGED <<leaseVars, row, exchangeVars, processVars, crashes, history>>

FindsRow(i) ==
  /\ At(i, "lookup") \/ At(i, "relookup")
  /\ row[Intent(i)] # NoRow
  /\ At(i, "lookup") => Intent(i) \notin Unaligned

LookupKnown(i) ==
  /\ FindsRow(i)
  /\ row[Intent(i)].status \notin Unresolved
  /\ Remember(i, row[Intent(i)].status)
  /\ Return(i)
  /\ UNCHANGED <<leaseVars, row, exchangeVars, isolated, riskOpen, crashes, history>>

LookupUnresolved(i) ==
  /\ FindsRow(i)
  /\ row[Intent(i)].status \in Unresolved
  /\ GotoWith(i, "query", row[Intent(i)])
  /\ UNCHANGED <<leaseVars, row, exchangeVars, processVars, crashes, history>>

\* Mutation of Query: an order that is not found yet counts as rejected.
QueryRejects(i) ==
  /\ At(i, "query")
  /\ GotoWith(i, "markFound", [status |-> IF order[Intent(i)] = "NONE" THEN "REJECTED"
                                          ELSE order[Intent(i)], xid |-> TRUE])
  /\ UNCHANGED <<leaseVars, row, exchangeVars, processVars, crashes, history>>

\* exchange.get_order: the order as the exchange has it now, or none.
Query(i) ==
  /\ At(i, "query")
  /\ GotoWith(i, "markFound",
       IF order[Intent(i)] = "NONE" THEN [job[i].seen EXCEPT !.status = "UNKNOWN"]
       ELSE [status |-> order[Intent(i)], xid |-> TRUE])
  /\ UNCHANGED <<leaseVars, row, exchangeVars, processVars, crashes, history>>

\* ledger.mark of what the query returned, whatever the row says by now.
MarkFound(i) ==
  /\ At(i, "markFound")
  /\ Write(i, job[i].seen)
  /\ Remember(i, job[i].seen.status)
  /\ Return(i)
  /\ UNCHANGED <<leaseVars, exchangeVars, isolated, riskOpen, crashes, history>>

\* The symbol's filters or capabilities differ between the two reads.
MetadataChanged(i) ==
  /\ At(i, "reserve")
  /\ riskOpen' = [riskOpen EXCEPT ![i] = FALSE]
  /\ Return(i)
  /\ UNCHANGED <<leaseVars, row, exchangeVars, records, isolated, crashes, history>>

\* reserve_before_side_effect: the unique intent_id decides who submits.
\* Mutation of MayReserve: an unresolved row of another instance is taken over.
MayTakeOverRow(i) == row[Intent(i)] = NoRow \/ row[Intent(i)] = Reserved

MayReserve(i) == row[Intent(i)] = NoRow

Reserve(i) ==
  /\ At(i, "reserve")
  /\ MayReserve(i)
  /\ Write(i, Reserved)
  /\ Remember(i, "SUBMITTED")
  /\ Goto(i, "fence")
  /\ UNCHANGED <<leaseVars, exchangeVars, isolated, riskOpen, crashes, history>>

ReserveLost(i) ==
  /\ At(i, "reserve")
  /\ ~MayReserve(i)
  /\ Goto(i, "relookup")
  /\ UNCHANGED <<leaseVars, row, exchangeVars, processVars, crashes, history>>

\* The commit went through but its confirmation was lost: submit raises.
ReserveAmbiguous(i) ==
  /\ At(i, "reserve")
  /\ MayReserve(i)
  /\ Write(i, Reserved)
  /\ Return(i)
  /\ UNCHANGED <<leaseVars, exchangeVars, processVars, crashes, history>>

\* side_effect_fence.require_current.
PassFence(i) == IF Live THEN RequireCurrent(i, job[i].token) ELSE UNCHANGED leaseVars

Fence(i) ==
  /\ At(i, "fence")
  /\ PassFence(i)
  /\ Goto(i, "send")
  /\ UNCHANGED <<row, exchangeVars, processVars, crashes, history>>

FenceFails(i) ==
  /\ At(i, "fence")
  /\ Live /\ RequireFails(i, job[i].token)
  /\ Return(i)
  /\ UNCHANGED <<row, exchangeVars, processVars, crashes, history>>

\* exchange.submit_order puts the request on the wire.
Send(i) ==
  /\ At(i, "send")
  /\ inflight' = inflight \cup {Intent(i)}
  /\ sends' = [sends EXCEPT ![Intent(i)] = @ + 1]
  /\ staleSends' = IF Live /\ lease.instance # i
                   THEN [staleSends EXCEPT ![i] = @ + 1] ELSE staleSends
  /\ lateSends' = IF ~riskOpen[i] /\ Intent(i) \notin ReduceOnly
                  THEN [lateSends EXCEPT ![i] = @ + 1] ELSE lateSends
  /\ Goto(i, "wait")
  /\ UNCHANGED <<leaseVars, row, order, reply, processVars, crashes>>

\* The exchange's answer arrives; records is assigned before the row is marked.
Answered(i) ==
  /\ At(i, "wait")
  /\ Intent(i) \notin inflight /\ order[Intent(i)] # "NONE"
  /\ Remember(i, reply[Intent(i)])
  /\ GotoWith(i, "markSent", [status |-> reply[Intent(i)], xid |-> TRUE])
  /\ UNCHANGED <<leaseVars, row, exchangeVars, isolated, riskOpen, crashes, history>>

MarkSent(i) ==
  /\ At(i, "markSent")
  /\ Write(i, job[i].seen)
  /\ Return(i)
  /\ UNCHANGED <<leaseVars, exchangeVars, processVars, crashes, history>>

\* A rate limit, a 4xx or a missing capability: no order, submit raises with
\* the row and the record still SUBMITTED.
Refused(i) ==
  /\ At(i, "wait")
  /\ Intent(i) \in inflight
  /\ inflight' = inflight \ {Intent(i)}
  /\ Return(i)
  /\ UNCHANGED <<leaseVars, row, order, reply, sends, processVars, crashes, history>>

\* The order is placed but its reply can not be read or mapped: submit raises,
\* again with row and record SUBMITTED.
ReplyUnreadable(i) ==
  /\ At(i, "wait")
  /\ Intent(i) \notin inflight /\ order[Intent(i)] # "NONE"
  /\ Return(i)
  /\ UNCHANGED <<leaseVars, row, exchangeVars, processVars, crashes, history>>

\* Mutation of Ambiguous: only a request still under way times out.
AmbiguousInFlight(i) ==
  /\ At(i, "wait")
  /\ Intent(i) \in inflight
  /\ Remember(i, "UNKNOWN")
  /\ Goto(i, "markUnknown")
  /\ UNCHANGED <<leaseVars, row, exchangeVars, isolated, riskOpen, crashes, history>>

\* AmbiguousExecution or TimeoutError, whether or not the exchange got it.
Ambiguous(i) ==
  /\ At(i, "wait")
  /\ Remember(i, "UNKNOWN")
  /\ Goto(i, "markUnknown")
  /\ UNCHANGED <<leaseVars, row, exchangeVars, isolated, riskOpen, crashes, history>>

MarkUnknown(i) ==
  /\ At(i, "markUnknown")
  /\ Write(i, Unknown)
  /\ isolated' = IF Isolation
                 THEN [isolated EXCEPT ![i] = @ \cup {SymbolOf[Intent(i)]}]
                 ELSE isolated
  /\ riskOpen' = IF Isolation THEN riskOpen ELSE [riskOpen EXCEPT ![i] = FALSE]
  /\ Return(i)
  /\ UNCHANGED <<leaseVars, exchangeVars, records, crashes, history>>

\* A mark commits but its confirmation is lost: submit raises before it assigns
\* records or isolates the symbol.
MarkAmbiguous(i) ==
  /\ At(i, "markFound") \/ At(i, "markUnknown")
  /\ Write(i, IF At(i, "markUnknown") THEN Unknown ELSE job[i].seen)
  /\ Return(i)
  /\ UNCHANGED <<leaseVars, exchangeVars, processVars, crashes, history>>

\* A database or exchange read fails, or a mark does not commit: submit raises.
CallFails(i) ==
  /\ job[i].pc \in {"lookup", "relookup", "query", "markFound", "reserve",
                    "markSent", "markUnknown"}
  /\ Return(i)
  /\ UNCHANGED <<leaseVars, row, exchangeVars, processVars, crashes, history>>

-----------------------------------------------------------------------------
(* The exchange and the network (external).                                *)

Accept(n) ==
  /\ n \in inflight
  /\ inflight' = inflight \ {n}
  /\ order[n] = "NONE"
  /\ \E s \in Arrivals : /\ order' = [order EXCEPT ![n] = s]
                         /\ reply' = [reply EXCEPT ![n] = s]
  /\ UNCHANGED <<leaseVars, row, sends, job, processVars, crashes, history>>

LoseRequest(n) ==
  /\ n \in inflight
  /\ inflight' = inflight \ {n}
  /\ UNCHANGED <<leaseVars, row, order, reply, sends, job, processVars, crashes, history>>

Execute(n) ==
  /\ order[n] \in Open
  /\ \E s \in Outcomes : order' = [order EXCEPT ![n] = s]
  /\ UNCHANGED <<leaseVars, row, reply, inflight, sends, job, processVars,
                 crashes, history>>

-----------------------------------------------------------------------------
(* Lease, crash, recovery.                                                 *)

TakeLease(i) ==
  /\ Live /\ Acquire(i)
  /\ staleSends' = [staleSends EXCEPT ![i] = 0]
  /\ UNCHANGED <<row, exchangeVars, job, processVars, crashes, lateSends>>

KeepLease(i) ==
  /\ Live /\ Heartbeat(i)
  /\ UNCHANGED <<row, exchangeVars, job, processVars, crashes, history>>

LeaseRunsOut(i) ==
  /\ Live /\ Elapse(i)
  /\ UNCHANGED <<row, exchangeVars, job, processVars, crashes, history>>

\* The process dies at any point of submit and restarts in STARTING: records,
\* symbol isolation and fencing guard were only in memory.
Crash(i) ==
  /\ crashes < MaxCrashes
  /\ crashes' = crashes + 1
  /\ LoseProcess(i)
  /\ Return(i)
  /\ records' = [records EXCEPT ![i] = [n \in Intents |-> "NONE"]]
  /\ isolated' = [isolated EXCEPT ![i] = {}]
  /\ riskOpen' = [riskOpen EXCEPT ![i] = FALSE]
  /\ UNCHANGED <<row, exchangeVars, history>>

\* reconcile of the database snapshot with the exchange: open orders by
\* exchange id.  A row without an exchange id is not in the local snapshot.
LocalOpen == {n \in Intents : row[n].status \in Open \cup {"SUBMITTED"} /\ row[n].xid}
ExchangeOpen == {n \in Intents : order[n] \in Open}

\* RestartRecoveryCoordinator.evaluate with green checks and human approval.
Recover(i) ==
  /\ ~riskOpen[i]
  /\ LocalOpen = ExchangeOpen
  /\ riskOpen' = [riskOpen EXCEPT ![i] = TRUE]
  /\ lateSends' = [lateSends EXCEPT ![i] = 0]
  /\ UNCHANGED <<leaseVars, row, exchangeVars, job, records, isolated, crashes,
                 staleSends>>

\* EmergencyController.emergency_stop, ExchangeFailureCoordinator.handle and the
\* stream coordinators close the risk machine from other threads; none of them
\* takes the account lock, so a submit may be anywhere.
Halt(i) ==
  /\ riskOpen[i]
  /\ riskOpen' = [riskOpen EXCEPT ![i] = FALSE]
  /\ UNCHANGED <<leaseVars, row, exchangeVars, job, records, isolated, crashes, history>>

\* SymbolRiskIsolation.clear: no condition of its own, no caller in the application.
ClearIsolation(i, s) ==
  /\ s \in isolated[i]
  /\ isolated' = [isolated EXCEPT ![i] = @ \ {s}]
  /\ UNCHANGED <<leaseVars, row, exchangeVars, job, records, riskOpen, crashes, history>>

-----------------------------------------------------------------------------
\* The steps of a submit that has begun.
SubmitStep(i) ==
  \/ LookupMiss(i) \/ LookupCollides(i) \/ LookupKnown(i) \/ LookupUnresolved(i)
  \/ Query(i) \/ MarkFound(i) \/ MetadataChanged(i)
  \/ Reserve(i) \/ ReserveLost(i) \/ ReserveAmbiguous(i)
  \/ Fence(i) \/ FenceFails(i)
  \/ Send(i) \/ Answered(i) \/ MarkSent(i)
  \/ Refused(i) \/ ReplyUnreadable(i)
  \/ Ambiguous(i) \/ MarkUnknown(i) \/ MarkAmbiguous(i) \/ CallFails(i)

Next ==
  \/ \E i \in Instances :
       \/ \E n \in Intents, token \in 0..MaxToken :
            Begin(i, n, token) \/ BalanceChanged(i, n, token)
       \/ SubmitStep(i)
       \/ TakeLease(i) \/ KeepLease(i) \/ LeaseRunsOut(i)
       \/ Crash(i) \/ Recover(i) \/ Halt(i)
       \/ \E s \in Clearable : ClearIsolation(i, s)
  \/ \E n \in Intents : Accept(n) \/ LoseRequest(n) \/ Execute(n)

Spec == Init /\ [][Next]_vars

\* A thread inside submit keeps running: every call it makes returns, fails or
\* times out.  Nothing else is assumed to happen.
FairSpec == Spec /\ \A i \in Instances : WF_vars(SubmitStep(i))

-----------------------------------------------------------------------------
(* Properties.                                                             *)

\* Whatever instances, crashes, retries, lost requests and lost replies do,
\* submit_order is called at most once for an intent: the unique durable row is
\* never re-reserved and only its creator goes on to the exchange.
AtMostOnceSubmission == \A n \in Intents : sends[n] <= 1

\* No order reaches the wire, the exchange or its book before the intent's row
\* is committed, so after any crash a restarted process can find it.
DurableBeforeSideEffect ==
  \A n \in Intents : sends[n] > 0 \/ n \in inflight \/ order[n] # "NONE" => row[n] # NoRow

\* UNKNOWN is not FAILED: a durable or cached status other than SUBMITTED and
\* UNKNOWN is one the exchange reported, and a terminal one is its final state.
NoInventedOutcome ==
  /\ \A n \in Intents :
       /\ row[n] # NoRow /\ row[n].status \notin Unresolved => order[n] # "NONE"
       /\ row[n].status \in Terminal => order[n] = row[n].status
  /\ \A i \in Instances, n \in Intents :
       records[i][n] \in Terminal => order[n] = records[i][n]

\* Only the submit already past its fence check can still reach the exchange
\* after a takeover: at most one order per lost lease.
StaleLeaderSendsAtMostOnce == \A i \in Instances : staleSends[i] <= 1

\* An emergency stop does not take the account lock, so the submit already past
\* its risk check may still open exposure, but no other: at most one per stop.
HaltAdmitsAtMostOne == \A i \in Instances : lateSends[i] <= 1

\* submit always returns or raises, so the account lock is always released.
SubmitReturns == \A i \in Instances : job[i].pc # "idle" ~> job[i].pc = "idle"

(* The inductive invariant behind the safety properties.                   *)

\* The creator of the row: reserved, not yet handed to the exchange.
Submitting(i) == At(i, "fence") \/ At(i, "send")

\* A status that may be written: what the exchange reported, still true of it.
Justified(n, status) ==
  /\ status \notin Unresolved => order[n] # "NONE"
  /\ status \in Terminal => order[n] = status

\* One instance at most is between reserving an intent and sending it, and it
\* has not been sent.
SingleSubmitter ==
  /\ \A i \in Instances : Submitting(i) => sends[Intent(i)] = 0
  /\ \A i, j \in Instances :
       Submitting(i) /\ Submitting(j) /\ Intent(i) = Intent(j) => i = j

\* Past the reservation a submit's row is there, and so it is for any order.
RowsPrecede ==
  /\ \A n \in Intents : sends[n] > 0 => row[n] # NoRow
  /\ \A n \in Intents : n \in inflight \/ order[n] # "NONE" => sends[n] > 0
  /\ \A i \in Instances :
       job[i].pc \notin {"idle", "lookup", "reserve"} => row[Intent(i)] # NoRow

\* Rows, records, replies and what a submit is about to write are justified.
OutcomesJustified ==
  /\ \A n \in Intents : row[n] # NoRow => Justified(n, row[n].status)
  /\ \A n \in Intents : order[n] # "NONE" => Justified(n, reply[n])
  /\ \A i \in Instances :
       job[i].pc \in {"markFound", "markSent"} => Justified(Intent(i), job[i].seen.status)
  /\ \A i \in Instances, n \in Intents :
       records[i][n] # "NONE" => Justified(n, records[i][n])

\* In LIVE mode a running submit carries a token its process was granted.
TokensHeld ==
  \A i \in Instances : Live /\ job[i].pc # "idle" => job[i].token \in held[i]

\* Together with the types, this is preserved by every step.
ExecutionInv ==
  /\ TypeOK /\ LeaseInv /\ TokensHeld
  /\ AtMostOnceSubmission /\ SingleSubmitter /\ RowsPrecede /\ OutcomesJustified

\* A submit that may still call submit_order.
BeforeSend == {"lookup", "reserve", "fence", "send"}

\* After a send under another's lease the instance is not past the fence again
\* until it has acquired the lease itself.
FencedOut ==
  \A i \in Instances :
    \/ staleSends[i] = 0
    \/ staleSends[i] = 1 /\ Live /\ lease.instance # i /\ ~At(i, "send")

\* After a late send the risk machine is closed and only submits that reduce
\* risk are on their way to the exchange.
HaltedOut ==
  \A i \in Instances :
    \/ lateSends[i] = 0
    \/ /\ lateSends[i] = 1 /\ ~riskOpen[i]
       /\ job[i].pc \in BeforeSend => Intent(i) \in ReduceOnly

\* The abstract promise of the ledger, and that submit keeps it.
HasRow == {n \in Intents : row[n] # NoRow}
AtExchange == {n \in Intents : order[n] # "NONE"}
OutcomeKnown == {n \in Intents : row[n] # NoRow /\ row[n].status \notin Unresolved}

Once == INSTANCE SubmitOnce WITH reserved <- HasRow, submits <- sends,
                                 placed <- AtExchange, known <- OutcomeKnown

\* Every step of every instance, of the exchange and of a crash is a step of
\* SubmitOnce or leaves its state alone (ledger, submit, restart together).
ImplementsSubmitOnce == Once!OnceSpec

-----------------------------------------------------------------------------
(* What the documents say and the code does not do.                        *)

\* DEPLOYMENT_ARCHITECTURE.md: "A stale leader cannot submit orders."
StaleLeaderCannotSubmit == \A i \in Instances : staleSends[i] = 0

\* README.md: "Emergency Stop blocks new risk".
HaltBlocksNewRisk == \A i \in Instances : lateSends[i] = 0

\* ORDER_STATE_MACHINE.md: with an UNKNOWN order "the same symbol is blocked
\* from new risk-increasing intents until ... reconciliation establish truth".
UnknownBlocksSymbol ==
  [][\A n \in Intents \ ReduceOnly, m \in Intents :
       sends'[n] > sends[n] /\ m # n /\ SymbolOf[m] = SymbolOf[n]
         => row[m].status # "UNKNOWN"]_vars

\* app.execution.state: the transitions an order may make.
Allowed(from, to) ==
  \/ from = to
  \/ from = "NONE"
  \/ from = "SUBMITTED" /\ to \in {"ACKNOWLEDGED", "FILLED", "REJECTED", "UNKNOWN"}
  \/ from = "ACKNOWLEDGED" /\ to \in {"FILLED", "CANCELLED", "REJECTED", "UNKNOWN"}
  \/ from = "UNKNOWN" /\ to \in {"ACKNOWLEDGED", "FILLED", "CANCELLED", "REJECTED"}

\* Every change of a durable status is one state.transition would accept.
DurableStatusIsLegal ==
  [][\A n \in Intents : Allowed(row[n].status, row'[n].status)]_vars

\* PersistentIntentLedger: on a retry "terminal/known durable state is returned,
\* while SUBMITTED/UNKNOWN is reconciled"; neither is refused as a collision.
RetryFindsItsRow ==
  \A i \in Instances : At(i, "lookup") /\ row[Intent(i)] # NoRow => FindsRow(i)
=============================================================================
