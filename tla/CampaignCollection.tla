------------------------- MODULE CampaignCollection -------------------------
(***************************************************************************)
(* The acceptance campaign: an append-only, hash-chained collection that   *)
(* protected runtime commands extend with attested events and audit        *)
(* commands with unattested ones (release/campaign_collector.py), the      *)
(* adapter whose broker and projector produce the events                   *)
(* (release/campaign_runtime_adapter.py), the runtime state that carries   *)
(* them from one command to the next (release/campaign_runtime_state.py),  *)
(* the commands themselves (scripts/external/phase266_campaign_runtime.py, *)
(* phase267_*.py) and the seal that turns the collection into four         *)
(* receipts (scripts/external/phase265_campaign_collector.py).             *)
(*                                                                         *)
(* A row stands for its hash: `prev' is the position of the row whose hash *)
(* it carries, and because rows are never rewritten, a length names both   *)
(* the content of the collection and the hash of its last record.          *)
(***************************************************************************)
EXTENDS Naturals, Sequences, FiniteSets

CONSTANTS Runtimes,      \* processes that run protected commands
          Commands,      \* the protected commands they run
          MaxCommands,   \* bound on the commands started
          AuditKinds,    \* kinds an imported audit file claims
          MaxAudits,     \* bound on the audit events appended
          MaxChallenges, \* bound on the release challenges issued
          MaxSeals,      \* bound on the seals started
          MinPairs,      \* pairs a shadow reconciliation needs
          Need           \* what each metric has to reach

VARIABLES rows,      \* the collection file, <<>> while it does not exist
          state,     \* the runtime-state file
          proc,      \* per runtime: its step, adapter and events to emit
          audit,     \* length the audit writer has read, 0 when idle
          sealer,    \* the seal under way
          source,    \* length of the sealed source, 0 when there is none
          receipts,  \* the four receipts
          challenge, \* the current release challenge
          commands, audits, seals

campaignVars == <<rows, state, proc, audit, sealer, source, receipts,
                  challenge, commands, audits, seals>>

NoFile == [none |-> TRUE]

PrivateKinds == {"private_auth_lifecycle", "private_reconnect",
                 "private_rest_reconciliation",
                 "private_duplicate_idempotency", "private_out_of_order",
                 "private_redaction", "private_event"}
PaperKinds == {"paper_sample", "paper_cost_stress_pass",
               "paper_latency_stress_pass", "paper_oos_pass"}
ShadowKinds == {"live_shadow_observation", "live_shadow_kill_switch_pass",
                "live_shadow_reconciliation_pass"}
ProfitKinds == {"profitability_sample", "profitability_oos_pass",
                "profitability_leakage_pass",
                "profitability_cost_stress_pass",
                "profitability_survivorship_pass"}
EventKinds == PrivateKinds \cup PaperKinds \cup ShadowKinds \cup ProfitKinds
Metrics == EventKinds \cup {"LONG", "EXIT"}
Receipts == <<"private-stream", "paper", "live-shadow", "profitability">>
ReceiptKinds == {Receipts[i] : i \in DOMAIN Receipts}

ASSUME CampaignAssumption == /\ Need \in [Metrics -> Nat]
                             /\ MinPairs \in Nat \ {0}
                             /\ AuditKinds \subseteq EventKinds

-----------------------------------------------------------------------------
(* The collection *)

Event(kind) == [kind |-> kind, obs |-> <<>>, decision |-> "HOLD", fills |-> 0]

Row(event, prev, attested) ==
    [event |-> event, prev |-> prev, attested |-> attested, whole |-> TRUE]

\* Sequence numbers, the hash chain and complete records.
ChainedUnlinked(rs) == rs # <<>> /\ \A i \in DOMAIN rs : rs[i].whole
Chained(rs) == /\ rs # <<>>
               /\ \A i \in DOMAIN rs : rs[i].prev = i - 1 /\ rs[i].whole

\* A reader without the telemetry key refuses attested events.
Loads(rs, withKey) ==
    Chained(rs) /\ (withKey \/ \A i \in DOMAIN rs : ~rs[i].attested)

Attested(rs) == {i \in DOMAIN rs : rs[i].attested}

OfKind(rs, kind) == {i \in Attested(rs) : rs[i].event.kind = kind}

\* derive_collection_metrics: flags and counts over the attested events;
\* observations and samples are counted by their id.
CountUncheckedProvenance(rs, metric) ==
    CASE metric \in {"LONG", "EXIT"} ->
            Cardinality({i \in DOMAIN rs : /\ rs[i].event.kind = "paper_sample"
                                           /\ rs[i].event.decision = metric})
      [] OTHER -> Cardinality({i \in DOMAIN rs : rs[i].event.kind = metric})
Count(rs, metric) ==
    CASE metric \in {"LONG", "EXIT"} ->
            Cardinality({i \in OfKind(rs, "paper_sample") :
                            rs[i].event.decision = metric})
      [] metric = "live_shadow_observation" ->
            Cardinality({rs[i].event.obs : i \in OfKind(rs, metric)})
      [] OTHER -> Cardinality(OfKind(rs, metric))

MetricsOf(kind) ==
    CASE kind = "private-stream" -> PrivateKinds
      [] kind = "paper" -> PaperKinds \cup {"LONG", "EXIT"}
      [] kind = "live-shadow" -> ShadowKinds
      [] kind = "profitability" -> ProfitKinds

Blockers(rs) == {kind \in ReceiptKinds :
                    \E m \in MetricsOf(kind) : Count(rs, m) < Need[m]}

-----------------------------------------------------------------------------
(* The adapter: the paper broker of one symbol and the private projector *)

FreshAdapter == [open |-> FALSE, fills |-> 0, terminated |-> FALSE]

\* record_paper_quote: a buy opens a position when none is open; a quote on
\* an open one fills nothing, some of its exits, or the last of them.
\* derive_long_intent only buys; an open position is never added to.
MayBuy(a) == ~a.open

QuoteOutcomes(a) ==
    LET to(decision, open, n) ==
            [decision |-> decision,
             adapter |-> [a EXCEPT !.open = open, !.fills = @ + n]]
    IN {to("HOLD", a.open, 0)}
         \cup (IF MayBuy(a) THEN {to("LONG", TRUE, 1)}
                ELSE {to("EXIT", TRUE, 1), to("EXIT", FALSE, 1)})

PaperEvent(o, obs) == [kind |-> "paper_sample", obs |-> obs,
                       decision |-> o.decision, fills |-> o.adapter.fills]
ShadowEvent(o, obs) == [kind |-> "live_shadow_observation", obs |-> obs,
                        decision |-> o.decision, fills |-> 0]

\* record_private_message: one event, the classification of a duplicate or of
\* a stale one, and the redaction note.
PrivateMessage(class) ==
    <<Event("private_event")>>
      \o (IF class = "duplicate" THEN <<Event("private_duplicate_idempotency")>>
          ELSE IF class = "stale" THEN <<Event("private_out_of_order")>>
          ELSE <<>>)
      \o <<Event("private_redaction")>>

AuthRequest == <<Event("private_auth_lifecycle")>>

\* record_private_reconnect: needs the observed termination.
Reconnect == AuthRequest \o <<Event("private_reconnect")>>

RestReconciliation == <<Event("private_rest_reconciliation")>>

\* _await_response records what arrives before the answer; here the
\* termination the drill waits for.
AwaitTermination == PrivateMessage("terminated")

\* private_reconnect_drill: signed subscription, termination, resubscription.
ReconnectDrill == AuthRequest \o AwaitTermination \o Reconnect

\* qualify_private_stream: a real order's reports, its replays and the
\* comparison with the account.
PrivateQualification == AuthRequest
                          \o PrivateMessage("new") \o PrivateMessage("duplicate")
                          \o PrivateMessage("stale") \o RestReconciliation

\* The observations both the paper and the shadow decision are known of.
Pairs(rs) == {x \in OfKind(rs, "paper_sample") \X
                    OfKind(rs, "live_shadow_observation") :
                 rs[x[1]].event.obs = rs[x[2]].event.obs}

\* record_live_shadow_reconciliation: enough pairs; a mismatch raises.
ReconciliationPasses(rs) == Cardinality(Pairs(rs)) >= MinPairs
ReconciliationFails(rs) ==
    /\ ReconciliationPasses(rs)
    /\ \E x \in Pairs(rs) : rs[x[1]].event.decision # rs[x[2]].event.decision

\* run_isolated_live_shadow_kill_switch_drill halts an adapter of its own.
KillSwitchDrill == <<Event("live_shadow_kill_switch_pass")>>

\* qualify_shadow: the drill and the reconciliation, each once.
ShadowQualification(rs) ==
    (IF OfKind(rs, "live_shadow_kill_switch_pass") = {}
       THEN KillSwitchDrill ELSE <<>>)
      \o (IF OfKind(rs, "live_shadow_reconciliation_pass") = {}
             /\ ReconciliationPasses(rs)
            THEN <<Event("live_shadow_reconciliation_pass")>> ELSE <<>>)

\* record_profitability_backtest over one out-of-sample trade.
Backtest == <<Event("profitability_sample"), Event("profitability_oos_pass")>>

\* The passes that no command of the repository records: whoever holds the
\* key appends them with append_attested_runtime_event.
StressPasses == <<Event("paper_cost_stress_pass"),
                  Event("paper_latency_stress_pass"), Event("paper_oos_pass"),
                  Event("profitability_leakage_pass"),
                  Event("profitability_cost_stress_pass"),
                  Event("profitability_survivorship_pass")>>

-----------------------------------------------------------------------------
(* A protected command: context, events one by one, save *)

IdleProc == [pc |-> "idle", adapter |-> FreshAdapter, todo |-> <<>>,
             seen |-> 0]
IdleSealer == [pc |-> "idle", from |-> 0, challenge |-> 0, next |-> 1]

CampaignInit ==
    /\ rows = <<>> /\ state = NoFile
    /\ proc = [p \in Runtimes |-> IdleProc]
    /\ audit = 0
    /\ sealer = IdleSealer
    /\ source = 0
    /\ receipts = [kind \in ReceiptKinds |-> NoFile]
    /\ challenge = 1 /\ commands = 0 /\ audits = 0 /\ seals = 0

\* initialize_collection creates the file exclusively with its header.
InitializeCollection ==
    /\ rows = <<>>
    /\ rows' = <<Row(Event("header"), 0, FALSE)>>
    /\ UNCHANGED <<state, proc, audit, sealer, source, receipts, challenge,
                   commands, audits, seals>>

\* _verify_payload and the checkpoint comparison of restore_runtime_state.
RestorableAnyCheckpoint == state.last <= Len(rows)
Restorable == state.last = Len(rows)

\* restore_runtime_state gives the adapter what the file holds; a collection
\* with attested paper samples and no state file is refused (_context).
RestoredAdapter == IF state = NoFile THEN FreshAdapter ELSE state.adapter
MayStart == IF state = NoFile THEN OfKind(rows, "paper_sample") = {}
                              ELSE Restorable

Context(p) ==
    /\ proc[p].pc = "idle"
    /\ commands < MaxCommands
    /\ Loads(rows, TRUE) /\ MayStart
    /\ proc' = [proc EXCEPT ![p] =
                  [IdleProc EXCEPT !.pc = "ready",
                                   !.adapter = RestoredAdapter]]
    /\ UNCHANGED <<rows, state, audit, sealer, source, receipts, challenge,
                   commands, audits, seals>>

Begin(p, todo, adapter) ==
    /\ proc' = [proc EXCEPT ![p] = [@ EXCEPT !.pc = "emit", !.todo = todo,
                                             !.adapter = adapter]]
    /\ commands' = commands + 1
    /\ UNCHANGED <<rows, state, audit, sealer, source, receipts, challenge,
                   audits, seals>>

\* strategy_cycle changes the broker first and records it after.
StrategyCycle(p) ==
    \E o \in QuoteOutcomes(proc[p].adapter) :
        LET obs == <<p, commands>>
        IN Begin(p, <<PaperEvent(o, obs), ShadowEvent(o, obs)>>, o.adapter)

\* The command p runs; in a strategy loop the next cycle starts from the
\* adapter in memory, so a process may go on from "saved" as well.
RunCommand(p, command) ==
    /\ commands < MaxCommands
    /\ proc[p].pc = "ready" \/ (proc[p].pc = "saved" /\ command = "cycle")
    /\ \/ command = "cycle" /\ StrategyCycle(p)
       \/ /\ command = "drill"
          /\ Begin(p, ReconnectDrill, [proc[p].adapter EXCEPT !.terminated = TRUE])
       \/ command = "private" /\ Begin(p, PrivateQualification, proc[p].adapter)
       \/ /\ command = "shadow" /\ Loads(rows, TRUE) /\ ~ReconciliationFails(rows)
          /\ Begin(p, ShadowQualification(rows), proc[p].adapter)
       \/ command = "backtest" /\ Begin(p, Backtest, proc[p].adapter)
       \/ command = "stress" /\ Begin(p, StressPasses, proc[p].adapter)

\* append_attested_runtime_event reads and verifies the whole collection ...
ReadForAppend(p) ==
    /\ proc[p].pc = "emit" /\ proc[p].todo # <<>>
    /\ Loads(rows, TRUE)
    /\ proc' = [proc EXCEPT ![p].pc = "persist", ![p].seen = Len(rows)]
    /\ UNCHANGED <<rows, state, audit, sealer, source, receipts, challenge,
                   commands, audits, seals>>

\* ... and appends a record chained to the last one it has read.
PersistEvent(p) ==
    /\ proc[p].pc = "persist"
    /\ rows' = Append(rows, Row(Head(proc[p].todo), proc[p].seen, TRUE))
    /\ proc' = [proc EXCEPT ![p].pc = "emit", ![p].todo = Tail(@)]
    /\ UNCHANGED <<state, audit, sealer, source, receipts, challenge,
                   commands, audits, seals>>

\* _save: the last record is read first, the state file replaced after.
SaveRead(p) ==
    /\ proc[p].pc = "emit" /\ proc[p].todo = <<>>
    /\ Loads(rows, TRUE)
    /\ proc' = [proc EXCEPT ![p].pc = "save", ![p].seen = Len(rows)]
    /\ UNCHANGED <<rows, state, audit, sealer, source, receipts, challenge,
                   commands, audits, seals>>

\* snapshot_runtime_state: broker, projector and the checkpoint, attested.
Snapshot(p) == [last |-> proc[p].seen, adapter |-> proc[p].adapter]

SaveWrite(p) ==
    /\ proc[p].pc = "save"
    /\ state' = Snapshot(p)
    /\ proc' = [proc EXCEPT ![p].pc = "saved"]
    /\ UNCHANGED <<rows, audit, sealer, source, receipts, challenge,
                   commands, audits, seals>>

\* The command returns, raises (a timeout, a refused snapshot, a clock that
\* stepped, a chain that does not verify) or is killed: memory is lost.
End(p) ==
    /\ proc[p].pc # "idle"
    /\ proc' = [proc EXCEPT ![p] = IdleProc]
    /\ UNCHANGED <<rows, state, audit, sealer, source, receipts, challenge,
                   commands, audits, seals>>

\* Killed inside the append: the record is cut off.
CutOffAppend(p) ==
    /\ proc[p].pc = "persist"
    /\ rows' = Append(rows, [Row(Head(proc[p].todo), proc[p].seen, TRUE)
                                EXCEPT !.whole = FALSE])
    /\ proc' = [proc EXCEPT ![p] = IdleProc]
    /\ UNCHANGED <<state, audit, sealer, source, receipts, challenge,
                   commands, audits, seals>>

-----------------------------------------------------------------------------
(* Audit commands: any kind may be claimed, nothing is attested *)

\* The audit commands append without the key.
AuditRead ==
    /\ audit = 0 /\ audits < MaxAudits
    /\ Loads(rows, FALSE)
    /\ audit' = Len(rows) /\ audits' = audits + 1
    /\ UNCHANGED <<rows, state, proc, sealer, source, receipts, challenge,
                   commands, seals>>

AuditPersist(kind) ==
    /\ audit > 0
    /\ rows' = Append(rows, Row(Event(kind), audit, FALSE))
    /\ audit' = 0
    /\ UNCHANGED <<state, proc, sealer, source, receipts, challenge,
                   commands, audits, seals>>

\* A public quote, the halted collector's refusal, a line of an imported file.
CollectMarketAudit == AuditPersist("live_shadow_observation")
KillSwitchAudit == AuditPersist("live_shadow_kill_switch_pass")
IngestAudit == \E kind \in AuditKinds : AuditPersist(kind)

-----------------------------------------------------------------------------
(* Sealing *)

\* _seal: blockers over what is read now, then the challenge.
SealStart ==
    /\ sealer.pc = "idle" /\ seals < MaxSeals
    /\ seals' = seals + 1
    /\ Loads(rows, TRUE) /\ Blockers(rows) = {}
    /\ sealer' = [pc |-> "source", from |-> Len(rows),
                  challenge |-> challenge, next |-> 1]
    /\ UNCHANGED <<rows, state, proc, audit, source, receipts, challenge,
                   commands, audits>>

\* write_sealed_source reads the collection again.
WriteSealedSource ==
    /\ sealer.pc = "source"
    /\ Loads(rows, TRUE)
    /\ source' = Len(rows)
    /\ sealer' = [sealer EXCEPT !.pc = "receipts"]
    /\ UNCHANGED <<rows, state, proc, audit, receipts, challenge, commands,
                   audits, seals>>

\* Each receipt is replaced on its own, in the order of the dictionary.
WriteReceipt ==
    /\ sealer.pc = "receipts"
    /\ receipts' = [receipts EXCEPT ![Receipts[sealer.next]] =
                      [source |-> source, from |-> sealer.from,
                       challenge |-> sealer.challenge]]
    /\ sealer' = IF sealer.next = Len(Receipts) THEN IdleSealer
                   ELSE [sealer EXCEPT !.next = @ + 1]
    /\ UNCHANGED <<rows, state, proc, audit, source, challenge, commands,
                   audits, seals>>

SealCrash ==
    /\ sealer.pc # "idle"
    /\ sealer' = IdleSealer
    /\ UNCHANGED <<rows, state, proc, audit, source, receipts, challenge,
                   commands, audits, seals>>

NewChallenge ==
    /\ challenge < MaxChallenges
    /\ challenge' = challenge + 1
    /\ UNCHANGED <<rows, state, proc, audit, sealer, source, receipts,
                   commands, audits, seals>>

CampaignNext ==
    \/ InitializeCollection
    \/ \E p \in Runtimes :
          \/ Context(p)
          \/ \E c \in Commands : RunCommand(p, c)
          \/ ReadForAppend(p) \/ PersistEvent(p)
          \/ SaveRead(p) \/ SaveWrite(p)
          \/ End(p) \/ CutOffAppend(p)
    \/ AuditRead \/ CollectMarketAudit \/ KillSwitchAudit \/ IngestAudit
    \/ SealStart \/ WriteSealedSource \/ WriteReceipt \/ SealCrash
    \/ NewChallenge

CampaignSpec == CampaignInit /\ [][CampaignNext]_campaignVars

-----------------------------------------------------------------------------
(* Verification of a receipt (release/campaign_acceptance.py) *)

Prefix(n) == SubSeq(rows, 1, n)

\* _common_problems: classification, challenge, environment and the hash of
\* the source artifact, here the ones that can differ between two seals.
CommonProblems(r) == {x \in {"challenge"} : r.challenge # challenge}
                        \cup {x \in {"source"} : r.source # source}

\* verify_campaign_evidence: the thresholds are applied to the metrics the
\* receipt carries.
VerifyCampaignEvidence(kind) ==
    LET r == receipts[kind]
    IN /\ r # NoFile
       /\ CommonProblems(r) = {}
       /\ \A m \in MetricsOf(kind) : Count(Prefix(r.from), m) >= Need[m]

-----------------------------------------------------------------------------
(* Properties *)

\* Broker continuity (restore_runtime_state, _context): the fills recorded by
\* successive attested paper samples go on from one another, and no sample
\* opens a position that an earlier one left open, whatever crashes, cut-off
\* records and refused restarts lie between them.
BrokerContinuity ==
    \A i, j \in OfKind(rows, "paper_sample") :
        (i < j /\ \A k \in (i + 1)..(j - 1) : k \notin OfKind(rows, "paper_sample"))
          => rows[j].event.fills =
               rows[i].event.fills + (IF rows[j].event.decision = "HOLD" THEN 0 ELSE 1)

\* Four receipts that all verify (verify_campaign_evidence) name one sealed
\* source and the current challenge, and that source is an intact chain whose
\* attested events alone meet every threshold, although the collection grows
\* between the reads of _seal and a crash leaves receipts of two seals.
VerifiedReceiptsAgree ==
    (\A kind \in ReceiptKinds : VerifyCampaignEvidence(kind)) =>
        /\ Chained(Prefix(source))
        /\ \A kind \in ReceiptKinds : \A m \in MetricsOf(kind) :
              Cardinality({i \in DOMAIN Prefix(source) :
                              /\ rows[i].attested
                              /\ \/ rows[i].event.kind = m
                                 \/ rows[i].event.decision = m}) >= Need[m]

\* A collection whose chain is broken (a cut-off record, two records chained
\* to the same one) is given up: whoever reads it refuses it, so it is never
\* sealed and only appends that had read it before the break still land, one
\* for each other writer.
BrokenChainIsFrozen ==
    \A i \in DOMAIN rows :
        (rows[i].prev # i - 1 \/ ~rows[i].whole) =>
            /\ Len(rows) - i <= Cardinality(Runtimes)
            /\ source < i
            /\ state = NoFile \/ state.last < i

\* campaign_collector.py and campaign_runtime.py: the collection goes on from itself or not at
\* all, and receipts that verify are of it.
CollectionIsTrustworthy == BrokerContinuity /\ BrokenChainIsFrozen /\ VerifiedReceiptsAgree
=============================================================================
