---------------------- MODULE DurableExecution_proofs ----------------------
(* Fencing for any number of instances, any clocks and any token bound, and *)
(* at-most-once submission for any number of instances, intents, crashes    *)
(* and lease takeovers.                                                     *)
EXTENDS DurableExecution, TLAPS

-----------------------------------------------------------------------------
(* The lease.                                                              *)

\* The state before the first acquire satisfies the lease invariant.
LEMMA LeaseInitInv == LeaseInit => LeaseInv
  BY LeaseAssumption
  DEF LeaseInit, LeaseInv, LeaseTypeOK, NoLease, Grant, Tokens,
      OneHolderPerToken, GuardBehindRegistry

\* acquire keeps the lease invariant: a token is reused only by its live holder
\* and every other grant gets a token above all earlier ones.
LEMMA AcquireInv ==
  ASSUME LeaseInv, NEW i \in Instances, Acquire(i)
  PROVE  LeaseInv'
  <1> DEFINE t == NextToken(i)
             g == [instance |-> i, token |-> t]
  <1>1. t \in Tokens /\ t >= lease.token
    BY LeaseAssumption
    DEF Acquire, NextToken, LeaseInv, LeaseTypeOK, Tokens
  <1>2. PICK skewed \in SUBSET (Instances \ {i}) :
          lease' = [instance |-> i, token |-> t, expired |-> skewed]
    BY DEF Acquire, WriteLease
  <1>3. /\ held' = [held EXCEPT ![i] = @ \cup {t}]
        /\ grants' = grants \cup {g}
        /\ highest' = highest
    BY DEF Acquire
  <1>4. \A h \in grants : h.token = t => h.instance = i
    <2> SUFFICES ASSUME NEW h \in grants, h.token = t PROVE h.instance = i
      OBVIOUS
    <2>1. h.token <= lease.token /\ h.token \in Nat /\ lease.token \in Nat
      BY LeaseAssumption DEF LeaseInv, LeaseTypeOK, Grant, Tokens
    <2>2. t = lease.token /\ lease.token > 0
      BY <1>1, <2>1 DEF Tokens
    <2>3. lease.instance = i
      BY <2>1, <2>2 DEF NextToken
    <2>4. [instance |-> lease.instance, token |-> lease.token] \in grants
      BY <2>2 DEF LeaseInv
    <2>5. QED
      BY <2>2, <2>3, <2>4 DEF LeaseInv, OneHolderPerToken
  <1>5. LeaseTypeOK'
    BY <1>1, <1>2, <1>3, LeaseAssumption DEF LeaseInv, LeaseTypeOK, Grant, Tokens
  <1>6. (lease.token = 0 <=> lease.instance = NoInstance)'
    BY <1>1, <1>2, LeaseAssumption DEF Tokens
  <1>7. (lease.token > 0 =>
           [instance |-> lease.instance, token |-> lease.token] \in grants)'
    BY <1>2, <1>3
  <1>8. (\A h \in grants : h.token <= lease.token)'
    BY <1>1, <1>2, <1>3, LeaseAssumption
    DEF LeaseInv, LeaseTypeOK, Grant, Tokens
  <1>9. (\A j \in Instances : \A token \in held[j] :
           [instance |-> j, token |-> token] \in grants)'
    BY <1>3 DEF LeaseInv, LeaseTypeOK
  <1>10. OneHolderPerToken'
    BY <1>3, <1>4 DEF LeaseInv, OneHolderPerToken
  <1>11. GuardBehindRegistry'
    BY <1>1, <1>2, <1>3, LeaseAssumption
    DEF LeaseInv, LeaseTypeOK, GuardBehindRegistry, Tokens
  <1>12. QED
    BY <1>5, <1>6, <1>7, <1>8, <1>9, <1>10, <1>11 DEF LeaseInv

\* The guard records only tokens the process was granted, so it stays behind
\* the registry.
LEMMA FenceInv ==
  ASSUME LeaseInv, NEW i \in Instances, NEW token \in held[i],
         RequireCurrent(i, token) \/ RequireFails(i, token)
  PROVE  LeaseInv'
  <1>1. token \in Tokens /\ token <= lease.token
    BY DEF LeaseInv, LeaseTypeOK
  <1>2. /\ UNCHANGED <<lease, held, grants>>
        /\ highest' = highest \/ highest' = [highest EXCEPT ![i] = token]
    BY DEF RequireCurrent, RequireFails, GuardRecords
  <1>3. highest' \in [Instances -> 0..MaxToken] /\ GuardBehindRegistry'
    BY <1>1, <1>2, LeaseAssumption
    DEF LeaseInv, LeaseTypeOK, GuardBehindRegistry, Tokens
  <1>4. QED
    BY <1>2, <1>3 DEF LeaseInv, LeaseTypeOK, OneHolderPerToken

\* Every step of the lease keeps the invariant.
LEMMA LeaseNextInv == LeaseInv /\ [LeaseNext]_leaseVars => LeaseInv'
  <1> SUFFICES ASSUME LeaseInv, [LeaseNext]_leaseVars PROVE LeaseInv'
    OBVIOUS
  <1>1. ASSUME NEW i \in Instances, Heartbeat(i) PROVE LeaseInv'
    <2>1. PICK skewed \in SUBSET (Instances \ {i}) :
            lease' = [instance |-> i, token |-> lease.token, expired |-> skewed]
      BY <1>1 DEF Heartbeat, WriteLease
    <2>2. lease.instance = i /\ UNCHANGED <<held, highest, grants>>
      BY <1>1 DEF Heartbeat, Validate
    <2>3. QED
      BY <2>1, <2>2, LeaseAssumption
      DEF LeaseInv, LeaseTypeOK, OneHolderPerToken, GuardBehindRegistry
  <1>2. ASSUME NEW i \in Instances, Elapse(i) PROVE LeaseInv'
    BY <1>2 DEF Elapse, LeaseInv, LeaseTypeOK, OneHolderPerToken,
                GuardBehindRegistry
  <1>3. ASSUME NEW i \in Instances, LoseProcess(i) PROVE LeaseInv'
    BY <1>3, LeaseAssumption
    DEF LoseProcess, LeaseInv, LeaseTypeOK, OneHolderPerToken,
        GuardBehindRegistry
  <1>4. CASE UNCHANGED leaseVars
    BY <1>4 DEF leaseVars, LeaseInv, LeaseTypeOK, OneHolderPerToken,
                GuardBehindRegistry
  <1>5. QED
    BY <1>1, <1>2, <1>3, <1>4, AcquireInv, FenceInv DEF LeaseNext

\* No two instances are ever granted the same fencing token, and no process's
\* guard runs ahead of the registry.
THEOREM FencingTokensAreUnique ==
  LeaseSpec => [](OneHolderPerToken /\ GuardBehindRegistry)
  <1>1. LeaseSpec => []LeaseInv
    BY LeaseInitInv, LeaseNextInv, PTL DEF LeaseSpec
  <1>2. LeaseInv => OneHolderPerToken /\ GuardBehindRegistry
    BY DEF LeaseInv
  <1>3. QED
    BY <1>1, <1>2, PTL

\* The account changes hands only under a larger token.
THEOREM TakeoverRaises == LeaseSpec => TakeoverRaisesToken
  <1> DEFINE Rises == /\ lease'.token >= lease.token
                      /\ lease'.instance # lease.instance => lease'.token > lease.token
  <1>1. LeaseSpec => []LeaseInv
    BY LeaseInitInv, LeaseNextInv, PTL DEF LeaseSpec
  <1>2. LeaseInv /\ [LeaseNext]_leaseVars => [Rises]_leaseVars
    <2> SUFFICES ASSUME LeaseInv, LeaseNext PROVE Rises
      BY DEF leaseVars
    <2>1. lease.token \in Nat
      BY LeaseAssumption DEF LeaseInv, LeaseTypeOK
    <2>2. ASSUME NEW i \in Instances, Acquire(i) PROVE Rises
      BY <2>1, <2>2 DEF Acquire, WriteLease, NextToken
    <2>3. ASSUME NEW i \in Instances, Heartbeat(i) PROVE Rises
      BY <2>1, <2>3 DEF Heartbeat, WriteLease, Validate
    <2>4. ASSUME NEW i \in Instances, Elapse(i) PROVE Rises
      BY <2>1, <2>4 DEF Elapse, LeaseInv, LeaseTypeOK
    <2>5. ASSUME NEW i \in Instances, LoseProcess(i) PROVE Rises
      BY <2>1, <2>5 DEF LoseProcess
    <2>6. ASSUME NEW i \in Instances, NEW token \in held[i],
                 RequireCurrent(i, token) \/ RequireFails(i, token)
          PROVE Rises
      BY <2>1, <2>6 DEF RequireCurrent, RequireFails
    <2>7. QED
      BY <2>2, <2>3, <2>4, <2>5, <2>6 DEF LeaseNext
  <1>3. QED
    BY <1>1, <1>2, PTL DEF LeaseSpec, TakeoverRaisesToken

-----------------------------------------------------------------------------
(* The execution path.                                                     *)

\* Every step is a step of the lease or leaves it alone.
LEMMA LeaseStep ==
  ASSUME TypeOK, TokensHeld, [Next]_vars
  PROVE  [LeaseNext]_leaseVars
  <1>1. ASSUME NEW i \in Instances, Fence(i) PROVE [LeaseNext]_leaseVars
    BY <1>1, ExecutionAssumption
    DEF Fence, PassFence, At, TokensHeld, LeaseNext
  <1>2. ASSUME NEW i \in Instances, FenceFails(i) PROVE [LeaseNext]_leaseVars
    BY <1>2 DEF FenceFails, At, TokensHeld, LeaseNext
  <1>3. ASSUME NEW i \in Instances, SubmitStep(i) PROVE [LeaseNext]_leaseVars
    BY <1>1, <1>2, <1>3
    DEF SubmitStep, LookupMiss, LookupCollides, LookupKnown, LookupUnresolved,
        Query, MarkFound, MetadataChanged, Reserve, ReserveLost,
        ReserveAmbiguous, Send, Answered, MarkSent, Refused, ReplyUnreadable,
        Ambiguous, MarkUnknown, MarkAmbiguous, CallFails
  <1>4. ASSUME NEW i \in Instances,
               TakeLease(i) \/ KeepLease(i) \/ LeaseRunsOut(i) \/ Crash(i)
        PROVE  [LeaseNext]_leaseVars
    BY <1>4 DEF TakeLease, KeepLease, LeaseRunsOut, Crash, LeaseNext
  <1>5. ASSUME NEW i \in Instances,
               \/ Recover(i) \/ Halt(i)
               \/ \E s \in Clearable : ClearIsolation(i, s)
               \/ \E n \in Intents, token \in 0..MaxToken :
                    Begin(i, n, token) \/ BalanceChanged(i, n, token)
        PROVE  UNCHANGED leaseVars
    BY <1>5 DEF Recover, Halt, ClearIsolation, Begin, BalanceChanged
  <1>6. ASSUME NEW n \in Intents, Accept(n) \/ LoseRequest(n) \/ Execute(n)
        PROVE  UNCHANGED leaseVars
    BY <1>6 DEF Accept, LoseRequest, Execute
  <1>7. CASE UNCHANGED vars
    BY <1>7 DEF vars
  <1>8. QED
    BY <1>3, <1>4, <1>5, <1>6, <1>7 DEF Next

\* The initial state satisfies the invariant.
LEMMA InitInv == Init => ExecutionInv
  <1> SUFFICES ASSUME Init PROVE ExecutionInv
    OBVIOUS
  <1>1. LeaseInv
    BY LeaseInitInv DEF Init
  <1>2. TypeOK
    BY <1>1, ExecutionAssumption
    DEF Init, TypeOK, Row, NoRow, Remote, Open, Terminal, Idle, Status, LeaseInv
  <1>3. TokensHeld /\ AtMostOnceSubmission /\ SingleSubmitter
    BY DEF Init, TokensHeld, AtMostOnceSubmission, SingleSubmitter, Submitting,
           At, Idle
  <1>4. RowsPrecede /\ OutcomesJustified
    BY DEF Init, RowsPrecede, OutcomesJustified, Idle, NoRow
  <1>5. QED
    BY <1>1, <1>2, <1>3, <1>4 DEF ExecutionInv


\* A process's memory and the histories have the types TypeOK gives them.
MemoryOK ==
  /\ records \in [Instances -> [Intents -> Status \cup {"NONE"}]]
  /\ isolated \in [Instances -> SUBSET Symbols]
  /\ riskOpen \in [Instances -> BOOLEAN]
  /\ crashes \in 0..MaxCrashes
  /\ staleSends \in [Instances -> Nat]
  /\ lateSends \in [Instances -> Nat]

RecordsJustified ==
  \A i \in Instances, n \in Intents : records[i][n] # "NONE" => Justified(n, records[i][n])

\* What a step of instance i must respect when it leaves the exchange and the
\* count of sends alone: j is what becomes of its submit.
LEMMA JobStep ==
  ASSUME ExecutionInv, LeaseInv', MemoryOK', RecordsJustified',
         NEW i \in Instances, NEW j \in Job \cup {Idle},
         job' = [job EXCEPT ![i] = j],
         UNCHANGED <<order, reply, sends>>, inflight' \subseteq inflight,
         row' \in [Intents -> Row \cup {NoRow}],
         \A n \in Intents : row[n] # NoRow => row'[n] # NoRow,
         \A n \in Intents : row'[n] # NoRow => Justified(n, row'[n].status),
         \A k \in Instances \ {i} : held[k] \subseteq held'[k],
         Live /\ j.pc # "idle" => j.token \in held'[i],
         j.pc \in {"fence", "send"} =>
           /\ sends[j.intent] = 0
           /\ \A k \in Instances \ {i} : ~(Submitting(k) /\ Intent(k) = j.intent),
         j.pc \notin {"idle", "lookup", "reserve"} => row'[j.intent] # NoRow,
         j.pc \in {"markFound", "markSent"} => Justified(j.intent, j.seen.status)
  PROVE  ExecutionInv'
  <1>1. TypeOK'
    BY DEF ExecutionInv, TypeOK, LeaseInv, MemoryOK
  <1>2. /\ job'[i] = j
        /\ \A k \in Instances \ {i} : job'[k] = job[k]
    BY DEF ExecutionInv, TypeOK
  <1>3. TokensHeld'
    BY <1>2 DEF ExecutionInv, TokensHeld
  <1>4. AtMostOnceSubmission'
    BY DEF ExecutionInv, AtMostOnceSubmission
  <1>5. SingleSubmitter'
    <2>1. ASSUME NEW k \in Instances, Submitting(k)'
          PROVE  sends'[Intent(k)'] = 0
      BY <1>2, <2>1 DEF ExecutionInv, SingleSubmitter, Submitting, At, Intent
    <2>2. ASSUME NEW k \in Instances, NEW l \in Instances,
                 Submitting(k)', Submitting(l)', Intent(k)' = Intent(l)'
          PROVE  k = l
      BY <1>2, <2>2 DEF ExecutionInv, SingleSubmitter, Submitting, At, Intent
    <2>3. QED
      BY <2>1, <2>2 DEF SingleSubmitter, Submitting, At, Intent
  <1>6. RowsPrecede'
    <2>1. \A k \in Instances : job[k].pc # "idle" => Intent(k) \in Intents
      BY DEF ExecutionInv, TypeOK, Job, Idle, Intent
    <2>2. QED
      BY <1>2, <2>1 DEF ExecutionInv, RowsPrecede, Intent
  <1>7. OutcomesJustified'
    BY <1>2 DEF ExecutionInv, OutcomesJustified, RecordsJustified, Justified, Intent
  <1>8. QED
    BY <1>1, <1>3, <1>4, <1>5, <1>6, <1>7 DEF ExecutionInv

\* What a row may become.
RowsOK ==
  /\ row' \in [Intents -> Row \cup {NoRow}]
  /\ \A n \in Intents : row[n] # NoRow => row'[n] # NoRow
  /\ \A n \in Intents : row'[n] # NoRow => Justified(n, row'[n].status)

\* An instance that is not idle runs a job.
LEMMA Running ==
  ASSUME TypeOK, NEW i \in Instances, job[i].pc # "idle"
  PROVE  job[i] \in Job /\ Intent(i) \in Intents
  BY DEF TypeOK, Idle, Job, Intent

\* mark and reserve_before_side_effect write a justified row.
LEMMA WriteOK ==
  ASSUME ExecutionInv, NEW i \in Instances, Intent(i) \in Intents,
         NEW r \in Row, Justified(Intent(i), r.status), Write(i, r)
  PROVE  RowsOK /\ row'[Intent(i)] # NoRow
  <1>1. r # NoRow
    BY DEF Row, NoRow, Status, Remote, Open, Terminal
  <1>2. row' = [row EXCEPT ![Intent(i)] = r]
    BY DEF Write
  <1>3. QED
    BY <1>1, <1>2 DEF RowsOK, ExecutionInv, TypeOK, OutcomesJustified

\* records keeps justified statuses only.
LEMMA RememberOK ==
  ASSUME ExecutionInv, NEW i \in Instances, Intent(i) \in Intents,
         NEW status \in Status, Justified(Intent(i), status),
         Remember(i, status), order' = order
  PROVE  /\ records' \in [Instances -> [Intents -> Status \cup {"NONE"}]]
         /\ RecordsJustified'
  <1>1. records' = [records EXCEPT ![i][Intent(i)] = status]
    BY DEF Remember
  <1>2. records \in [Instances -> [Intents -> Status \cup {"NONE"}]]
    BY DEF ExecutionInv, TypeOK
  <1>3. records' \in [Instances -> [Intents -> Status \cup {"NONE"}]]
    BY <1>1, <1>2
  <1>4. \A k \in Instances, n \in Intents :
          records'[k][n] = IF k = i /\ n = Intent(i) THEN status ELSE records[k][n]
    BY <1>1, <1>2
  <1>5. RecordsJustified'
    BY <1>4 DEF RecordsJustified, Justified, ExecutionInv, OutcomesJustified
  <1>6. QED
    BY <1>3, <1>5

\* Rows left alone stay right, and so do records left alone.
LEMMA SameRows ==
  ASSUME ExecutionInv, row' = row
  PROVE  RowsOK
  BY DEF RowsOK, ExecutionInv, TypeOK, OutcomesJustified

LEMMA SameRecords ==
  ASSUME ExecutionInv, records' = records, order' = order
  PROVE  /\ records' \in [Instances -> [Intents -> Status \cup {"NONE"}]]
         /\ RecordsJustified'
  BY DEF RecordsJustified, Justified, ExecutionInv, TypeOK, OutcomesJustified

\* A step that ends submit, or kills the process that runs it.
LEMMA ReturnStep ==
  ASSUME ExecutionInv, LeaseInv', MemoryOK', RecordsJustified', RowsOK,
         NEW i \in Instances, Return(i),
         UNCHANGED <<order, reply, sends>>, inflight' \subseteq inflight,
         \A k \in Instances \ {i} : held[k] \subseteq held'[k]
  PROVE  ExecutionInv'
  <1>1. /\ Idle.pc = "idle"
        /\ job' = [job EXCEPT ![i] = Idle]
    BY DEF Idle, Return
  <1>2. QED
    BY <1>1, JobStep DEF RowsOK

\* A step of another thread of the process: submit stays where it is.
LEMMA QuietStep ==
  ASSUME ExecutionInv, LeaseInv', MemoryOK', RecordsJustified',
         NEW i \in Instances, UNCHANGED <<row, job, exchangeVars>>,
         \A k \in Instances : held[k] \subseteq held'[k]
  PROVE  ExecutionInv'
  <1>1. job[i] \in Job \cup {Idle} /\ job' = [job EXCEPT ![i] = job[i]]
    BY DEF ExecutionInv, TypeOK
  <1>2. RowsOK
    BY SameRows
  <1>3. Live /\ job[i].pc # "idle" => job[i].token \in held'[i]
    BY DEF ExecutionInv, TokensHeld
  <1>4. job[i].pc \in {"fence", "send"} =>
          /\ sends[job[i].intent] = 0
          /\ \A k \in Instances \ {i} : ~(Submitting(k) /\ Intent(k) = job[i].intent)
    BY DEF ExecutionInv, SingleSubmitter, Submitting, At, Intent
  <1>5. job[i].pc \notin {"idle", "lookup", "reserve"} => row'[job[i].intent] # NoRow
    BY DEF ExecutionInv, RowsPrecede, Intent
  <1>6. job[i].pc \in {"markFound", "markSent"} =>
          Justified(job[i].intent, job[i].seen.status)
    BY DEF ExecutionInv, OutcomesJustified, Intent
  <1>7. UNCHANGED <<order, reply, sends>> /\ inflight' \subseteq inflight
    BY DEF exchangeVars
  <1>8. QED
    BY <1>1, <1>2, <1>3, <1>4, <1>5, <1>6, <1>7, JobStep DEF RowsOK

\* A step inside submit, for the same intent and token.
LEMMA GotoStep ==
  ASSUME ExecutionInv, LeaseInv', MemoryOK', RecordsJustified', RowsOK,
         NEW i \in Instances, job[i].pc # "idle",
         NEW pc \in Steps, NEW r \in Row,
         \/ Goto(i, pc) /\ r = job[i].seen
         \/ GotoWith(i, pc, r),
         UNCHANGED <<order, reply, sends>>, inflight' \subseteq inflight,
         \A k \in Instances : held[k] \subseteq held'[k],
         pc \in {"fence", "send"} =>
           /\ sends[Intent(i)] = 0
           /\ \A k \in Instances \ {i} : ~(Submitting(k) /\ Intent(k) = Intent(i)),
         pc \notin {"lookup", "reserve"} => row'[Intent(i)] # NoRow,
         pc \in {"markFound", "markSent"} => Justified(Intent(i), r.status)
  PROVE  ExecutionInv'
  <1> DEFINE j == [job[i] EXCEPT !.pc = pc, !.seen = r]
  <1>1. job \in [Instances -> Job \cup {Idle}] /\ job[i] \in Job
    BY Running DEF ExecutionInv, TypeOK
  <1>2. j \in Job
    BY <1>1 DEF Job
  <1>3. j.pc = pc /\ j.seen = r /\ j.intent = Intent(i) /\ j.token = job[i].token
    BY <1>1 DEF Job, Intent
  <1>4. job' = [job EXCEPT ![i] = j]
    <2>1. CASE Goto(i, pc) /\ r = job[i].seen
      <3>1. [job[i] EXCEPT !.pc = pc] = j
        BY <1>1, <2>1 DEF Job
      <3>2. QED
        BY <1>1, <2>1, <3>1 DEF Goto
    <2>2. CASE GotoWith(i, pc, r)
      BY <1>1, <2>2 DEF GotoWith
    <2>3. QED
      BY <2>1, <2>2
  <1>5. Live => j.token \in held'[i]
    BY <1>3 DEF ExecutionInv, TokensHeld
  <1>6. QED
    BY <1>2, <1>3, <1>4, <1>5, JobStep DEF RowsOK

\* The steps that leave the process's memory and the histories alone.
LEMMA SameMemory ==
  ASSUME ExecutionInv, UNCHANGED <<order, processVars, crashes, history>>
  PROVE  MemoryOK' /\ RecordsJustified'
  <1>1. UNCHANGED <<records, isolated, riskOpen, staleSends, lateSends, crashes>>
    BY DEF processVars, history
  <1>2. RecordsJustified'
    BY <1>1, SameRecords
  <1>3. MemoryOK'
    BY <1>1 DEF MemoryOK, ExecutionInv, TypeOK
  <1>4. QED
    BY <1>2, <1>3

\* The steps that assign records only.
LEMMA RecordsOnly ==
  ASSUME ExecutionInv, NEW i \in Instances, Intent(i) \in Intents,
         NEW status \in Status, Justified(Intent(i), status), Remember(i, status),
         UNCHANGED <<order, isolated, riskOpen, crashes, history>>
  PROVE  MemoryOK' /\ RecordsJustified'
  <1>1. UNCHANGED <<isolated, riskOpen, staleSends, lateSends, crashes>>
    BY DEF history
  <1>2. /\ records' \in [Instances -> [Intents -> Status \cup {"NONE"}]]
        /\ RecordsJustified'
    BY RememberOK
  <1>3. QED
    BY <1>1, <1>2 DEF MemoryOK, ExecutionInv, TypeOK

\* Begin keeps the invariant.
LEMMA BeginInv ==
  ASSUME ExecutionInv, NEW i \in Instances, NEW n \in Intents,
         NEW token \in 0..MaxToken, Begin(i, n, token), LeaseInv'
  PROVE  ExecutionInv'
  <1> DEFINE j == [pc |-> "lookup", intent |-> n, token |-> token, seen |-> Unknown]
  <1>1. token \in Tokened(i)
    BY DEF Begin
  <1>2. j \in Job
    BY DEF Job, Steps, Unknown, Row, Status, Remote, Open
  <1>3. /\ job' = [job EXCEPT ![i] = j]
        /\ UNCHANGED <<leaseVars, row, exchangeVars, processVars, crashes, history>>
    BY DEF Begin
  <1>4. UNCHANGED <<held, order, reply, sends, inflight, row>>
    BY <1>3 DEF leaseVars, exchangeVars
  <1>5. MemoryOK' /\ RecordsJustified' /\ RowsOK
    BY <1>3, <1>4, SameMemory, SameRows
  <1>6. Live => j.token \in held'[i]
    BY <1>1, <1>4 DEF Tokened
  <1>7. QED
    BY <1>2, <1>3, <1>4, <1>5, <1>6, JobStep DEF RowsOK

\* reconcile_existing, its ledger.get: every outcome keeps the invariant.
LEMMA LookupInv ==
  ASSUME ExecutionInv, NEW i \in Instances, LeaseInv',
         \/ LookupMiss(i) \/ LookupCollides(i)
         \/ LookupKnown(i) \/ LookupUnresolved(i)
  PROVE  ExecutionInv'
  <1>1. /\ job[i].pc # "idle" /\ job[i] \in Job /\ Intent(i) \in Intents
        /\ UNCHANGED <<leaseVars, row, exchangeVars, isolated, riskOpen, crashes, history>>
    BY Running
    DEF ExecutionInv, LookupMiss, LookupCollides, LookupKnown, LookupUnresolved,
        FindsRow, At, processVars
  <1>2. UNCHANGED <<held, order, reply, sends, inflight, row>> /\ RowsOK
    BY <1>1, SameRows DEF leaseVars, exchangeVars
  <1>3. CASE LookupMiss(i)
    <2>1. Goto(i, "reserve") /\ job[i].seen \in Row /\ "reserve" \in Steps
      BY <1>1, <1>3 DEF LookupMiss, Job, Steps
    <2>2. MemoryOK' /\ RecordsJustified'
      BY <1>2, <1>3, SameMemory DEF LookupMiss
    <2>3. QED
      BY <1>1, <1>2, <2>1, <2>2, GotoStep
  <1>4. CASE LookupCollides(i)
    <2>1. MemoryOK' /\ RecordsJustified' /\ Return(i)
      BY <1>2, <1>4, SameMemory DEF LookupCollides
    <2>2. QED
      BY <1>2, <2>1, ReturnStep
  <1>5. CASE LookupKnown(i)
    <2>1. /\ row[Intent(i)] # NoRow
          /\ Remember(i, row[Intent(i)].status) /\ Return(i)
      BY <1>5 DEF LookupKnown, FindsRow
    <2>2. /\ row[Intent(i)].status \in Status
          /\ Justified(Intent(i), row[Intent(i)].status)
      BY <1>1, <2>1 DEF ExecutionInv, TypeOK, Row, OutcomesJustified
    <2>3. MemoryOK' /\ RecordsJustified'
      BY <1>1, <1>2, <2>1, <2>2, RecordsOnly
    <2>4. QED
      BY <1>2, <2>1, <2>3, ReturnStep
  <1>6. CASE LookupUnresolved(i)
    <2>1. /\ row[Intent(i)] # NoRow /\ row[Intent(i)] \in Row
          /\ GotoWith(i, "query", row[Intent(i)]) /\ "query" \in Steps
      BY <1>1, <1>6 DEF LookupUnresolved, FindsRow, ExecutionInv, TypeOK, Steps
    <2>2. MemoryOK' /\ RecordsJustified'
      BY <1>2, <1>6, SameMemory DEF LookupUnresolved
    <2>3. QED
      BY <1>1, <1>2, <2>1, <2>2, GotoStep
  <1>7. QED
    BY <1>3, <1>4, <1>5, <1>6

\* reconcile_existing, its query and its mark.
LEMMA ReconcileInv ==
  ASSUME ExecutionInv, NEW i \in Instances, LeaseInv', Query(i) \/ MarkFound(i)
  PROVE  ExecutionInv'
  <1>1. /\ job[i].pc # "idle" /\ job[i] \in Job /\ Intent(i) \in Intents
        /\ UNCHANGED <<leaseVars, exchangeVars, isolated, riskOpen, crashes, history>>
    BY Running DEF ExecutionInv, Query, MarkFound, At, processVars
  <1>2. UNCHANGED <<held, order, reply, sends, inflight>>
    BY <1>1 DEF leaseVars, exchangeVars
  <1>3. CASE Query(i)
    <2> DEFINE r == IF order[Intent(i)] = "NONE"
                    THEN [job[i].seen EXCEPT !.status = "UNKNOWN"]
                    ELSE [status |-> order[Intent(i)], xid |-> TRUE]
    <2>1. GotoWith(i, "markFound", r) /\ "markFound" \in Steps
      BY <1>3 DEF Query, Steps
    <2>2. r \in Row /\ Justified(Intent(i), r.status)
      BY <1>1
      DEF ExecutionInv, TypeOK, Job, Row, Status, Remote, Open, Terminal,
          Justified, Unresolved
    <2>3. MemoryOK' /\ RecordsJustified' /\ RowsOK
      BY <1>2, <1>3, SameMemory, SameRows DEF Query
    <2>4. row'[Intent(i)] # NoRow
      BY <1>3 DEF Query, At, ExecutionInv, RowsPrecede
    <2>5. QED
      BY <1>1, <1>2, <2>1, <2>2, <2>3, <2>4, GotoStep
  <1>4. CASE MarkFound(i)
    <2>1. Write(i, job[i].seen) /\ Remember(i, job[i].seen.status) /\ Return(i)
      BY <1>4 DEF MarkFound
    <2>2. /\ job[i].seen \in Row /\ job[i].seen.status \in Status
          /\ Justified(Intent(i), job[i].seen.status)
      BY <1>1, <1>4 DEF Job, Row, MarkFound, At, ExecutionInv, OutcomesJustified
    <2>3. MemoryOK' /\ RecordsJustified' /\ RowsOK
      BY <1>1, <1>2, <2>1, <2>2, RecordsOnly, WriteOK
    <2>4. QED
      BY <1>2, <2>1, <2>3, ReturnStep
  <1>5. QED
    BY <1>3, <1>4

\* reserve_before_side_effect: the instance that creates the row is the only
\* one between reservation and send.
LEMMA ReserveInv ==
  ASSUME ExecutionInv, NEW i \in Instances, LeaseInv',
         \/ MetadataChanged(i) \/ Reserve(i)
         \/ ReserveLost(i) \/ ReserveAmbiguous(i)
  PROVE  ExecutionInv'
  <1>1. /\ job[i].pc # "idle" /\ job[i] \in Job /\ Intent(i) \in Intents
        /\ UNCHANGED <<leaseVars, exchangeVars, isolated, crashes, history>>
    BY Running
    DEF ExecutionInv, MetadataChanged, Reserve, ReserveLost, ReserveAmbiguous,
        At, processVars
  <1>2. UNCHANGED <<held, order, reply, sends, inflight>>
    BY <1>1 DEF leaseVars, exchangeVars
  <1>3. /\ Reserved \in Row /\ Reserved.status = "SUBMITTED" /\ "SUBMITTED" \in Status
        /\ Justified(Intent(i), Reserved.status)
    BY DEF Reserved, Row, Status, Justified, Unresolved, Terminal
  <1>4. CASE MetadataChanged(i)
    <2>1. Return(i) /\ RowsOK
      BY <1>4, SameRows DEF MetadataChanged
    <2>2. /\ records' = records /\ isolated' = isolated /\ crashes' = crashes
          /\ UNCHANGED history /\ riskOpen' = [riskOpen EXCEPT ![i] = FALSE]
      BY <1>4 DEF MetadataChanged
    <2>3. MemoryOK' /\ RecordsJustified'
      BY <1>2, <2>2, SameRecords DEF MemoryOK, ExecutionInv, TypeOK, history
    <2>4. QED
      BY <1>2, <2>1, <2>3, ReturnStep
  <1>5. CASE Reserve(i)
    <2>1. /\ row[Intent(i)] = NoRow
          /\ Write(i, Reserved) /\ Remember(i, "SUBMITTED")
          /\ Goto(i, "fence") /\ UNCHANGED riskOpen
      BY <1>5 DEF Reserve, MayReserve
    <2>2. MemoryOK' /\ RecordsJustified' /\ RowsOK /\ row'[Intent(i)] # NoRow
      BY <1>1, <1>2, <1>3, <2>1, RecordsOnly, WriteOK
    <2>3. sends[Intent(i)] = 0
      BY <1>1, <2>1 DEF ExecutionInv, TypeOK, RowsPrecede
    <2>4. \A k \in Instances \ {i} : ~(Submitting(k) /\ Intent(k) = Intent(i))
      BY <2>1 DEF ExecutionInv, RowsPrecede, Submitting, At
    <2>5. "fence" \in Steps /\ job[i].seen \in Row
      BY <1>1 DEF Steps, Job
    <2>6. QED
      BY <1>1, <1>2, <2>1, <2>2, <2>3, <2>4, <2>5, GotoStep
  <1>6. CASE ReserveLost(i)
    <2>1. Goto(i, "relookup") /\ row[Intent(i)] # NoRow /\ row' = row
      BY <1>6 DEF ReserveLost, MayReserve
    <2>2. MemoryOK' /\ RecordsJustified' /\ RowsOK
      BY <1>2, <1>6, SameMemory, SameRows DEF ReserveLost
    <2>3. "relookup" \in Steps /\ job[i].seen \in Row
      BY <1>1 DEF Steps, Job
    <2>4. QED
      BY <1>1, <1>2, <2>1, <2>2, <2>3, GotoStep
  <1>7. CASE ReserveAmbiguous(i)
    <2>1. Write(i, Reserved) /\ Return(i)
      BY <1>7 DEF ReserveAmbiguous
    <2>2. MemoryOK' /\ RecordsJustified' /\ RowsOK
      BY <1>1, <1>2, <1>3, <1>7, <2>1, SameMemory, WriteOK DEF ReserveAmbiguous
    <2>3. QED
      BY <1>2, <2>1, <2>2, ReturnStep
  <1>8. QED
    BY <1>4, <1>5, <1>6, <1>7

\* The side-effect fence: the creator of the row goes on, or submit raises.
LEMMA FenceStepInv ==
  ASSUME ExecutionInv, NEW i \in Instances, LeaseInv', Fence(i) \/ FenceFails(i)
  PROVE  ExecutionInv'
  <1>1. /\ job[i].pc = "fence" /\ job[i] \in Job /\ Intent(i) \in Intents
        /\ UNCHANGED <<row, exchangeVars, processVars, crashes, history>>
    BY Running DEF ExecutionInv, Fence, FenceFails, At
  <1>2. UNCHANGED <<order, reply, sends, inflight, row>>
    BY <1>1 DEF exchangeVars
  <1>3. UNCHANGED held
    BY ExecutionAssumption
    DEF Fence, PassFence, FenceFails, RequireCurrent, RequireFails, leaseVars
  <1>4. MemoryOK' /\ RecordsJustified' /\ RowsOK
    BY <1>1, <1>2, SameMemory, SameRows
  <1>5. CASE Fence(i)
    <2>1. /\ Goto(i, "send") /\ "send" \in Steps
          /\ job[i].seen \in Row /\ row'[Intent(i)] # NoRow
      BY <1>1, <1>2, <1>5 DEF Fence, Steps, Job, ExecutionInv, RowsPrecede
    <2>2. /\ sends[Intent(i)] = 0
          /\ \A k \in Instances \ {i} : ~(Submitting(k) /\ Intent(k) = Intent(i))
      BY <1>1 DEF ExecutionInv, SingleSubmitter, Submitting, At
    <2>3. QED
      BY <1>1, <1>2, <1>3, <1>4, <2>1, <2>2, GotoStep
  <1>6. CASE FenceFails(i)
    BY <1>2, <1>3, <1>4, <1>6, ReturnStep DEF FenceFails
  <1>7. QED
    BY <1>5, <1>6

\* exchange.submit_order: the one send of the intent.
LEMMA SendInv ==
  ASSUME ExecutionInv, NEW i \in Instances, LeaseInv', Send(i)
  PROVE  ExecutionInv'
  <1> DEFINE n == Intent(i)
             j == [job[i] EXCEPT !.pc = "wait"]
  <1>1. /\ job[i].pc = "send" /\ job[i] \in Job /\ n \in Intents
        /\ job \in [Instances -> Job \cup {Idle}] /\ sends \in [Intents -> Nat]
    BY Running DEF ExecutionInv, TypeOK, Send, At
  <1>2. j \in Job /\ j.pc = "wait" /\ j.intent = n /\ j.token = job[i].token
    BY <1>1 DEF Job, Steps, Intent
  <1>3. /\ job' = [job EXCEPT ![i] = j]
        /\ sends' = [sends EXCEPT ![n] = @ + 1]
        /\ inflight' = inflight \cup {n}
        /\ UNCHANGED <<leaseVars, row, order, reply, processVars, crashes>>
    BY DEF Send, Goto
  <1>4. UNCHANGED <<held, records, isolated, riskOpen>>
    BY <1>3 DEF leaseVars, processVars
  <1>5. job'[i] = j /\ \A k \in Instances \ {i} : job'[k] = job[k]
    BY <1>1, <1>3
  <1>6. sends[n] = 0 /\ row[n] # NoRow
    BY <1>1 DEF ExecutionInv, SingleSubmitter, RowsPrecede, Submitting, At
  <1>7. /\ sends' \in [Intents -> Nat] /\ sends'[n] = 1
        /\ \A m \in Intents \ {n} : sends'[m] = sends[m]
    BY <1>1, <1>3, <1>6
  <1>8. TypeOK'
    <2>1. staleSends' \in [Instances -> Nat] /\ lateSends' \in [Instances -> Nat]
      BY DEF Send, ExecutionInv, TypeOK
    <2>2. QED
      BY <1>1, <1>2, <1>3, <1>4, <1>7, <2>1 DEF ExecutionInv, TypeOK, LeaseInv
  <1>9. TokensHeld'
    BY <1>1, <1>2, <1>4, <1>5 DEF ExecutionInv, TokensHeld
  <1>10. AtMostOnceSubmission'
    BY <1>7 DEF ExecutionInv, AtMostOnceSubmission
  <1>11. SingleSubmitter'
    <2>1. \A k \in Instances : Submitting(k)' =>
            k # i /\ Submitting(k) /\ Intent(k)' = Intent(k) /\ Intent(k) # n
      <3> SUFFICES ASSUME NEW k \in Instances, Submitting(k)'
                   PROVE  k # i /\ Submitting(k) /\ Intent(k)' = Intent(k) /\ Intent(k) # n
        OBVIOUS
      <3>1. k # i
        BY <1>2, <1>5 DEF Submitting, At
      <3>2. job'[k] = job[k]
        BY <1>5, <3>1
      <3>3. Submitting(k) /\ Intent(k)' = Intent(k)
        BY <3>2 DEF Submitting, At, Intent
      <3>4. Submitting(i)
        BY <1>1 DEF Submitting, At
      <3>5. QED
        BY <3>1, <3>3, <3>4 DEF ExecutionInv, SingleSubmitter
    <2>2. \A k \in Instances : job[k].pc # "idle" => Intent(k) \in Intents
      BY Running DEF ExecutionInv
    <2>3. \A k \in Instances : Submitting(k)' => sends'[Intent(k)'] = 0
      BY <1>7, <2>1, <2>2 DEF ExecutionInv, SingleSubmitter, Submitting, At
    <2>4. \A k, l \in Instances :
            Submitting(k)' /\ Submitting(l)' /\ Intent(k)' = Intent(l)' => k = l
      BY <2>1 DEF ExecutionInv, SingleSubmitter
    <2>5. QED
      BY <2>3, <2>4 DEF SingleSubmitter, Submitting, At, Intent
  <1>12. RowsPrecede'
    <2>1. \A m \in Intents : sends'[m] > 0 => row'[m] # NoRow
      BY <1>3, <1>6, <1>7 DEF ExecutionInv, RowsPrecede
    <2>2. \A m \in Intents : m \in inflight' \/ order'[m] # "NONE" => sends'[m] > 0
      BY <1>3, <1>7 DEF ExecutionInv, RowsPrecede
    <2>3. \A k \in Instances :
            job'[k].pc \notin {"idle", "lookup", "reserve"} => row'[Intent(k)'] # NoRow
      BY <1>2, <1>3, <1>5, <1>6 DEF ExecutionInv, RowsPrecede, Intent
    <2>4. QED
      BY <2>1, <2>2, <2>3 DEF RowsPrecede, Intent
  <1>13. OutcomesJustified'
    BY <1>2, <1>3, <1>4, <1>5
    DEF ExecutionInv, OutcomesJustified, Justified, Intent
  <1>14. QED
    BY <1>8, <1>9, <1>10, <1>11, <1>12, <1>13 DEF ExecutionInv

\* What follows the send: an answer, a refusal, a timeout, and the marks.
LEMMA AnswerInv ==
  ASSUME ExecutionInv, NEW i \in Instances, LeaseInv',
         \/ Answered(i) \/ MarkSent(i) \/ Refused(i)
         \/ ReplyUnreadable(i) \/ Ambiguous(i) \/ MarkUnknown(i) \/ MarkAmbiguous(i) \/ CallFails(i)
  PROVE  ExecutionInv'
  <1>1. job[i].pc # "idle" /\ job[i] \in Job /\ Intent(i) \in Intents
    BY Running
    DEF ExecutionInv, Answered, MarkSent, Refused, ReplyUnreadable, Ambiguous,
        MarkUnknown, MarkAmbiguous, CallFails, At
  <1>2. UNCHANGED <<held, order, reply, sends>> /\ inflight' \subseteq inflight
    BY DEF Answered, MarkSent, Refused, ReplyUnreadable, Ambiguous, MarkUnknown,
           MarkAmbiguous, CallFails, leaseVars, exchangeVars
  <1>3. /\ Unknown \in Row /\ Unknown.status = "UNKNOWN" /\ "UNKNOWN" \in Status
        /\ Justified(Intent(i), "UNKNOWN")
    BY DEF Unknown, Row, Status, Remote, Open, Justified, Unresolved, Terminal
  <1>4. CASE Answered(i)
    <2> DEFINE r == [status |-> reply[Intent(i)], xid |-> TRUE]
    <2>1. /\ order[Intent(i)] # "NONE" /\ Remember(i, reply[Intent(i)])
          /\ GotoWith(i, "markSent", r) /\ "markSent" \in Steps
          /\ UNCHANGED <<row, isolated, riskOpen, crashes, history>>
      BY <1>4 DEF Answered, Steps
    <2>2. /\ reply[Intent(i)] \in Status /\ r \in Row
          /\ Justified(Intent(i), reply[Intent(i)])
      BY <1>1, <2>1 DEF ExecutionInv, TypeOK, OutcomesJustified, Status, Row
    <2>3. MemoryOK' /\ RecordsJustified' /\ RowsOK
      BY <1>1, <1>2, <2>1, <2>2, RecordsOnly, SameRows
    <2>4. row'[Intent(i)] # NoRow
      BY <1>1, <1>4, <2>1 DEF Answered, At, ExecutionInv, RowsPrecede
    <2>5. QED
      BY <1>1, <1>2, <2>1, <2>2, <2>3, <2>4, GotoStep
  <1>5. CASE MarkSent(i)
    <2>1. Write(i, job[i].seen) /\ Return(i)
      BY <1>5 DEF MarkSent
    <2>2. job[i].seen \in Row /\ Justified(Intent(i), job[i].seen.status)
      BY <1>1, <1>5 DEF Job, MarkSent, At, ExecutionInv, OutcomesJustified
    <2>3. MemoryOK' /\ RecordsJustified' /\ RowsOK
      BY <1>1, <1>2, <1>5, <2>1, <2>2, SameMemory, WriteOK DEF MarkSent
    <2>4. QED
      BY <1>2, <2>1, <2>3, ReturnStep
  <1>6. CASE Refused(i)
    BY <1>2, <1>6, SameMemory, SameRows, ReturnStep DEF Refused
  <1>7. CASE Ambiguous(i)
    <2>1. /\ Remember(i, "UNKNOWN") /\ Goto(i, "markUnknown") /\ "markUnknown" \in Steps
          /\ UNCHANGED <<row, isolated, riskOpen, crashes, history>>
      BY <1>7 DEF Ambiguous, Steps
    <2>2. MemoryOK' /\ RecordsJustified' /\ RowsOK
      BY <1>1, <1>2, <1>3, <2>1, RecordsOnly, SameRows
    <2>3. row'[Intent(i)] # NoRow /\ job[i].seen \in Row
      BY <1>1, <1>7, <2>1 DEF Ambiguous, At, ExecutionInv, RowsPrecede, Job
    <2>4. QED
      BY <1>1, <1>2, <2>1, <2>2, <2>3, GotoStep
  <1>8. CASE MarkUnknown(i)
    <2>1. Write(i, Unknown) /\ Return(i) /\ UNCHANGED <<records, crashes, history>>
      BY <1>8 DEF MarkUnknown
    <2>2. isolated' \in [Instances -> SUBSET Symbols] /\ riskOpen' \in [Instances -> BOOLEAN]
      BY <1>1, <1>8, ExecutionAssumption DEF MarkUnknown, ExecutionInv, TypeOK
    <2>3. MemoryOK' /\ RecordsJustified'
      BY <1>2, <2>1, <2>2, SameRecords DEF MemoryOK, ExecutionInv, TypeOK, history
    <2>4. RowsOK
      BY <1>1, <1>3, <2>1, WriteOK
    <2>5. QED
      BY <1>2, <2>1, <2>3, <2>4, ReturnStep
  <1>9. CASE MarkAmbiguous(i)
    <2> DEFINE r == IF At(i, "markUnknown") THEN Unknown ELSE job[i].seen
    <2>1. Write(i, r) /\ Return(i)
      BY <1>9 DEF MarkAmbiguous
    <2>2. r \in Row /\ Justified(Intent(i), r.status)
      BY <1>1, <1>3, <1>9
      DEF Job, MarkAmbiguous, At, ExecutionInv, OutcomesJustified
    <2>3. MemoryOK' /\ RecordsJustified' /\ RowsOK
      BY <1>1, <1>2, <1>9, <2>1, <2>2, SameMemory, WriteOK DEF MarkAmbiguous
    <2>4. QED
      BY <1>2, <2>1, <2>3, ReturnStep
  <1>10. CASE CallFails(i)
    BY <1>2, <1>10, SameMemory, SameRows, ReturnStep DEF CallFails
  <1>11. CASE ReplyUnreadable(i)
    BY <1>2, <1>11, SameMemory, SameRows, ReturnStep DEF ReplyUnreadable
  <1>12. QED
    BY <1>4, <1>5, <1>6, <1>7, <1>8, <1>9, <1>10, <1>11

\* The exchange and the network: a request becomes an order or is lost, an open
\* order moves on; what was justified stays so.
LEMMA ExchangeInv ==
  ASSUME ExecutionInv, NEW n \in Intents, LeaseInv',
         Accept(n) \/ LoseRequest(n) \/ Execute(n)
  PROVE  ExecutionInv'
  <1>1. /\ UNCHANGED <<leaseVars, row, sends, job, processVars, crashes, history>>
        /\ inflight' \subseteq inflight
        /\ order' = order \/ \E s \in Remote : order' = [order EXCEPT ![n] = s]
        /\ order[n] \notin Terminal \/ order' = order
    BY ExecutionAssumption
    DEF Accept, LoseRequest, Execute, Remote, Open, Terminal
  <1>2. UNCHANGED <<held, records, isolated, riskOpen, staleSends, lateSends>>
    BY <1>1 DEF leaseVars, processVars, history
  <1>3. order \in [Intents -> Remote \cup {"NONE"}]
    BY DEF ExecutionInv, TypeOK
  <1>4. /\ order' \in [Intents -> Remote \cup {"NONE"}]
        /\ \A m \in Intents : order[m] # "NONE" => order'[m] # "NONE"
        /\ \A m \in Intents : order[m] \in Terminal => order'[m] = order[m]
    BY <1>1, <1>3 DEF Remote, Open, Terminal
  <1>5. \A m \in Intents, status \in Status \cup {"NONE"} :
          Justified(m, status) => Justified(m, status)'
    BY <1>4 DEF Justified
  <1>6. /\ reply' \in [Intents -> Remote]
        /\ \A m \in Intents : order'[m] # "NONE" => Justified(m, reply[m])'
    <2>1. CASE Accept(n)
      <3>1. PICK s \in Arrivals : /\ order' = [order EXCEPT ![n] = s]
                                  /\ reply' = [reply EXCEPT ![n] = s]
        BY <2>1 DEF Accept
      <3>2. s \in Remote
        BY ExecutionAssumption
      <3>3. QED
        BY <1>3, <1>4, <1>5, <3>1, <3>2
        DEF ExecutionInv, TypeOK, OutcomesJustified, Justified, Remote, Open,
            Terminal, Status
    <2>2. CASE LoseRequest(n)
      BY <2>2 DEF LoseRequest, ExecutionInv, TypeOK, OutcomesJustified, Justified
    <2>3. CASE Execute(n)
      <3>1. UNCHANGED reply /\ \A m \in Intents : order'[m] # "NONE" => order[m] # "NONE"
        BY <1>3, <2>3 DEF Execute, Open
      <3>2. QED
        BY <1>4, <3>1 DEF ExecutionInv, TypeOK, OutcomesJustified, Justified
    <2>4. QED
      BY <2>1, <2>2, <2>3
  <1>7. TypeOK'
    BY <1>1, <1>2, <1>4, <1>6 DEF ExecutionInv, TypeOK, LeaseInv
  <1>8. TokensHeld' /\ AtMostOnceSubmission' /\ SingleSubmitter'
    BY <1>1, <1>2
    DEF ExecutionInv, TokensHeld, AtMostOnceSubmission, SingleSubmitter,
        Submitting, At, Intent
  <1>9. RowsPrecede'
    <2>1. \A m \in Intents : order'[m] # "NONE" => order[m] # "NONE" \/ m \in inflight
      BY <1>3 DEF Accept, LoseRequest, Execute, Open
    <2>2. QED
      BY <1>1, <2>1 DEF ExecutionInv, RowsPrecede, Intent
  <1>10. OutcomesJustified'
    <2>1. \A m \in Intents : row'[m] # NoRow => Justified(m, row[m].status)'
      BY <1>1, <1>4 DEF ExecutionInv, TypeOK, OutcomesJustified, Justified, Row
    <2>2. \A k \in Instances : job'[k].pc \in {"markFound", "markSent"} =>
            Justified(Intent(k), job[k].seen.status)'
      <3>1. \A k \in Instances : job[k].pc # "idle" => Intent(k) \in Intents
        BY Running DEF ExecutionInv
      <3>2. QED
        BY <1>1, <1>4, <3>1 DEF ExecutionInv, OutcomesJustified, Justified, Intent
    <2>3. \A k \in Instances, m \in Intents :
            records'[k][m] # "NONE" => Justified(m, records[k][m])'
      BY <1>2, <1>4 DEF ExecutionInv, OutcomesJustified, Justified
    <2>4. QED
      BY <1>6, <2>1, <2>2, <2>3 DEF OutcomesJustified, Justified, Intent
  <1>11. QED
    BY <1>7, <1>8, <1>9, <1>10 DEF ExecutionInv

\* Other threads of a process, the lease, and a crash.
LEMMA ProcessInv ==
  ASSUME ExecutionInv, NEW i \in Instances, LeaseInv',
         \/ \E n \in Intents, token \in 0..MaxToken : BalanceChanged(i, n, token)
         \/ TakeLease(i) \/ KeepLease(i) \/ LeaseRunsOut(i)
         \/ Recover(i) \/ Halt(i)
         \/ \E s \in Clearable : ClearIsolation(i, s)
  PROVE  ExecutionInv'
  <1>1. UNCHANGED <<row, job, exchangeVars, records, crashes>>
    BY DEF BalanceChanged, TakeLease, KeepLease, LeaseRunsOut, Recover, Halt,
           ClearIsolation, processVars
  <1>2. \A k \in Instances : held[k] \subseteq held'[k]
    BY DEF BalanceChanged, TakeLease, KeepLease, LeaseRunsOut, Recover, Halt,
           ClearIsolation, Acquire, Heartbeat, Elapse, leaseVars, ExecutionInv,
           TypeOK, LeaseTypeOK
  <1>3. /\ isolated' \in [Instances -> SUBSET Symbols]
        /\ riskOpen' \in [Instances -> BOOLEAN]
        /\ staleSends' \in [Instances -> Nat]
        /\ lateSends' \in [Instances -> Nat]
    <2>1. /\ isolated' = isolated \/ \E s : isolated' = [isolated EXCEPT ![i] = @ \ {s}]
          /\ riskOpen' = riskOpen \/ \E b \in BOOLEAN : riskOpen' = [riskOpen EXCEPT ![i] = b]
          /\ staleSends' = staleSends \/ staleSends' = [staleSends EXCEPT ![i] = 0]
          /\ lateSends' = lateSends \/ lateSends' = [lateSends EXCEPT ![i] = 0]
      BY DEF BalanceChanged, TakeLease, KeepLease, LeaseRunsOut, Recover, Halt,
             ClearIsolation, processVars, history
    <2>2. /\ isolated \in [Instances -> SUBSET Symbols]
          /\ riskOpen \in [Instances -> BOOLEAN]
          /\ staleSends \in [Instances -> Nat]
          /\ lateSends \in [Instances -> Nat]
      BY DEF ExecutionInv, TypeOK
    <2>3. isolated' \in [Instances -> SUBSET Symbols]
      <3>1. ASSUME NEW s, isolated' = [isolated EXCEPT ![i] = @ \ {s}]
            PROVE  isolated' \in [Instances -> SUBSET Symbols]
        BY <2>2, <3>1
      <3>2. QED
        BY <2>1, <2>2, <3>1
    <2>4. riskOpen' \in [Instances -> BOOLEAN]
      BY <2>1, <2>2
    <2>5. staleSends' \in [Instances -> Nat]
      <3>1. CASE staleSends' = [staleSends EXCEPT ![i] = 0]
        BY <2>2, <3>1
      <3>2. QED
        BY <2>1, <2>2, <3>1
    <2>6. lateSends' \in [Instances -> Nat]
      <3>1. CASE lateSends' = [lateSends EXCEPT ![i] = 0]
        BY <2>2, <3>1
      <3>2. QED
        BY <2>1, <2>2, <3>1
    <2>7. QED
      BY <2>3, <2>4, <2>5, <2>6
  <1>4. MemoryOK' /\ RecordsJustified'
    BY <1>1, <1>3, SameRecords
    DEF MemoryOK, ExecutionInv, TypeOK, exchangeVars
  <1>5. QED
    BY <1>1, <1>2, <1>4, QuietStep

LEMMA CrashInv ==
  ASSUME ExecutionInv, NEW i \in Instances, LeaseInv', Crash(i)
  PROVE  ExecutionInv'
  <1>1. /\ Return(i) /\ UNCHANGED <<row, exchangeVars, history>>
        /\ records' = [records EXCEPT ![i] = [n \in Intents |-> "NONE"]]
    BY DEF Crash
  <1>2. UNCHANGED <<order, reply, sends, inflight, staleSends, lateSends>> /\ RowsOK
    BY <1>1, SameRows DEF exchangeVars, history
  <1>3. \A k \in Instances \ {i} : held[k] \subseteq held'[k]
    BY DEF Crash, LoseProcess, ExecutionInv, TypeOK, LeaseTypeOK
  <1>4. RecordsJustified'
    BY <1>1, <1>2
    DEF RecordsJustified, Justified, ExecutionInv, TypeOK, OutcomesJustified
  <1>5. MemoryOK'
    BY <1>2, ExecutionAssumption DEF Crash, MemoryOK, ExecutionInv, TypeOK
  <1>6. QED
    BY <1>2, <1>3, <1>4, <1>5, <1>1, ReturnStep

\* Every step keeps the invariant.
LEMMA NextInv == ExecutionInv /\ [Next]_vars => ExecutionInv'
  <1> SUFFICES ASSUME ExecutionInv, [Next]_vars PROVE ExecutionInv'
    OBVIOUS
  <1>1. LeaseInv'
    BY LeaseStep, LeaseNextInv DEF ExecutionInv
  <1>2. ASSUME NEW i \in Instances, SubmitStep(i) PROVE ExecutionInv'
    BY <1>1, <1>2, LookupInv, ReconcileInv, ReserveInv, FenceStepInv, SendInv,
       AnswerInv DEF SubmitStep
  <1>3. ASSUME NEW i \in Instances, NEW n \in Intents, NEW token \in 0..MaxToken,
               Begin(i, n, token)
        PROVE  ExecutionInv'
    BY <1>1, <1>3, BeginInv
  <1>4. ASSUME NEW i \in Instances, Crash(i) PROVE ExecutionInv'
    BY <1>1, <1>4, CrashInv
  <1>5. ASSUME NEW i \in Instances,
               \/ \E n \in Intents, token \in 0..MaxToken : BalanceChanged(i, n, token)
               \/ TakeLease(i) \/ KeepLease(i) \/ LeaseRunsOut(i)
               \/ Recover(i) \/ Halt(i)
               \/ \E s \in Clearable : ClearIsolation(i, s)
        PROVE  ExecutionInv'
    BY <1>1, <1>5, ProcessInv
  <1>6. ASSUME NEW n \in Intents, Accept(n) \/ LoseRequest(n) \/ Execute(n)
        PROVE  ExecutionInv'
    BY <1>1, <1>6, ExchangeInv
  <1>7. CASE UNCHANGED vars
    <2>1. UNCHANGED <<leaseVars, row, order, reply, inflight, sends, job, records,
                      isolated, riskOpen, crashes, staleSends, lateSends>>
      BY <1>7 DEF vars, exchangeVars, processVars, history
    <2>2. QED
      BY <1>1, <2>1
      DEF ExecutionInv, TypeOK, LeaseInv, leaseVars, TokensHeld,
          AtMostOnceSubmission, SingleSubmitter, RowsPrecede, OutcomesJustified,
          Submitting, Justified, At, Intent
  <1>8. QED
    BY <1>2, <1>3, <1>4, <1>5, <1>6, <1>7 DEF Next

\* The inductive invariant holds in every reachable state, for any number of
\* instances, intents, crashes and takeovers.
THEOREM ExecutionIsSafe == Spec => []ExecutionInv
  BY InitInv, NextInv, PTL DEF Spec

\* submit_order is called at most once for an intent.
THEOREM AtMostOnce == Spec => []AtMostOnceSubmission
  <1>1. ExecutionInv => AtMostOnceSubmission
    BY DEF ExecutionInv
  <1>2. QED
    BY <1>1, ExecutionIsSafe, PTL

\* No order without a row committed before it.
THEOREM RowBeforeOrder == Spec => []DurableBeforeSideEffect
  <1>1. ExecutionInv => DurableBeforeSideEffect
    BY DEF ExecutionInv, RowsPrecede, DurableBeforeSideEffect
  <1>2. QED
    BY <1>1, ExecutionIsSafe, PTL

\* The ledger and the caches hold no outcome the exchange did not report.
THEOREM OutcomesAreReported == Spec => []NoInventedOutcome
  <1>1. ExecutionInv => NoInventedOutcome
    <2> SUFFICES ASSUME ExecutionInv PROVE NoInventedOutcome
      OBVIOUS
    <2>1. \A n \in Intents : row[n].status \in Terminal => row[n] # NoRow
      BY DEF NoRow, Terminal
    <2>2. QED
      BY <2>1
      DEF ExecutionInv, OutcomesJustified, Justified, NoInventedOutcome, Terminal
  <1>2. QED
    BY <1>1, ExecutionIsSafe, PTL

\* Within the whole execution path the lease behaves as LeaderLease says: what
\* is proved of it there holds here.
THEOREM ExecutionKeepsLease == Spec => LeaseSpec
  <1>1. Init => LeaseInit
    BY DEF Init
  <1>2. ExecutionInv /\ [Next]_vars => [LeaseNext]_leaseVars
    BY LeaseStep DEF ExecutionInv
  <1>3. QED
    BY <1>1, <1>2, ExecutionIsSafe, PTL DEF Spec, LeaseSpec

-----------------------------------------------------------------------------
(* What a takeover and an emergency stop let through.                       *)

\* A step that neither sends nor passes the fence, under a lease that i has not
\* acquired in it, keeps FencedOut.
LEMMA FencedOutStep ==
  ASSUME FencedOut, UNCHANGED staleSends,
         \A i \in Instances : lease'.instance = i => lease.instance = i,
         \A i \in Instances : job'[i].pc = "send" => job[i].pc = "send"
  PROVE  FencedOut'
  BY DEF FencedOut, At

\* A step that sends nothing, opens no risk machine and puts no risk-increasing
\* submit on its way while one is closed keeps HaltedOut.
LEMMA HaltedOutStep ==
  ASSUME HaltedOut, UNCHANGED lateSends,
         \A i \in Instances : riskOpen'[i] => riskOpen[i],
         \A i \in Instances : job'[i].pc \in BeforeSend /\ ~riskOpen[i] =>
           \/ job'[i].intent \in ReduceOnly
           \/ job[i].pc \in BeforeSend /\ job'[i].intent = job[i].intent
  PROVE  HaltedOut'
  BY DEF HaltedOut, Intent

\* A submit that goes on keeps its intent; the others stay where they are.
LEMMA GoesOn ==
  ASSUME TypeOK, NEW i \in Instances, job[i].pc # "idle", NEW pc, NEW r,
         Goto(i, pc) \/ GotoWith(i, pc, r)
  PROVE  /\ job'[i].pc = pc /\ job'[i].intent = job[i].intent
         /\ \A k \in Instances \ {i} : job'[k] = job[k]
  <1>1. job[i] \in Job /\ job \in [Instances -> Job \cup {Idle}]
    BY Running DEF TypeOK
  <1>2. CASE Goto(i, pc)
    BY <1>1, <1>2 DEF Goto, Job
  <1>3. CASE GotoWith(i, pc, r)
    BY <1>1, <1>3 DEF GotoWith, Job
  <1> QED BY <1>2, <1>3

LEMMA GoesHome ==
  ASSUME TypeOK, NEW i \in Instances, Return(i)
  PROVE  job'[i].pc = "idle" /\ \A k \in Instances \ {i} : job'[k] = job[k]
  BY DEF TypeOK, Return, Idle

\* The steps of submit other than Fence and Send.
LEMMA OtherStepsBounded ==
  ASSUME TypeOK, FencedOut, HaltedOut, NEW i \in Instances,
         SubmitStep(i), ~Fence(i), ~Send(i)
  PROVE  FencedOut' /\ HaltedOut'
  <1>1. UNCHANGED <<staleSends, lateSends, lease>>
    BY DEF SubmitStep, LookupMiss, LookupCollides, LookupKnown, LookupUnresolved, Query, MarkFound,
       MetadataChanged, Reserve, ReserveLost, ReserveAmbiguous, FenceFails, Answered, MarkSent,
       Refused, ReplyUnreadable, Ambiguous, MarkUnknown, MarkAmbiguous, CallFails, RequireFails,
       history, leaseVars
  <1>2. \A k \in Instances : riskOpen'[k] => riskOpen[k]
    <2>1. UNCHANGED riskOpen \/ riskOpen' = [riskOpen EXCEPT ![i] = FALSE]
      BY DEF SubmitStep, LookupMiss, LookupCollides, LookupKnown, LookupUnresolved, Query, MarkFound,
         MetadataChanged, Reserve, ReserveLost, ReserveAmbiguous, FenceFails, Answered, MarkSent,
         Refused, ReplyUnreadable, Ambiguous, MarkUnknown, MarkAmbiguous, CallFails, processVars
    <2> QED BY <2>1 DEF TypeOK
  <1>3. \/ Return(i)
        \/ job[i].pc # "idle" /\ \E pc \in Steps \ BeforeSend : Goto(i, pc) \/ \E r : GotoWith(i, pc, r)
        \/ job[i].pc = "lookup" /\ Goto(i, "reserve")
        \/ job[i].pc = "reserve" /\ Goto(i, "fence")
    <2>1. \A pc \in {"query", "markFound", "relookup", "markSent", "markUnknown"} :
            pc \in Steps \ BeforeSend
      BY DEF Steps, BeforeSend
    <2>2. ASSUME LookupUnresolved(i) \/ Query(i) \/ Answered(i) \/ Ambiguous(i) \/ ReserveLost(i)
          PROVE  job[i].pc # "idle" /\ \E pc \in Steps \ BeforeSend : Goto(i, pc) \/ \E r : GotoWith(i, pc, r)
      <3>1. job[i].pc # "idle"
        BY <2>2 DEF LookupUnresolved, FindsRow, Query, Answered, Ambiguous, ReserveLost, At
      <3>2. \/ \E r : GotoWith(i, "query", r) \/ GotoWith(i, "markFound", r) \/ GotoWith(i, "markSent", r)
            \/ Goto(i, "markUnknown") \/ Goto(i, "relookup")
        BY <2>2 DEF LookupUnresolved, Query, Answered, Ambiguous, ReserveLost
      <3> QED BY <2>1, <3>1, <3>2
    <2>3. ASSUME LookupMiss(i) PROVE job[i].pc = "lookup" /\ Goto(i, "reserve")
      BY <2>3 DEF LookupMiss, At
    <2>4. ASSUME Reserve(i) PROVE job[i].pc = "reserve" /\ Goto(i, "fence")
      BY <2>4 DEF Reserve, At
    <2>5. ASSUME \/ LookupCollides(i) \/ LookupKnown(i) \/ MarkFound(i) \/ MetadataChanged(i)
                 \/ ReserveAmbiguous(i) \/ FenceFails(i) \/ MarkSent(i) \/ Refused(i)
                 \/ ReplyUnreadable(i) \/ MarkUnknown(i) \/ MarkAmbiguous(i) \/ CallFails(i)
          PROVE  Return(i)
      BY <2>5 DEF LookupCollides, LookupKnown, MarkFound, MetadataChanged, ReserveAmbiguous, FenceFails,
         MarkSent, Refused, ReplyUnreadable, MarkUnknown, MarkAmbiguous, CallFails
    <2> QED BY <2>2, <2>3, <2>4, <2>5 DEF SubmitStep
  <1>4. /\ \A k \in Instances \ {i} : job'[k] = job[k]
        /\ job'[i].pc # "send"
        /\ job'[i].pc \in BeforeSend => job[i].pc \in BeforeSend /\ job'[i].intent = job[i].intent
    <2>1. CASE Return(i)
      BY <2>1, GoesHome DEF BeforeSend
    <2>2. CASE job[i].pc # "idle" /\ \E pc \in Steps \ BeforeSend : Goto(i, pc) \/ \E r : GotoWith(i, pc, r)
      BY <2>2, GoesOn DEF BeforeSend
    <2>3. CASE job[i].pc = "lookup" /\ Goto(i, "reserve")
      BY <2>3, GoesOn DEF BeforeSend
    <2>4. CASE job[i].pc = "reserve" /\ Goto(i, "fence")
      BY <2>4, GoesOn DEF BeforeSend
    <2> QED BY <1>3, <2>1, <2>2, <2>3, <2>4
  <1>5. FencedOut'
    BY <1>1, <1>4, FencedOutStep
  <1>6. HaltedOut'
    BY <1>1, <1>2, <1>4, HaltedOutStep
  <1> QED BY <1>5, <1>6

\* Passing the fence: the instance leads, so it has sent nothing stale.
LEMMA FenceBounded ==
  ASSUME TypeOK, FencedOut, HaltedOut, NEW i \in Instances, Fence(i)
  PROVE  FencedOut' /\ HaltedOut'
  <1>1. /\ job[i].pc = "fence" /\ Goto(i, "send")
        /\ UNCHANGED <<staleSends, lateSends, riskOpen>>
    BY DEF Fence, At, history, processVars
  <1>2. UNCHANGED lease /\ (Live => lease.instance = i)
    BY DEF Fence, PassFence, RequireCurrent, Validate, leaseVars
  <1>3. /\ job'[i].pc = "send" /\ job'[i].intent = job[i].intent
        /\ \A k \in Instances \ {i} : job'[k] = job[k]
    BY <1>1, GoesOn
  <1>4. FencedOut'
    BY <1>1, <1>2, <1>3 DEF FencedOut, At
  <1>5. HaltedOut'
    BY <1>1, <1>3, HaltedOutStep DEF BeforeSend
  <1> QED BY <1>4, <1>5

\* The send itself: the one stale or late send there may be.
LEMMA SendBounded ==
  ASSUME TypeOK, FencedOut, HaltedOut, NEW i \in Instances, Send(i)
  PROVE  FencedOut' /\ HaltedOut'
  <1>1. job[i].pc = "send" /\ Goto(i, "wait") /\ UNCHANGED <<riskOpen, lease>>
    BY DEF Send, At, processVars, leaseVars
  <1>2. /\ job'[i].pc = "wait"
        /\ \A k \in Instances \ {i} : job'[k] = job[k]
    BY <1>1, GoesOn
  <1>3. FencedOut'
    BY <1>1, <1>2 DEF FencedOut, At, Send, TypeOK
  <1>4. HaltedOut'
    <2>1. lateSends[i] = 0 \/ Intent(i) \in ReduceOnly
      BY <1>1 DEF HaltedOut, BeforeSend
    <2>2. lateSends'[i] = 0 \/ (lateSends'[i] = 1 /\ ~riskOpen[i])
      BY <2>1 DEF HaltedOut, Send, TypeOK
    <2>3. \A k \in Instances \ {i} : lateSends'[k] = lateSends[k]
      BY DEF Send, TypeOK
    <2> QED BY <1>1, <1>2, <2>2, <2>3 DEF HaltedOut, BeforeSend, Intent
  <1> QED BY <1>3, <1>4

\* The steps outside submit.
LEMMA OutsideBounded ==
  ASSUME TypeOK, FencedOut, HaltedOut,
         \/ \E i \in Instances :
              \/ \E n \in Intents, token \in 0..MaxToken :
                   Begin(i, n, token) \/ BalanceChanged(i, n, token)
              \/ TakeLease(i) \/ KeepLease(i) \/ LeaseRunsOut(i)
              \/ Crash(i) \/ Recover(i) \/ Halt(i)
              \/ \E s \in Clearable : ClearIsolation(i, s)
         \/ \E n \in Intents : Accept(n) \/ LoseRequest(n) \/ Execute(n)
         \/ UNCHANGED vars
  PROVE  FencedOut' /\ HaltedOut'
  <1>1. ASSUME NEW i \in Instances, NEW n \in Intents, NEW token \in 0..MaxToken,
               Begin(i, n, token)
        PROVE  FencedOut' /\ HaltedOut'
    <2>1. /\ UNCHANGED <<staleSends, lateSends, lease, riskOpen>>
          /\ n \in ReduceOnly \/ riskOpen[i]
      BY <1>1 DEF Begin, MayTakeRisk, history, leaseVars, processVars
    <2>2. /\ job'[i].pc = "lookup" /\ job'[i].intent = n
          /\ \A k \in Instances \ {i} : job'[k] = job[k]
      BY <1>1 DEF Begin, TypeOK
    <2>3. FencedOut'
      BY <2>1, <2>2, FencedOutStep
    <2>4. HaltedOut'
      BY <2>1, <2>2, HaltedOutStep
    <2> QED BY <2>3, <2>4
  <1>2. ASSUME NEW i \in Instances,
               \/ \E n \in Intents, token \in 0..MaxToken : BalanceChanged(i, n, token)
               \/ Halt(i) \/ \E s \in Clearable : ClearIsolation(i, s)
        PROVE  FencedOut' /\ HaltedOut'
    <2>1. UNCHANGED <<staleSends, lateSends, lease, job>>
      BY <1>2 DEF BalanceChanged, Halt, ClearIsolation, history, leaseVars
    <2>2. UNCHANGED riskOpen \/ riskOpen' = [riskOpen EXCEPT ![i] = FALSE]
      BY <1>2 DEF BalanceChanged, Halt, ClearIsolation
    <2>3. \A k \in Instances : riskOpen'[k] => riskOpen[k]
      BY <2>2 DEF TypeOK
    <2> QED BY <2>1, <2>3, FencedOutStep, HaltedOutStep
  <1>3. ASSUME NEW i \in Instances, KeepLease(i) \/ LeaseRunsOut(i)
        PROVE  FencedOut' /\ HaltedOut'
    <2>1. UNCHANGED <<staleSends, lateSends, job, riskOpen>> /\ lease'.instance = lease.instance
      BY <1>3 DEF KeepLease, LeaseRunsOut, Heartbeat, Elapse, Validate, WriteLease, history,
         processVars, TypeOK, LeaseTypeOK
    <2> QED BY <2>1, FencedOutStep, HaltedOutStep
  <1>4. ASSUME NEW i \in Instances, TakeLease(i) PROVE FencedOut' /\ HaltedOut'
    <2>1. /\ UNCHANGED <<lateSends, job, riskOpen>> /\ lease'.instance = i
          /\ staleSends' = [staleSends EXCEPT ![i] = 0]
      BY <1>4 DEF TakeLease, Acquire, WriteLease, processVars
    <2>2. FencedOut'
      BY <2>1 DEF FencedOut, At, TypeOK
    <2> QED BY <2>1, <2>2, HaltedOutStep
  <1>5. ASSUME NEW i \in Instances, Crash(i) PROVE FencedOut' /\ HaltedOut'
    <2>1. /\ UNCHANGED <<staleSends, lateSends, lease>> /\ Return(i)
          /\ riskOpen' = [riskOpen EXCEPT ![i] = FALSE]
      BY <1>5 DEF Crash, LoseProcess, history
    <2>2. \A k \in Instances : riskOpen'[k] => riskOpen[k]
      BY <2>1 DEF TypeOK
    <2>3. job'[i].pc = "idle" /\ \A k \in Instances \ {i} : job'[k] = job[k]
      BY <2>1, GoesHome
    <2>4. "idle" \notin BeforeSend
      BY DEF BeforeSend
    <2>5. FencedOut'
      BY <2>1, <2>3, FencedOutStep
    <2>6. HaltedOut'
      BY <2>1, <2>2, <2>3, <2>4, HaltedOutStep
    <2> QED BY <2>5, <2>6
  <1>6. ASSUME NEW i \in Instances, Recover(i) PROVE FencedOut' /\ HaltedOut'
    <2>1. /\ UNCHANGED <<staleSends, lease, job>>
          /\ riskOpen' = [riskOpen EXCEPT ![i] = TRUE]
          /\ lateSends' = [lateSends EXCEPT ![i] = 0]
      BY <1>6 DEF Recover, leaseVars
    <2>2. HaltedOut'
      BY <2>1 DEF HaltedOut, Intent, TypeOK
    <2> QED BY <2>1, <2>2, FencedOutStep
  <1>7. ASSUME \/ \E n \in Intents : Accept(n) \/ LoseRequest(n) \/ Execute(n)
               \/ UNCHANGED vars
        PROVE  FencedOut' /\ HaltedOut'
    <2>1. UNCHANGED <<staleSends, lateSends, lease, job, riskOpen>>
      BY <1>7 DEF Accept, LoseRequest, Execute, vars, history, leaseVars, processVars
    <2> QED BY <2>1, FencedOutStep, HaltedOutStep
  <1> QED BY <1>1, <1>2, <1>3, <1>4, <1>5, <1>6, <1>7

LEMMA BoundedNext ==
  TypeOK /\ FencedOut /\ HaltedOut /\ [Next]_vars => FencedOut' /\ HaltedOut'
  <1> SUFFICES ASSUME TypeOK, FencedOut, HaltedOut, [Next]_vars PROVE FencedOut' /\ HaltedOut'
    OBVIOUS
  <1>1. ASSUME NEW i \in Instances, SubmitStep(i) PROVE FencedOut' /\ HaltedOut'
    BY <1>1, OtherStepsBounded, FenceBounded, SendBounded
  <1> QED BY <1>1, OutsideBounded DEF Next

LEMMA BoundedAlways == Spec => [](FencedOut /\ HaltedOut)
  <1>1. Init => FencedOut /\ HaltedOut
    BY DEF Init, FencedOut, HaltedOut
  <1>2. ExecutionInv => TypeOK
    BY DEF ExecutionInv
  <1> QED BY <1>1, <1>2, ExecutionIsSafe, BoundedNext, PTL DEF Spec

\* However often the lease changes hands, an instance that lost it reaches the
\* exchange at most once more before it acquires it again (ExecutionService.submit
\* and DatabaseExecutionFence.require_current).
THEOREM AtMostOneStaleSend == Spec => []StaleLeaderSendsAtMostOnce
  <1>1. FencedOut => StaleLeaderSendsAtMostOnce
    <2> SUFFICES ASSUME FencedOut, NEW i \in Instances PROVE staleSends[i] <= 1
      BY DEF StaleLeaderSendsAtMostOnce
    <2>1. staleSends[i] \in {0, 1}
      BY DEF FencedOut
    <2> QED BY <2>1
  <1> QED BY <1>1, BoundedAlways, PTL

\* An emergency stop, a failed balance check or a crash lets at most one
\* risk-increasing order of an instance through until its risk machine is opened
\* again, whatever the other threads and instances do.
THEOREM AtMostOneLateSend == Spec => []HaltAdmitsAtMostOne
  <1>1. HaltedOut => HaltAdmitsAtMostOne
    <2> SUFFICES ASSUME HaltedOut, NEW i \in Instances PROVE lateSends[i] <= 1
      BY DEF HaltAdmitsAtMostOne
    <2>1. lateSends[i] \in {0, 1}
      BY DEF HaltedOut
    <2> QED BY <2>1
  <1> QED BY <1>1, BoundedAlways, PTL

-----------------------------------------------------------------------------
(* The whole execution path implements SubmitOnce.                         *)

\* A step that changes no row, no order's existence and no count is a stutter.
LEMMA StutterMaps ==
  ASSUME UNCHANGED <<row, sends>>,
         \A n \in Intents : order'[n] # "NONE" <=> order[n] # "NONE"
  PROVE  [Once!OnceNext]_(Once!onceVars)
  BY DEF Once!onceVars, HasRow, AtExchange, OutcomeKnown

\* A mark of an existing row teaches or forgets an outcome.
LEMMA MarkMaps ==
  ASSUME ExecutionInv, NEW i \in Instances, Intent(i) \in Intents,
         row[Intent(i)] # NoRow, NEW r \in Row, Write(i, r),
         Justified(Intent(i), r.status), UNCHANGED <<order, sends>>
  PROVE  [Once!OnceNext]_(Once!onceVars)
  <1> DEFINE n == Intent(i)
  <1>1. r # NoRow
    BY DEF Row, NoRow, Status, Remote, Open, Terminal
  <1>2. row' = [row EXCEPT ![n] = r] /\ row \in [Intents -> Row \cup {NoRow}]
    BY DEF Write, ExecutionInv, TypeOK
  <1>3. row'[n] = r /\ \A m \in Intents \ {n} : row'[m] = row[m]
    BY <1>2
  <1>4. HasRow' = HasRow /\ AtExchange' = AtExchange
    BY <1>1, <1>3 DEF HasRow, AtExchange
  <1>5. CASE r.status \in Unresolved
    <2>1. OutcomeKnown' = OutcomeKnown \ {n}
      BY <1>1, <1>3, <1>5 DEF OutcomeKnown
    <2>2. QED
      BY <1>4, <2>1 DEF Once!OnceNext, Once!ForgetOutcome
  <1>6. CASE r.status \notin Unresolved
    <2>1. OutcomeKnown' = OutcomeKnown \cup {n}
      BY <1>1, <1>3, <1>6 DEF OutcomeKnown
    <2>2. n \in AtExchange
      BY <1>6 DEF Justified, AtExchange
    <2>3. QED
      BY <1>4, <2>1, <2>2 DEF Once!OnceNext, Once!LearnOutcome
  <1>7. QED
    BY <1>5, <1>6

\* Creating the row reserves the intent.
LEMMA ReserveMaps ==
  ASSUME ExecutionInv, NEW i \in Instances, Intent(i) \in Intents,
         row[Intent(i)] = NoRow, Write(i, Reserved), UNCHANGED <<order, sends>>
  PROVE  Once!OnceNext
  <1> DEFINE n == Intent(i)
  <1>1. Reserved # NoRow /\ Reserved.status \in Unresolved
    BY DEF Reserved, NoRow, Unresolved
  <1>2. row' = [row EXCEPT ![n] = Reserved] /\ row \in [Intents -> Row \cup {NoRow}]
    BY DEF Write, ExecutionInv, TypeOK
  <1>3. row'[n] = Reserved /\ \A m \in Intents \ {n} : row'[m] = row[m]
    BY <1>2
  <1>4. n \notin HasRow /\ HasRow' = HasRow \cup {n}
    BY <1>1, <1>3 DEF HasRow
  <1>5. AtExchange' = AtExchange /\ OutcomeKnown' = OutcomeKnown
    BY <1>1, <1>3 DEF AtExchange, OutcomeKnown
  <1>6. QED
    BY <1>4, <1>5 DEF Once!OnceNext, Once!ReserveIntent

\* Every step of a submit is a step of SubmitOnce or a stutter.
LEMMA SubmitMaps ==
  ASSUME ExecutionInv, NEW i \in Instances, SubmitStep(i)
  PROVE  [Once!OnceNext]_(Once!onceVars)
  <1>1. job[i].pc # "idle" => job[i] \in Job /\ Intent(i) \in Intents
    BY Running DEF ExecutionInv
  <1>2. CASE MarkFound(i) \/ MarkSent(i)
    <2>1. /\ job[i].pc \in {"markFound", "markSent"} /\ Write(i, job[i].seen)
          /\ UNCHANGED <<order, sends>>
      BY <1>2 DEF MarkFound, MarkSent, At, exchangeVars
    <2>2. /\ Intent(i) \in Intents /\ job[i].seen \in Row /\ row[Intent(i)] # NoRow
          /\ Justified(Intent(i), job[i].seen.status)
      BY <1>1, <2>1 DEF ExecutionInv, Job, RowsPrecede, OutcomesJustified
    <2>3. QED
      BY <2>1, <2>2, MarkMaps
  <1>3. CASE MarkUnknown(i) \/ MarkAmbiguous(i)
    <2>1. PICK r : /\ Write(i, r) /\ UNCHANGED <<order, sends>>
                   /\ job[i].pc \in {"markFound", "markUnknown"}
                   /\ \/ r = Unknown
                      \/ r = job[i].seen /\ job[i].pc = "markFound"
      BY <1>3 DEF MarkUnknown, MarkAmbiguous, At, exchangeVars
    <2>2. /\ Intent(i) \in Intents /\ job[i].seen \in Row /\ row[Intent(i)] # NoRow
          /\ job[i].pc = "markFound" => Justified(Intent(i), job[i].seen.status)
      BY <1>1, <2>1 DEF ExecutionInv, Job, RowsPrecede, OutcomesJustified
    <2>3. Unknown \in Row /\ Justified(Intent(i), Unknown.status)
      BY DEF Unknown, Row, Status, Remote, Open, Justified, Unresolved, Terminal
    <2>4. QED
      BY <2>1, <2>2, <2>3, MarkMaps
  <1>4. CASE Reserve(i) \/ ReserveAmbiguous(i)
    <2>1. /\ job[i].pc # "idle" /\ row[Intent(i)] = NoRow /\ Write(i, Reserved)
          /\ UNCHANGED <<order, sends>>
      BY <1>4 DEF Reserve, ReserveAmbiguous, MayReserve, At, exchangeVars
    <2>2. QED
      BY <1>1, <2>1, ReserveMaps
  <1>5. CASE Send(i)
    <2> DEFINE n == Intent(i)
    <2>1. n \in Intents /\ sends[n] = 0 /\ row[n] # NoRow
      BY <1>1, <1>5
      DEF Send, At, ExecutionInv, SingleSubmitter, Submitting, RowsPrecede
    <2>2. sends' = [sends EXCEPT ![n] = 1] /\ UNCHANGED <<row, order>>
      BY <1>5, <2>1 DEF Send, ExecutionInv, TypeOK
    <2>3. n \in HasRow /\ UNCHANGED <<HasRow, AtExchange, OutcomeKnown>>
      BY <2>1, <2>2 DEF HasRow, AtExchange, OutcomeKnown
    <2>4. QED
      BY <2>1, <2>2, <2>3 DEF Once!OnceNext, Once!SubmitIntent
  <1>6. CASE \/ LookupMiss(i) \/ LookupCollides(i) \/ LookupKnown(i)
             \/ LookupUnresolved(i) \/ Query(i) \/ MetadataChanged(i)
             \/ ReserveLost(i) \/ Fence(i) \/ FenceFails(i) \/ Answered(i)
             \/ Refused(i) \/ ReplyUnreadable(i) \/ Ambiguous(i) \/ CallFails(i)
    <2>1. UNCHANGED <<row, order, sends>>
      BY <1>6 DEF LookupMiss, LookupCollides, LookupKnown, LookupUnresolved,
                  Query, MetadataChanged, ReserveLost, Fence, FenceFails,
                  Answered, Refused, ReplyUnreadable, Ambiguous, CallFails,
                  exchangeVars
    <2>2. QED
      BY <2>1, StutterMaps
  <1>7. QED
    BY <1>2, <1>3, <1>4, <1>5, <1>6 DEF SubmitStep

\* ExecutionService with its ledger, its instances, its crashes and the
\* exchange implements SubmitOnce.
THEOREM Implementation == Spec => ImplementsSubmitOnce
  <1>1. Init => Once!OnceInit
    BY DEF Init, Once!OnceInit, HasRow, AtExchange, OutcomeKnown
  <1>2. ExecutionInv /\ [Next]_vars => [Once!OnceNext]_(Once!onceVars)
    <2> SUFFICES ASSUME ExecutionInv, [Next]_vars
                 PROVE  [Once!OnceNext]_(Once!onceVars)
      OBVIOUS
    <2>1. ASSUME NEW n \in Intents, Accept(n)
          PROVE  [Once!OnceNext]_(Once!onceVars)
      <3>1. sends[n] = 1
        BY <2>1 DEF Accept, ExecutionInv, TypeOK, RowsPrecede, AtMostOnceSubmission
      <3>2. n \notin AtExchange /\ AtExchange' = AtExchange \cup {n}
        BY <2>1, ExecutionAssumption
        DEF Accept, AtExchange, ExecutionInv, TypeOK, Remote, Open, Terminal
      <3>3. UNCHANGED <<HasRow, sends, OutcomeKnown>>
        BY <2>1 DEF Accept, HasRow, OutcomeKnown
      <3>4. QED
        BY <3>1, <3>2, <3>3 DEF Once!OnceNext, Once!PlaceOrder
    <2>2. ASSUME NEW n \in Intents, LoseRequest(n) \/ Execute(n)
          PROVE  [Once!OnceNext]_(Once!onceVars)
      <3>1. \A m \in Intents : order'[m] # "NONE" <=> order[m] # "NONE"
        BY <2>2, ExecutionAssumption
        DEF LoseRequest, Execute, ExecutionInv, TypeOK, Open, Terminal
      <3>2. QED
        BY <2>2, <3>1, StutterMaps DEF LoseRequest, Execute
    <2>3. ASSUME NEW i \in Instances,
                 \/ \E n \in Intents, token \in 0..MaxToken :
                      Begin(i, n, token) \/ BalanceChanged(i, n, token)
                 \/ TakeLease(i) \/ KeepLease(i) \/ LeaseRunsOut(i)
                 \/ Crash(i) \/ Recover(i) \/ Halt(i)
                 \/ \E s \in Clearable : ClearIsolation(i, s)
          PROVE  [Once!OnceNext]_(Once!onceVars)
      <3>1. UNCHANGED <<row, order, sends>>
        BY <2>3 DEF Begin, BalanceChanged, TakeLease, KeepLease, LeaseRunsOut,
                    Crash, Recover, Halt, ClearIsolation, exchangeVars
      <3>2. QED
        BY <3>1, StutterMaps
    <2>4. CASE UNCHANGED vars
      BY <2>4, StutterMaps DEF vars, exchangeVars
    <2>5. QED
      BY <2>1, <2>2, <2>3, <2>4, SubmitMaps DEF Next
  <1>3. QED
    BY <1>1, <1>2, ExecutionIsSafe, PTL
    DEF Spec, ImplementsSubmitOnce, Once!OnceSpec
=============================================================================
