------------------------- MODULE RiskControl_proofs -------------------------
(***************************************************************************)
(* The risk machine under all its drivers implements ApprovalGate, for any *)
(* number of approvals and any interleaving; the hysteresis gate opens only *)
(* on sustained green; a LIVE order is confirmed once; alerts, race         *)
(* verdicts and feed health stay true; a full event buffer drops its worst. *)
(***************************************************************************)
EXTENDS RiskControl, RecoveryGate, LiveConfirmation, Escalation, RaceResolution,
        PublicFeed, ResourceLimits, FiniteSetTheorems, WellFoundedInduction, TLAPS

\* What the idle jobs and the sets of jobs are, so that steps need not expand them.
LEMMA Jobs ==
  /\ NoEval \in EvalJobs /\ NoEval.pc = "idle"
  /\ NoOperator \in OperatorJobs /\ NoOperator.pc = "idle"
  /\ NoReconnect \in ReconnectJobs
  <1>1. NoEval \in EvalJobs /\ NoEval.pc = "idle"
    BY DEF NoEval, EvalJobs, Verdicts
  <1>2. NoOperator \in OperatorJobs /\ NoOperator.pc = "idle"
    BY DEF NoOperator, OperatorJobs, OpenStates
  <1>3. NoReconnect \in ReconnectJobs
    BY DEF NoReconnect, ReconnectJobs, Verdicts
  <1> QED BY <1>1, <1>2, <1>3

\* The type invariant and the evaluation invariant are inductive together.
IInv == TypeOK /\ RiskInv

LEMMA InitInv == Init => IInv
  <1> SUFFICES ASSUME Init PROVE IInv
    OBVIOUS
  <1>1. risk \in RiskState
    BY DEF Init, RiskState
  <1>2. given \in 0..MaxApprovals
    BY RiskAssumption DEF Init
  <1>3. stream \subseteq {"disconnected", "auth_expired"} /\ stopped \in BOOLEAN
    BY DEF Init
  <1>4. eval = NoEval /\ operator = NoOperator /\ reconnect = NoReconnect
    BY DEF Init
  <1>5. RiskInv
    BY <1>4, Jobs DEF RiskInv
  <1> QED BY <1>1, <1>2, <1>3, <1>4, <1>5, Jobs DEF IInv, TypeOK

\* The transitions that write only the risk state or the stream flags.
LEMMA SingleSteps ==
  ASSUME IInv,
         EmergencyStop \/ Fail \/ RestrictTrading \/ Review \/ ReduceOnly \/ BeginRecovery
           \/ Shutdown \/ OnDisconnect \/ OnAuthExpired \/ RecoverRefused
  PROVE  IInv' /\ Pending' = Pending /\ ~AllowNewRisk'
  BY DEF IInv, TypeOK, RiskInv, Pending, AllowNewRisk, OpenStates, RiskState,
     EmergencyStop, Fail, RestrictTrading, Review, ReduceOnly, BeginRecovery, Shutdown,
     OnDisconnect, OnAuthExpired, RecoverRefused

LEMMA ReconnectSteps ==
  ASSUME IInv,
         \/ \E v \in Verdicts : ReconnectFetch(v)
         \/ ReconnectFails
         \/ \E refreshed \in BOOLEAN : ReconnectConclude(refreshed)
  PROVE  IInv' /\ Pending' = Pending /\ (AllowNewRisk' => AllowNewRisk)
  <1>1. /\ eval' = eval /\ operator' = operator /\ given' = given /\ stopped' = stopped
        /\ \/ risk' = risk /\ stream' = stream
           \/ /\ risk' \in {"MANUAL_REVIEW_REQUIRED", "RECOVERY_PENDING"}
              /\ stream' \subseteq stream
    BY DEF ReconnectFetch, ReconnectFails, ReconnectConclude
  <1>2. reconnect' \in ReconnectJobs
    <2>1. CASE \E v \in Verdicts : ReconnectFetch(v)
      BY <2>1 DEF ReconnectFetch, ReconnectJobs, Verdicts
    <2>2. CASE ReconnectFails \/ \E refreshed \in BOOLEAN : ReconnectConclude(refreshed)
      BY <2>2, Jobs DEF ReconnectFails, ReconnectConclude
    <2> QED BY <2>1, <2>2
  <1>3. TypeOK' /\ (AllowNewRisk' => AllowNewRisk)
    BY <1>1, <1>2 DEF IInv, TypeOK, RiskState, AllowNewRisk, OpenStates
  <1>4. RiskInv' /\ Pending' = Pending
    BY <1>1 DEF IInv, RiskInv, Pending
  <1> QED BY <1>3, <1>4 DEF IInv

\* Giving an approval keeps the bound on approvals.
LEMMA Approved ==
  ASSUME TypeOK, Approving
  PROVE  given' \in 0..MaxApprovals /\ stopped' \in BOOLEAN
  <1>1. given \in Int /\ 0 <= given /\ given < MaxApprovals /\ given' = given + 1
    BY DEF Approving, TypeOK
  <1>2. stopped' \in BOOLEAN
    BY DEF Approving
  <1> QED BY <1>1, <1>2, RiskAssumption

\* The start of an evaluation: a clean one is a new pending approval.
LEMMA EvaluateStarts ==
  ASSUME IInv, NEW v \in Verdicts, EvaluateStart(v)
  PROVE  /\ IInv' /\ AllowNewRisk' = AllowNewRisk
         /\ Pending' = Pending + 1 \/ Pending' = Pending
  <1>1. eval' = [pc |-> "decide", verdict |-> v] /\ eval.pc = "idle"
    BY DEF EvaluateStart
  <1>2. eval' \in EvalJobs /\ eval'.pc = "decide"
    BY <1>1 DEF EvalJobs, Verdicts
  <1>3. /\ risk' = risk /\ operator' = operator /\ reconnect' = reconnect
        /\ stream' = stream
    BY DEF EvaluateStart
  <1>4. given' \in 0..MaxApprovals /\ stopped' \in BOOLEAN
    BY Approved DEF EvaluateStart, IInv, TypeOK
  <1>5. IInv'
    BY <1>2, <1>3, <1>4 DEF IInv, TypeOK, RiskInv
  <1>6. Pending' = Pending + 1 \/ Pending' = Pending
    BY <1>1, <1>2, <1>3 DEF Pending
  <1> QED BY <1>3, <1>5, <1>6 DEF AllowNewRisk

\* The other steps of an evaluation: it closes, stages, is refused or opens.
LEMMA EvaluateSteps ==
  ASSUME IInv, EvalStep
  PROVE  /\ IInv'
         /\ \/ AllowNewRisk' = AllowNewRisk /\ Pending' \in {Pending, Pending - 1} /\ Pending >= Pending'
               /\ Pending > 0
            \/ ~AllowNewRisk' /\ Pending' = Pending
            \/ AllowNewRisk' /\ Pending' = Pending - 1 /\ Pending > 0
  <1>0. /\ operator' = operator /\ reconnect' = reconnect /\ stream' = stream
        /\ given' = given /\ stopped' = stopped
    BY DEF EvalStep, EvaluateDecide, EvaluateStage, EvaluateRecover, EvaluateOpen
  <1>1. CASE EvaluateDecide
    <2>1. \/ risk' \in {"MANUAL_REVIEW_REQUIRED", "RECOVERY_PENDING"} /\ eval' = NoEval
             /\ eval.verdict # "clean"
          \/ risk' = risk /\ eval' = [eval EXCEPT !.pc = "stage"] /\ eval.verdict = "clean"
             /\ eval.pc = "decide"
      BY <1>1 DEF EvaluateDecide
    <2>2. CASE eval' = NoEval /\ eval.verdict # "clean"
      BY <2>1, <2>2, <1>0, Jobs DEF IInv, TypeOK, RiskInv, Pending, AllowNewRisk, OpenStates,
         RiskState
    <2>3. CASE eval.verdict = "clean"
      <3>1. eval' \in EvalJobs /\ eval'.pc = "stage" /\ eval'.verdict = "clean"
        BY <2>1, <2>3 DEF IInv, TypeOK, EvalJobs, Verdicts
      <3> QED BY <2>1, <2>3, <3>1, <1>0 DEF IInv, TypeOK, RiskInv, Pending, AllowNewRisk
    <2> QED BY <2>1, <2>2, <2>3
  <1>2. CASE EvaluateStage
    <2>1. eval' \in EvalJobs /\ eval'.pc = "recover" /\ eval'.verdict = eval.verdict
      BY <1>2 DEF EvaluateStage, IInv, TypeOK, EvalJobs, Verdicts
    <2>2. eval.pc = "stage" /\ risk' = "RECOVERY_PENDING"
      BY <1>2 DEF EvaluateStage
    <2> QED BY <2>1, <2>2, <1>0 DEF IInv, TypeOK, RiskInv, Pending, AllowNewRisk, OpenStates,
            RiskState
  <1>3. CASE EvaluateRecover
    <2>1. eval.pc = "recover" /\ risk' = risk
      BY <1>3 DEF EvaluateRecover
    <2>2. CASE risk \in Staged
      <3>1. eval' \in EvalJobs /\ eval'.pc = "open" /\ eval'.verdict = eval.verdict
        BY <1>3, <2>2 DEF EvaluateRecover, IInv, TypeOK, EvalJobs, Verdicts
      <3> QED BY <2>1, <3>1, <1>0 DEF IInv, TypeOK, RiskInv, Pending, AllowNewRisk
    <2>3. CASE risk \notin Staged
      <3>1. eval' = NoEval
        BY <1>3, <2>3 DEF EvaluateRecover
      <3> QED BY <2>1, <3>1, <1>0, Jobs DEF IInv, TypeOK, RiskInv, Pending, AllowNewRisk
    <2> QED BY <2>2, <2>3
  <1>4. CASE EvaluateOpen
    <2>1. eval.pc = "open" /\ risk' = "ACTIVE" /\ eval' = NoEval
      BY <1>4 DEF EvaluateOpen
    <2> QED BY <2>1, <1>0, Jobs DEF IInv, TypeOK, RiskInv, Pending, AllowNewRisk, OpenStates,
            RiskState
  <1> QED BY <1>1, <1>2, <1>3, <1>4 DEF EvalStep

\* An operator's recover: approval given, then spent.
LEMMA OperatorSteps ==
  ASSUME IInv,
         RecoverOpen \/ \E target \in OpenStates : RecoverStart(target)
  PROVE  /\ IInv'
         /\ \/ AllowNewRisk' = AllowNewRisk /\ Pending' = Pending + 1
            \/ AllowNewRisk' /\ Pending' = Pending - 1 /\ Pending > 0
  <1>1. CASE RecoverOpen
    <2>1. /\ operator.pc = "open" /\ risk' = operator.target /\ operator' = NoOperator
          /\ eval' = eval /\ reconnect' = reconnect /\ stream' = stream
          /\ given' = given /\ stopped' = stopped
      BY <1>1 DEF RecoverOpen
    <2>2. operator.target \in OpenStates
      BY DEF IInv, TypeOK, OperatorJobs
    <2> QED BY <2>1, <2>2, Jobs DEF IInv, TypeOK, RiskInv, Pending, AllowNewRisk, OpenStates,
            RiskState
  <1>2. CASE \E target \in OpenStates : RecoverStart(target)
    <2>1. PICK target \in OpenStates : RecoverStart(target)
      BY <1>2
    <2>2. /\ operator.pc = "idle" /\ operator' = [pc |-> "open", target |-> target]
          /\ eval' = eval /\ reconnect' = reconnect /\ stream' = stream /\ risk' = risk
      BY <2>1 DEF RecoverStart
    <2>3. operator' \in OperatorJobs /\ operator'.pc = "open"
      BY <2>2 DEF OperatorJobs
    <2>4. given' \in 0..MaxApprovals /\ stopped' \in BOOLEAN
      BY <2>1, RiskAssumption, Approved DEF RecoverStart, IInv
    <2> QED BY <2>2, <2>3, <2>4 DEF IInv, TypeOK, RiskInv, Pending, AllowNewRisk
  <1> QED BY <1>1, <1>2

\* Every step keeps the invariant and is a step of the gate or leaves it alone.
LEMMA StepGate ==
  ASSUME IInv, [Next]_vars
  PROVE  IInv' /\ (Gate!GateNext \/ UNCHANGED <<AllowNewRisk, Pending>>)
  <1> USE DEF Gate!GateNext, Gate!Approve, Gate!Spend, Gate!Lapse, Gate!Close
  <1>1. AllowNewRisk \in BOOLEAN /\ AllowNewRisk' \in BOOLEAN /\ Pending \in Nat
    BY DEF AllowNewRisk, Pending
  <1>2. CASE EmergencyStop \/ Fail \/ RestrictTrading \/ Review \/ ReduceOnly \/ BeginRecovery
               \/ Shutdown \/ OnDisconnect \/ OnAuthExpired \/ RecoverRefused
    BY <1>1, <1>2, SingleSteps
  <1>3. CASE \/ \E v \in Verdicts : ReconnectFetch(v)
             \/ ReconnectFails
             \/ \E refreshed \in BOOLEAN : ReconnectConclude(refreshed)
    BY <1>1, <1>3, ReconnectSteps
  <1>4. CASE \E v \in Verdicts : EvaluateStart(v)
    BY <1>1, <1>4, EvaluateStarts
  <1>5. CASE EvalStep
    BY <1>1, <1>5, EvaluateSteps
  <1>6. CASE RecoverOpen \/ \E target \in OpenStates : RecoverStart(target)
    BY <1>1, <1>6, OperatorSteps
  <1>7. CASE UNCHANGED vars
    BY <1>7 DEF vars, IInv, TypeOK, RiskInv, Pending, AllowNewRisk
  <1> QED BY <1>2, <1>3, <1>4, <1>5, <1>6, <1>7 DEF Next

\* RestartRecoveryCoordinator.evaluate: the invariant holds in every reachable
\* state, so an evaluation past its decision had all gates green and an approval.
THEOREM RecoveryIsApproved == Spec => [](TypeOK /\ RiskInv)
  <1>1. Init => IInv
    BY InitInv
  <1>2. IInv /\ [Next]_vars => IInv'
    BY StepGate
  <1> QED BY <1>1, <1>2, PTL DEF Spec, IInv

\* The risk machine and all its drivers implement the approval gate: allow_new_risk
\* becomes true only by spending an approval, each of them at most once.
THEOREM RiskImplementsGate == Spec => ImplementsGate
  <1>1. Init => Gate!GateInit
    BY Jobs DEF Init, Gate!GateInit, AllowNewRisk, Pending
  <1>2. TypeOK /\ RiskInv /\ [Next]_vars => [Gate!GateNext]_(Gate!gateVars)
    BY StepGate DEF Gate!gateVars, IInv
  <1> QED BY <1>1, <1>2, RecoveryIsApproved, PTL DEF Spec, ImplementsGate, Gate!GateSpec

-----------------------------------------------------------------------------
(* Proof: RunInv is inductive with the types, and the sample that makes the *)
(* answer eligible ends the run the fields describe.                        *)

HysteresisInv == HysteresisTypeOK /\ RunInv /\ EligibleIsSustained

\* A step of the gate keeps the account of the current run.
LEMMA HysteresisInvStep == HysteresisInv /\ [HysteresisNext]_hysteresisVars => HysteresisInv'
<1> SUFFICES ASSUME HysteresisInv, [HysteresisNext]_hysteresisVars PROVE HysteresisInv'
  OBVIOUS
<1> USE GateAssumption DEF None
<1>1. ASSUME NEW now \in Times, NEW green \in {"yes", "no"}, ObserveWentBack(now, green)
      PROVE  HysteresisInv'
  BY <1>1 DEF HysteresisInv, HysteresisTypeOK, RunInv, EligibleIsSustained, ObserveWentBack, Sampled, Samples, Answers
<1>2. ASSUME NEW now \in Times, ObserveRed(now) PROVE HysteresisInv'
  BY <1>2 DEF HysteresisInv, HysteresisTypeOK, RunInv, EligibleIsSustained, ObserveRed, Sampled, Samples, Answers
<1>3. ASSUME NEW now \in Times, ObserveGreen(now) PROVE HysteresisInv'
  <2>1. HysteresisTypeOK'
    BY <1>3 DEF HysteresisInv, HysteresisTypeOK, ObserveGreen, Sampled, Samples, Answers
  <2>2. /\ samples' \in Seq(Samples) /\ Len(samples') = Len(samples) + 1
        /\ \A i \in 1..Len(samples) : samples'[i] = samples[i]
        /\ samples'[Len(samples')] = [time |-> now, green |-> "yes"]
    BY <1>3 DEF HysteresisInv, HysteresisTypeOK, ObserveGreen, Sampled, Samples
  <2>3. Start' = Start /\ successes' = successes + 1 /\ successes \in Nat /\ Len(samples) \in Nat
        /\ successes <= Len(samples)
    BY <1>3, <2>2 DEF HysteresisInv, HysteresisTypeOK, RunInv, Start, ObserveGreen
  <2>4. RunInv'
    <3>1. CASE successes = 0
      BY <3>1, <1>3, <2>2, <2>3 DEF HysteresisInv, HysteresisTypeOK, RunInv, Start, ObserveGreen
    <3>2. CASE successes > 0
      <4>1. Start \in 1..Len(samples) /\ firstGreenAt # None /\ firstGreenAt = samples[Start].time
        BY <3>2, <2>3 DEF HysteresisInv, RunInv, Start
      <4>2. firstGreenAt' = samples'[Start'].time /\ lastSeenAt' = samples'[Len(samples')].time
        BY <4>1, <1>3, <2>2, <2>3 DEF ObserveGreen
      <4>3. ASSUME NEW i \in Start'..Len(samples') PROVE samples'[i].green = "yes"
        <5>1. i = Len(samples') \/ (i \in Start..Len(samples) /\ i \in 1..Len(samples))
          BY <4>1, <2>2, <2>3
        <5> QED BY <5>1, <3>2, <2>2 DEF HysteresisInv, RunInv
      <4>4. lastSeenAt <= now
        <5>1. lastSeenAt = samples[Len(samples)].time /\ Len(samples) \in 1..Len(samples)
          BY <4>1, <3>2, <2>3 DEF HysteresisInv, RunInv
        <5>2. lastSeenAt \in Nat /\ lastSeenAt # None /\ now \in Nat
          <6>1. samples \in Seq(Samples) /\ samples[Len(samples)] \in Samples
            BY <5>1 DEF HysteresisInv, HysteresisTypeOK
          <6>2. lastSeenAt \in Times
            BY <5>1, <6>1 DEF Samples
          <6> QED BY <6>2
        <5> QED BY <5>2, <1>3 DEF ObserveGreen, WentBack
      <4>5. \A i \in Start'..(Len(samples') - 1) : samples'[i].time <= samples'[i + 1].time
        <5> SUFFICES ASSUME NEW i \in Start'..(Len(samples') - 1)
                     PROVE  samples'[i].time <= samples'[i + 1].time
          OBVIOUS
        <5>1. CASE i = Len(samples)
          BY <5>1, <4>1, <4>4, <3>2, <2>2, <2>3 DEF HysteresisInv, RunInv
        <5>2. CASE i # Len(samples)
          <6>1. i \in Start..(Len(samples) - 1) /\ i \in 1..Len(samples) /\ i + 1 \in 1..Len(samples)
            BY <5>2, <4>1, <2>2, <2>3
          <6> QED BY <6>1, <3>2, <2>2 DEF HysteresisInv, RunInv
        <5> QED BY <5>1, <5>2
      <4>6. firstGreenAt' # None /\ successes' # 0 /\ successes' > 0 /\ successes' <= Len(samples')
        BY <4>1, <1>3, <2>2, <2>3 DEF ObserveGreen
      <4> QED BY <4>2, <4>3, <4>5, <4>6 DEF RunInv
    <3> QED BY <3>1, <3>2, <2>3
  <2>5. EligibleIsSustained'
    <3> SUFFICES ASSUME answer' = "eligible" PROVE \E k \in 1..Len(samples') : SustainedFrom(k)'
      BY DEF EligibleIsSustained
    <3>1. successes' >= MinSuccesses /\ now - firstGreenAt' >= MinSeconds
      BY <1>3 DEF ObserveGreen
    <3>2. Start' \in 1..Len(samples') /\ successes' > 0
      BY <2>2, <2>3 DEF Start
    <3>3. firstGreenAt' = samples'[Start'].time
      BY <3>2, <2>4 DEF RunInv
    <3>4. Len(samples') - Start' + 1 >= MinSuccesses
      BY <3>1, <2>2, <2>3 DEF Start
    <3>5. PICK k : k = Start'
      OBVIOUS
    <3>6. SustainedFrom(k)'
      BY <3>1, <3>2, <3>3, <3>4, <3>5, <2>2, <2>4 DEF SustainedFrom, RunInv
    <3> QED BY <3>2, <3>5, <3>6
  <2> QED BY <2>1, <2>4, <2>5 DEF HysteresisInv
<1>4. CASE Reset
  BY <1>4 DEF HysteresisInv, HysteresisTypeOK, RunInv, EligibleIsSustained, SustainedFrom, Reset
<1>5. CASE UNCHANGED hysteresisVars
  BY <1>5 DEF HysteresisInv, HysteresisTypeOK, RunInv, Start, EligibleIsSustained, SustainedFrom, hysteresisVars
<1> QED BY <1>1, <1>2, <1>3, <1>4, <1>5 DEF HysteresisNext

\* RecoveryHysteresisGate.observe answers True only at the end of a sustained run
\* of green samples, whatever the thresholds and the clock readings are.
THEOREM EligibleOnlyWhenSustained == HysteresisSpec => []EligibleIsSustained
<1>1. HysteresisInit => HysteresisInv
  BY GateAssumption DEF HysteresisInit, HysteresisInv, HysteresisTypeOK, RunInv, EligibleIsSustained, Answers, None
<1>2. HysteresisInv => EligibleIsSustained
  BY DEF HysteresisInv
<1> QED BY <1>1, <1>2, HysteresisInvStep, PTL DEF HysteresisSpec

-----------------------------------------------------------------------------
(* Proof.  A restart forgets which nonces were consumed; what keeps one from *)
(* being accepted again is that it also forgets which were issued.           *)

Confirmations ==
  [nonce : Nonces, principal : Principals, order : LiveOrders, expires : Nat]

ConfirmationTypeOK ==
  /\ nonceNow \in Nat
  /\ uses \in [Nonces -> Nat]
  /\ shown \subseteq Confirmations

\* What is outstanding was shown and is unused, and so is every nonce that was
\* never drawn.
OutstandingIsUnused ==
  /\ \A n \in DOMAIN issued :
       issued[n] \in shown /\ issued[n].nonce = n /\ uses[n] = 0
  /\ \A n \in Nonces : (\A c \in shown : c.nonce # n) => uses[n] = 0

ConfirmationInv ==
  ConfirmationTypeOK /\ OutstandingIsUnused /\ ConfirmedOnceAsShown

\* Nothing is issued, used or accepted at the start.
LEMMA ConfirmationInitially == ConfirmationInit => ConfirmationInv
BY ConfirmationAssumption
DEF ConfirmationInit, ConfirmationInv, ConfirmationTypeOK, OutstandingIsUnused,
    ConfirmedOnceAsShown, AcceptedAtMostOnce, AcceptedIsWhatWasShown

\* issue_live_confirmation: the nonce is new, so it is unused.
LEMMA IssueKeeps ==
  ASSUME ConfirmationInv,
         NEW p \in Principals, NEW o \in LiveOrders, NEW n \in Nonces,
         IssueLiveConfirmation(p, o, n)
  PROVE  ConfirmationInv'
<1> DEFINE c == [nonce |-> n, principal |-> p, order |-> o,
                 expires |-> nonceNow + NonceTtl]
<1>1. c \in Confirmations /\ c.nonce = n
  BY ConfirmationAssumption
  DEF ConfirmationInv, ConfirmationTypeOK, Confirmations
<1>2. /\ \A d \in shown : d.nonce # n
      /\ shown' = shown \cup {c}
      /\ issued' = [m \in DOMAIN issued \cup {n} |-> IF m = n THEN c ELSE issued[m]]
      /\ UNCHANGED <<stateEnabled, consumed, uses, accepted, nonceNow>>
  BY DEF IssueLiveConfirmation
<1> HIDE DEF c
<1>3. ConfirmationTypeOK'
  BY <1>1, <1>2 DEF ConfirmationInv, ConfirmationTypeOK
<1>4. uses[n] = 0
  BY <1>2 DEF ConfirmationInv, OutstandingIsUnused
<1>5. OutstandingIsUnused'
  BY <1>1, <1>2, <1>4 DEF ConfirmationInv, OutstandingIsUnused
<1>6. ConfirmedOnceAsShown'
  BY <1>2 DEF ConfirmationInv, ConfirmedOnceAsShown, AcceptedAtMostOnce,
              AcceptedIsWhatWasShown
<1> QED  BY <1>3, <1>5, <1>6 DEF ConfirmationInv

\* consume_live_confirmation: an accepted nonce was unused and is no longer
\* outstanding; one that expired is forgotten.
LEMMA ConsumeKeeps ==
  ASSUME ConfirmationInv,
         NEW p \in Principals, NEW n \in Nonces, NEW d \in shown,
         ConsumeLiveConfirmation(p, n, d)
  PROVE  ConfirmationInv'
<1>1. /\ n \in DOMAIN issued /\ issued[n].principal = p /\ p \in Allowed
      /\ issued[n] \in Confirmations /\ uses[n] = 0
      /\ UNCHANGED <<stateEnabled, shown, nonceNow>>
  BY DEF ConsumeLiveConfirmation, Authorized, ConfirmationInv, OutstandingIsUnused,
         ConfirmationTypeOK
<1>2. issued' = [m \in DOMAIN issued \ {n} |-> issued[m]]
  BY DEF ConsumeLiveConfirmation, Spend, Forget
<1>3. CASE Expired(issued[n])
  <2>1. UNCHANGED <<uses, accepted>>
    BY <1>3 DEF ConsumeLiveConfirmation
  <2> QED
    BY <1>1, <1>2, <2>1
    DEF ConfirmationInv, ConfirmationTypeOK, OutstandingIsUnused,
        ConfirmedOnceAsShown, AcceptedAtMostOnce, AcceptedIsWhatWasShown
<1>4. CASE ~Expired(issued[n])
  <2>1. /\ d = issued[n]
        /\ uses' = [uses EXCEPT ![n] = @ + 1]
        /\ accepted' = [by |-> "somebody", who |-> p, meant |-> d,
                        got |-> issued[n], at |-> nonceNow]
    BY <1>4 DEF ConsumeLiveConfirmation, DigestValid
  <2>2. ConfirmationTypeOK'
    BY <1>1, <2>1 DEF ConfirmationInv, ConfirmationTypeOK
  <2>3. issued[n] \in shown /\ issued[n].nonce = n
    BY <1>1 DEF ConfirmationInv, OutstandingIsUnused
  <2>4. OutstandingIsUnused'
    BY <1>1, <1>2, <2>1, <2>3
    DEF ConfirmationInv, ConfirmationTypeOK, OutstandingIsUnused
  <2>5. AcceptedAtMostOnce'
    BY <1>1, <2>1
    DEF ConfirmationInv, ConfirmationTypeOK, ConfirmedOnceAsShown, AcceptedAtMostOnce
  <2>6. nonceNow <= issued[n].expires
    BY <1>1, <1>4 DEF Expired, Confirmations, ConfirmationInv, ConfirmationTypeOK
  <2>7. AcceptedIsWhatWasShown'
    BY <1>1, <2>1, <2>6 DEF AcceptedIsWhatWasShown
  <2> QED  BY <2>2, <2>4, <2>5, <2>7 DEF ConfirmationInv, ConfirmedOnceAsShown
<1> QED  BY <1>3, <1>4

\* Every step keeps the invariant; a restart leaves nothing outstanding.
LEMMA ConfirmationStep ==
  ConfirmationInv /\ [ConfirmationNext]_confirmationVars => ConfirmationInv'
<1> SUFFICES ASSUME ConfirmationInv, [ConfirmationNext]_confirmationVars
             PROVE  ConfirmationInv'
  OBVIOUS
<1> USE DEF ConfirmationInv, ConfirmationTypeOK, OutstandingIsUnused,
            ConfirmedOnceAsShown, AcceptedAtMostOnce, AcceptedIsWhatWasShown
<1>1. CASE NonceTick
  BY <1>1 DEF NonceTick
<1>2. CASE ConfirmationRestart
  BY <1>2 DEF ConfirmationRestart
<1>3. ASSUME NEW p \in Principals, NEW o \in LiveOrders, NEW n \in Nonces,
             IssueLiveConfirmation(p, o, n)
      PROVE  ConfirmationInv'
  BY <1>3, IssueKeeps
<1>4. ASSUME NEW p \in Principals, NEW n \in Nonces, NEW d \in shown,
             ConsumeLiveConfirmation(p, n, d)
      PROVE  ConfirmationInv'
  BY <1>4, ConsumeKeeps
<1>5. CASE UNCHANGED confirmationVars
  BY <1>5 DEF confirmationVars
<1> QED  BY <1>1, <1>2, <1>3, <1>4, <1>5 DEF ConfirmationNext

\* TelegramCommandSecurity: for any principals, orders, nonces and time to live,
\* a LIVE order is confirmed at most once and only as it was shown, although a
\* restart forgets what was consumed.
THEOREM ConfirmationIsOneTime == ConfirmationSpec => []ConfirmedOnceAsShown
<1>1. ConfirmationInv => ConfirmedOnceAsShown
  BY DEF ConfirmationInv
<1> QED  BY ConfirmationInitially, ConfirmationStep, <1>1, PTL DEF ConfirmationSpec

-----------------------------------------------------------------------------
(* The escalation ledger.                                                  *)

Alerts == [severity : Severities \cup {"none"}, next : Int, attempts : Int,
           acknowledged : BOOLEAN, resolved : BOOLEAN]
Recordings == [step : {"idle", "insert", "update"}, severity : Severities \cup {"none"},
               now : Int, overtaken : BOOLEAN]

\* An update that nothing overtook updates an open alert.
AlertInv ==
  /\ alert \in Alerts /\ recording \in [Monitors -> Recordings] /\ alertNow \in Int
  /\ \A m \in Monitors :
       recording[m].step = "update" /\ ~recording[m].overtaken => ~alert.resolved
  /\ RecordedAlertIsOpen

LEMMA AlertInitInv == AlertInit => AlertInv
  <1> SUFFICES ASSUME AlertInit PROVE AlertInv
    OBVIOUS
  <1>1. NoAlert \in Alerts /\ NotRecording \in Recordings /\ NotRecording.step = "idle"
    BY DEF NoAlert, NotRecording, Alerts, Recordings
  <1>2. \A m \in Monitors : recording[m] = NotRecording
    BY DEF AlertInit
  <1> QED BY <1>1, <1>2 DEF AlertInit, AlertInv, RecordedAlertIsOpen

\* A step on the row alone that resolves nothing.
LEMMA RowStep ==
  ASSUME AlertInv, NEW a \in Alerts, alert' = a, a.resolved = alert.resolved,
         UNCHANGED <<recording, alertNow, settled>>
  PROVE  AlertInv'
  BY DEF AlertInv, RecordedAlertIsOpen

LEMMA RecordWritesInv ==
  ASSUME AlertInv, NEW m \in Monitors, RecordWrites(m)
  PROVE  AlertInv' /\ QuietStep
  <1> DEFINE r == recording[m]
             fresh == [severity |-> r.severity, next |-> r.now + EscalationSeconds,
                       attempts |-> 0, acknowledged |-> FALSE, resolved |-> FALSE]
             kept == [alert EXCEPT !.severity = r.severity]
  <1>1. r \in Recordings /\ r.step # "idle" /\ UNCHANGED alertNow
        /\ recording' = [recording EXCEPT ![m] = NotRecording]
        /\ settled' = [open |-> ~alert'.resolved, overtaken |-> r.overtaken]
    BY DEF RecordWrites, AlertInv
  <1>2. NotRecording \in Recordings /\ NotRecording.step = "idle"
    BY DEF NotRecording, Recordings
  <1>3. recording' \in [Monitors -> Recordings]
        /\ \A q \in Monitors : recording'[q].step # "idle" => recording'[q] = recording[q]
    BY <1>1, <1>2 DEF AlertInv
  <1>4. CASE r.step = "insert"
    <2>1. alert' = fresh
      BY <1>4 DEF RecordWrites
    <2>2. fresh \in Alerts /\ fresh.resolved = FALSE /\ fresh.acknowledged = FALSE
      BY <1>1, EscalationAssumption DEF Alerts, Recordings
    <2> HIDE DEF fresh
    <2>3. settled'.open
      BY <1>1, <2>1, <2>2
    <2> QED BY <1>1, <1>3, <2>1, <2>2, <2>3 DEF AlertInv, RecordedAlertIsOpen, QuietStep
  <1>5. CASE r.step # "insert"
    <2>1. alert' = kept /\ r.step = "update"
      BY <1>1, <1>5 DEF RecordWrites, Recordings
    <2>2. kept \in Alerts /\ kept.resolved = alert.resolved /\ kept.attempts = alert.attempts
          /\ kept.next = alert.next
      BY <1>1 DEF AlertInv, Alerts, Recordings
    <2> HIDE DEF kept
    <2>3. settled'.open \/ settled'.overtaken
      BY <1>1, <2>1, <2>2 DEF AlertInv
    <2>4. \A q \in Monitors : recording'[q].step = "update" /\ ~recording'[q].overtaken => ~alert'.resolved
      BY <1>3, <2>1, <2>2 DEF AlertInv
    <2> QED BY <1>1, <1>3, <2>1, <2>2, <2>3, <2>4 DEF AlertInv, RecordedAlertIsOpen, QuietStep
  <1> QED BY <1>4, <1>5

LEMMA RecordReadsInv ==
  ASSUME AlertInv, NEW m \in Monitors, NEW s \in Severities, RecordReads(m, s)
  PROVE  AlertInv' /\ QuietStep
  <1> DEFINE x == [step |-> IF Reopens THEN "insert" ELSE "update", severity |-> s,
                   now |-> alertNow, overtaken |-> FALSE]
  <1>1. recording' = [recording EXCEPT ![m] = x] /\ UNCHANGED <<alert, alertNow, settled>>
    BY DEF RecordReads
  <1>2. x \in Recordings /\ (x.step = "update" => ~alert.resolved)
    BY DEF Recordings, Reopens, AlertInv
  <1> HIDE DEF x
  <1>3. recording' \in [Monitors -> Recordings]
        /\ \A q \in Monitors : recording'[q] = IF q = m THEN x ELSE recording[q]
    BY <1>1, <1>2 DEF AlertInv
  <1> QED BY <1>1, <1>2, <1>3 DEF AlertInv, RecordedAlertIsOpen, QuietStep

LEMMA RowActionsInv ==
  ASSUME AlertInv, AlertTick \/ PagerAsks \/ MarkEscalated \/ Acknowledge
  PROVE  AlertInv' /\ QuietStep
  <1>1. CASE AlertTick \/ PagerAsks
    BY <1>1 DEF AlertTick, PagerAsks, AlertInv, RecordedAlertIsOpen, QuietStep
  <1>2. CASE Acknowledge
    <2> DEFINE a == [alert EXCEPT !.acknowledged = TRUE]
    <2>1. alert' = a /\ UNCHANGED <<recording, alertNow, settled>>
      BY <1>2 DEF Acknowledge
    <2>2. a \in Alerts /\ a.resolved = alert.resolved /\ a.attempts = alert.attempts
          /\ a.next = alert.next
      BY DEF AlertInv, Alerts
    <2> HIDE DEF a
    <2> QED BY <2>1, <2>2, RowStep DEF QuietStep
  <1>3. CASE MarkEscalated /\ Active /\ ~alert.acknowledged
    <2> DEFINE a == [alert EXCEPT !.attempts = alert.attempts + 1, !.next = alertNow + EscalationSeconds]
    <2>1. alert' = a /\ UNCHANGED <<recording, alertNow, settled>>
      BY <1>3 DEF MarkEscalated
    <2>2. alert \in Alerts /\ alert.attempts + 1 \in Int /\ alertNow + EscalationSeconds \in Int
      BY EscalationAssumption DEF AlertInv, Alerts
    <2>3. a \in Alerts /\ a.resolved = alert.resolved
      BY <2>2 DEF Alerts
    <2> HIDE DEF a
    <2> QED BY <1>3, <2>1, <2>3, RowStep DEF QuietStep
  <1>4. CASE MarkEscalated /\ ~(Active /\ ~alert.acknowledged)
    <2>1. UNCHANGED <<alert, recording, alertNow, settled>>
      BY <1>4 DEF MarkEscalated
    <2> QED BY <2>1 DEF AlertInv, RecordedAlertIsOpen, QuietStep
  <1> QED BY <1>1, <1>2, <1>3, <1>4

LEMMA ResolveInv ==
  ASSUME AlertInv, Resolve PROVE AlertInv' /\ QuietStep
  <1> DEFINE a == [alert EXCEPT !.resolved = TRUE]
  <1>1. alert' = a /\ UNCHANGED <<alertNow, settled>>
    BY DEF Resolve
  <1>2. a \in Alerts /\ a.resolved = TRUE
    BY DEF AlertInv, Alerts
  <1> HIDE DEF a
  <1>3. ASSUME NEW m \in Monitors
        PROVE  recording'[m] \in Recordings /\ recording'[m].step = recording[m].step
               /\ (recording[m].step # "idle" => recording'[m].overtaken)
    <2> DEFINE x == [recording[m] EXCEPT !.overtaken = recording[m].step # "idle"]
    <2>1. recording'[m] = x
      BY DEF Resolve
    <2>2. (recording[m].step # "idle") \in BOOLEAN /\ recording[m] \in Recordings
      BY DEF AlertInv
    <2>3. x \in Recordings /\ x.step = recording[m].step
          /\ (recording[m].step # "idle" => x.overtaken)
      BY <2>2 DEF Recordings
    <2> QED BY <2>1, <2>3
  <1>4. recording' \in [Monitors -> Recordings]
    <2>1. recording' = [m \in Monitors |-> recording'[m]]
      BY DEF Resolve
    <2> QED BY <1>3, <2>1
  <1>5. QuietStep
    BY <1>1, <1>2 DEF QuietStep, Active
  <1> QED BY <1>1, <1>2, <1>3, <1>4, <1>5 DEF AlertInv, RecordedAlertIsOpen

\* PersistentEscalationLedger: an acknowledged alert is not escalated again, not even by a
\* pager that was given it before, and an alert that comes back after its resolution is
\* open when record returns, unless a resolve came between record's own statements.  For
\* any number of monitors and of calls.
THEOREM AlertsStayFaithful == AlertSpec => AlertsAreFaithful
<1>1. AlertInv /\ [AlertNext]_alertVars => AlertInv'
  <2> SUFFICES ASSUME AlertInv, [AlertNext]_alertVars PROVE AlertInv'
    OBVIOUS
  <2>1. CASE UNCHANGED alertVars
    BY <2>1 DEF alertVars, AlertInv, RecordedAlertIsOpen
  <2>2. CASE AlertNext
    BY <2>2, RowActionsInv, ResolveInv, RecordWritesInv, RecordReadsInv DEF AlertNext
  <2> QED BY <2>1, <2>2
<1>2. AlertInv /\ [AlertNext]_alertVars => [QuietStep /\ RecordedAlertIsOpen']_alertVars
  <2> SUFFICES ASSUME AlertInv, AlertNext PROVE QuietStep /\ RecordedAlertIsOpen'
    OBVIOUS
  <2> QED BY RowActionsInv, ResolveInv, RecordWritesInv, RecordReadsInv DEF AlertNext, AlertInv
<1> QED BY <1>1, <1>2, AlertInitInv, PTL DEF AlertSpec, AlertsAreFaithful
-----------------------------------------------------------------------------
(* RaceResolution: a finished order does not change any more, so what was    *)
(* read of it as finished is still true at the verdict and ever after.       *)

Statuses == TERMINAL_STATUS \cup OPEN_STATUS \cup {UNKNOWN}
RaceOrders == [status : Statuses, qty : Nat]
Evidences == [asked : {"nothing", "replace", "outcome", "cancel"}, old : RaceOrders,
              replacement : Statuses, user : Statuses, opened : Statuses, fill : Nat,
              reads : SUBSET {"old", "replacement", "user", "opened", "fills"}]
RaceVerdicts == [kind : {"none", "reconcile", "safe", "manual", "outcome", "retry"},
             status : Statuses, qty : Nat]

\* A live order has something left to fill; one filled completely is FILLED.
OldIsCoherent(o) ==
  /\ o \in RaceOrders
  /\ o.qty <= OrderQty
  /\ o.status \in OPEN_STATUS => o.qty < OrderQty
  /\ o.qty = OrderQty => o.status = "FILLED"
  /\ o.status = UNKNOWN => o.qty = 0

\* Evidence is an earlier state of the order, and the present one where it was
\* finished by then.
EvidenceIsPast(e, o) ==
  /\ e \in Evidences
  /\ e.old.qty <= o.qty /\ e.fill <= o.qty
  /\ e.old.status \in TERMINAL_STATUS => e.old = o
  /\ e.user \in TERMINAL_STATUS => e.user = o.status
  /\ e.opened \notin TERMINAL_STATUS
  /\ "fills" \in e.reads /\ e.user \in TERMINAL_STATUS => e.fill = o.qty
  /\ e.asked = "outcome" /\ "fills" \notin e.reads => e.fill = 0

VerdictHolds(v, o) ==
  /\ v \in RaceVerdicts
  /\ v.kind = "safe" => o.status \in TERMINAL_STATUS /\ v.qty = o.qty
  /\ v.kind = "outcome" /\ v.status \in TERMINAL_STATUS
       => o.status = v.status /\ o.qty = v.qty

RaceInv ==
  /\ OldIsCoherent(old) /\ replacement \in RaceOrders
  /\ knownQty \in Nat /\ knownQty <= old.qty
  /\ EvidenceIsPast(evidence, old)
  /\ VerdictHolds(verdict, old)

LEMMA RaceInitInv == RaceInit => RaceInv
  <1> SUFFICES ASSUME RaceInit PROVE RaceInv
    OBVIOUS
  <1>1. NoOrder \in RaceOrders /\ NoOrder.status = UNKNOWN /\ NoOrder.qty = 0
        /\ UNKNOWN \notin TERMINAL_STATUS /\ UNKNOWN \notin OPEN_STATUS
    BY DEF NoOrder, RaceOrders, Statuses, UNKNOWN, TERMINAL_STATUS, OPEN_STATUS
  <1>2. OldIsCoherent(NoOrder)
    BY <1>1, RaceAssumption DEF OldIsCoherent
  <1>3. NoEvidence \in Evidences /\ EvidenceIsPast(NoEvidence, NoOrder)
    BY <1>1 DEF NoEvidence, Evidences, EvidenceIsPast, Statuses
  <1>4. VerdictHolds(NoVerdict, NoOrder)
    BY DEF NoVerdict, VerdictHolds, RaceVerdicts, Statuses
  <1> QED BY <1>1, <1>2, <1>3, <1>4 DEF RaceInit, RaceInv

\* NoEvidence says nothing of any order.
LEMMA NoEvidenceIsPast ==
  ASSUME NEW o \in RaceOrders PROVE EvidenceIsPast(NoEvidence, o)
  <1>1. NoOrder \in RaceOrders /\ NoOrder.status = UNKNOWN /\ NoOrder.qty = 0
        /\ UNKNOWN \notin TERMINAL_STATUS
    BY DEF NoOrder, RaceOrders, Statuses, UNKNOWN, TERMINAL_STATUS
  <1>2. o.qty \in Nat
    BY DEF RaceOrders
  <1> QED BY <1>1, <1>2 DEF NoEvidence, Evidences, EvidenceIsPast, Statuses

\* A step of the exchange on an order that is not finished.
LEMMA OldStep ==
  ASSUME RaceInv, NEW o, OldIsCoherent(o), old' = o, old.status \notin TERMINAL_STATUS,
         o.qty >= old.qty, UNCHANGED <<knownQty, evidence, verdict, replacement>>
  PROVE  RaceInv'
  <1>1. old.qty \in Nat /\ o.qty \in Nat /\ evidence.fill \in Nat /\ evidence.old.qty \in Nat
    BY DEF RaceInv, OldIsCoherent, RaceOrders, EvidenceIsPast, Evidences
  <1>2. EvidenceIsPast(evidence, o)
    BY <1>1 DEF RaceInv, EvidenceIsPast
  <1>3. VerdictHolds(verdict, o)
    BY DEF RaceInv, VerdictHolds
  <1> QED BY <1>1, <1>2, <1>3 DEF RaceInv

LEMMA FilledIsCoherent ==
  ASSUME NEW o, OldIsCoherent(o), o.status \in OPEN_STATUS
  PROVE  OldIsCoherent(Filled(o)) /\ Filled(o).qty = o.qty + 1
  <1>1. o.qty \in Nat /\ o.qty < OrderQty /\ o.qty + 1 \in Nat
    BY DEF OldIsCoherent, RaceOrders
  <1> DEFINE s == IF o.qty + 1 = OrderQty THEN "FILLED"
                  ELSE IF o.status = "PENDING_CANCEL" THEN o.status ELSE "PARTIALLY_FILLED"
  <1>2. s \in Statuses /\ s # UNKNOWN /\ (s \in OPEN_STATUS => o.qty + 1 # OrderQty)
        /\ (o.qty + 1 = OrderQty => s = "FILLED")
    BY DEF Statuses, TERMINAL_STATUS, OPEN_STATUS, UNKNOWN
  <1>3. Filled(o) = [status |-> s, qty |-> o.qty + 1]
    BY DEF Filled
  <1> HIDE DEF s
  <1> QED BY <1>1, <1>2, <1>3, RaceAssumption DEF OldIsCoherent, RaceOrders

LEMMA ExchangeStepInv ==
  ASSUME RaceInv,
         OldFills \/ CancelArrives \/ CancelTakesEffect
           \/ \E status \in {"NEW", "REJECTED"} : OldArrives(status)
  PROVE  RaceInv'
  <1>0. OldIsCoherent(old) /\ old \in RaceOrders /\ old.qty \in Nat
    BY DEF RaceInv, OldIsCoherent, RaceOrders
  <1>1. CASE OldFills
    BY <1>0, <1>1, OldStep, FilledIsCoherent DEF OldFills, TERMINAL_STATUS, OPEN_STATUS
  <1>2. ASSUME CancelArrives \/ CancelTakesEffect PROVE RaceInv'
    <2> PICK s \in {"PENDING_CANCEL", "CANCELED"} : old' = [old EXCEPT !.status = s]
      BY <1>2 DEF CancelArrives, CancelTakesEffect
    <2> DEFINE o == [old EXCEPT !.status = s]
    <2>1. old.status \in OPEN_STATUS /\ UNCHANGED <<knownQty, evidence, verdict, replacement>>
      BY <1>2 DEF CancelArrives, CancelTakesEffect, OPEN_STATUS
    <2>2. o \in RaceOrders /\ o.status = s /\ o.qty = old.qty
      BY <1>0 DEF RaceOrders, Statuses, TERMINAL_STATUS, OPEN_STATUS
    <2> HIDE DEF o
    <2>3. OldIsCoherent(o)
      BY <1>0, <2>1, <2>2, RaceAssumption DEF OldIsCoherent, UNKNOWN
    <2>4. old' = o /\ old.status \notin TERMINAL_STATUS
      BY <2>1 DEF o, OPEN_STATUS, TERMINAL_STATUS
    <2> QED BY <1>0, <2>1, <2>2, <2>3, <2>4, OldStep
  <1>3. ASSUME NEW status \in {"NEW", "REJECTED"}, OldArrives(status) PROVE RaceInv'
    <2> DEFINE o == [status |-> status, qty |-> 0]
    <2>1. old' = o /\ old.status = UNKNOWN /\ old.qty = 0
          /\ UNCHANGED <<knownQty, evidence, verdict, replacement>>
      BY <1>3 DEF OldArrives, NoOrder
    <2>2. OldIsCoherent(o) /\ o.qty = 0
      BY RaceAssumption DEF OldIsCoherent, RaceOrders, Statuses, TERMINAL_STATUS, OPEN_STATUS, UNKNOWN
    <2> HIDE DEF o
    <2> QED BY <2>1, <2>2, OldStep DEF UNKNOWN, TERMINAL_STATUS
  <1> QED BY <1>1, <1>2, <1>3

LEMMA OtherStepInv ==
  ASSUME RaceInv,
         \/ ReplacementFills \/ FillReported \/ AckRecovered \/ SendReplacement
         \/ \E status \in {"NEW", "REJECTED"}, gone \in BOOLEAN : ReplacementArrives(status, gone)
  PROVE  RaceInv'
  <1>1. CASE FillReported
    <2>1. knownQty \in Nat /\ old.qty \in Nat
      BY DEF RaceInv, OldIsCoherent, RaceOrders
    <2> QED BY <1>1, <2>1 DEF FillReported, RaceInv
  <1>2. CASE AckRecovered \/ SendReplacement
    BY <1>2 DEF AckRecovered, SendReplacement, RaceInv
  <1>3. CASE ReplacementFills
    <2>1. Filled(replacement) \in RaceOrders
      <3>1. replacement.qty + 1 \in Nat /\ replacement.status \in Statuses
        BY DEF RaceInv, RaceOrders
      <3> QED BY <3>1 DEF Filled, RaceOrders, Statuses, TERMINAL_STATUS, OPEN_STATUS
    <2> QED BY <1>3, <2>1 DEF ReplacementFills, RaceInv
  <1>4. ASSUME NEW status \in {"NEW", "REJECTED"}, NEW gone \in BOOLEAN,
               ReplacementArrives(status, gone)
        PROVE  RaceInv'
    <2>1. replacement' \in RaceOrders
      BY <1>4 DEF ReplacementArrives, RaceOrders, Statuses, TERMINAL_STATUS, OPEN_STATUS
    <2> QED BY <1>4, <2>1 DEF ReplacementArrives, RaceInv
  <1> QED BY <1>1, <1>2, <1>3, <1>4

\* A step that only reads.
LEMMA EvidenceStep ==
  ASSUME RaceInv, NEW e, EvidenceIsPast(e, old), evidence' = e,
         UNCHANGED <<old, replacement, knownQty, verdict>>
  PROVE  RaceInv'
  BY DEF RaceInv

LEMMA AskInv ==
  ASSUME RaceInv, NEW question \in {"replace", "outcome", "cancel"}, Ask(question)
  PROVE  RaceInv'
  <1> DEFINE e == [NoEvidence EXCEPT !.asked = question]
  <1>1. evidence' = e /\ UNCHANGED <<old, replacement, knownQty, verdict>>
    BY DEF Ask
  <1>2. old \in RaceOrders /\ NoEvidence \in Evidences /\ EvidenceIsPast(NoEvidence, old)
    BY NoEvidenceIsPast DEF RaceInv, OldIsCoherent, EvidenceIsPast
  <1>3. e \in Evidences /\ e.old = NoEvidence.old /\ e.fill = NoEvidence.fill
        /\ e.user = NoEvidence.user /\ e.opened = NoEvidence.opened
        /\ e.reads = NoEvidence.reads /\ e.fill = 0
    BY <1>2 DEF Evidences, NoEvidence
  <1> HIDE DEF e
  <1>4. EvidenceIsPast(e, old)
    BY <1>2, <1>3 DEF EvidenceIsPast
  <1> QED BY <1>1, <1>4, EvidenceStep

LEMMA ReadReplaceInv ==
  ASSUME RaceInv, NEW fails \in BOOLEAN, ReadOld(fails) \/ ReadReplacement(fails)
  PROVE  RaceInv'
  <1>0. /\ evidence \in Evidences /\ EvidenceIsPast(evidence, old) /\ OldIsCoherent(old)
        /\ old \in RaceOrders /\ old.qty \in Nat
        /\ evidence.asked = "replace" /\ UNCHANGED <<old, replacement, knownQty, verdict>>
    BY DEF RaceInv, EvidenceIsPast, OldIsCoherent, RaceOrders, ReadOld, ReadReplacement
  <1>1. CASE ReadOld(fails)
    <2> DEFINE o == IF fails THEN NoOrder ELSE old
               r == evidence.reads \cup {"old"}
               e == [evidence EXCEPT !.reads = r, !.old = o]
    <2>1. evidence' = e
      BY <1>1 DEF ReadOld
    <2>2. NoOrder \in RaceOrders /\ NoOrder.qty = 0 /\ NoOrder.status \notin TERMINAL_STATUS
      BY DEF NoOrder, RaceOrders, Statuses, UNKNOWN, TERMINAL_STATUS
    <2>3. o \in RaceOrders /\ o.qty <= old.qty /\ (o.status \in TERMINAL_STATUS => o = old)
      BY <1>0, <2>2
    <2>4. r \in SUBSET {"old", "replacement", "user", "opened", "fills"}
          /\ ("fills" \in r <=> "fills" \in evidence.reads)
      BY <1>0 DEF Evidences
    <2> HIDE DEF o, r
    <2>5. e \in Evidences /\ e.old = o /\ e.reads = r /\ e.fill = evidence.fill
          /\ e.user = evidence.user /\ e.opened = evidence.opened /\ e.asked = "replace"
      BY <1>0, <2>3, <2>4 DEF Evidences
    <2> HIDE DEF e
    <2>6. EvidenceIsPast(e, old)
      BY <1>0, <2>3, <2>4, <2>5 DEF EvidenceIsPast
    <2> QED BY <1>0, <2>1, <2>6, EvidenceStep
  <1>2. CASE ReadReplacement(fails)
    <2> DEFINE s == IF fails THEN UNKNOWN ELSE replacement.status
               r == evidence.reads \cup {"replacement"}
               e == [evidence EXCEPT !.reads = r, !.replacement = s]
    <2>1. evidence' = e
      BY <1>2 DEF ReadReplacement
    <2>2. s \in Statuses
      BY DEF RaceInv, RaceOrders, Statuses
    <2>3. r \in SUBSET {"old", "replacement", "user", "opened", "fills"}
          /\ ("fills" \in r <=> "fills" \in evidence.reads)
      BY <1>0 DEF Evidences
    <2> HIDE DEF s, r
    <2>4. e \in Evidences /\ e.old = evidence.old /\ e.reads = r /\ e.fill = evidence.fill
          /\ e.user = evidence.user /\ e.opened = evidence.opened /\ e.asked = "replace"
      BY <1>0, <2>2, <2>3 DEF Evidences
    <2> HIDE DEF e
    <2>5. EvidenceIsPast(e, old)
      BY <1>0, <2>3, <2>4 DEF EvidenceIsPast
    <2> QED BY <1>0, <2>1, <2>5, EvidenceStep
  <1> QED BY <1>1, <1>2

LEMMA ReadOutcomeInv ==
  ASSUME RaceInv, ReadOpenOrders \/ ReadFills \/ \E fails \in BOOLEAN : ReadUser(fails)
  PROVE  RaceInv'
  <1>0. /\ evidence \in Evidences /\ EvidenceIsPast(evidence, old) /\ OldIsCoherent(old)
        /\ old \in RaceOrders /\ old.qty \in Nat /\ old.status \in Statuses
        /\ evidence.asked = "outcome" /\ UNCHANGED <<old, replacement, knownQty, verdict>>
    BY DEF RaceInv, EvidenceIsPast, OldIsCoherent, RaceOrders, ReadOpenOrders, ReadFills, ReadUser
  <1>1. ASSUME NEW fails \in BOOLEAN, ReadUser(fails) PROVE RaceInv'
    <2> DEFINE s == IF fails THEN UNKNOWN ELSE old.status
               r == {"user"}
               e == [evidence EXCEPT !.reads = r, !.user = s]
    <2>1. evidence' = e /\ evidence.reads = {}
      BY <1>1 DEF ReadUser
    <2>2. s \in Statuses /\ (s \in TERMINAL_STATUS => s = old.status)
      BY <1>0 DEF Statuses, UNKNOWN, TERMINAL_STATUS
    <2>3. r \in SUBSET {"old", "replacement", "user", "opened", "fills"} /\ "fills" \notin r
      OBVIOUS
    <2>4. evidence.fill = 0
      BY <1>0, <2>1 DEF EvidenceIsPast
    <2> HIDE DEF s, r
    <2>5. e \in Evidences /\ e.old = evidence.old /\ e.reads = r /\ e.fill = evidence.fill
          /\ e.user = s /\ e.opened = evidence.opened /\ e.asked = "outcome"
      BY <1>0, <2>2, <2>3 DEF Evidences
    <2> HIDE DEF e
    <2>6. EvidenceIsPast(e, old)
      BY <1>0, <2>2, <2>3, <2>4, <2>5 DEF EvidenceIsPast
    <2> QED BY <1>0, <2>1, <2>6, EvidenceStep
  <1>2. CASE ReadOpenOrders
    <2> DEFINE s == IF old.status \in OPEN_STATUS THEN old.status ELSE UNKNOWN
               r == {"user", "opened"}
               e == [evidence EXCEPT !.reads = r, !.opened = s]
    <2>1. evidence' = e /\ "fills" \notin evidence.reads
      BY <1>2 DEF ReadOpenOrders
    <2>2. s \in Statuses /\ s \notin TERMINAL_STATUS
      BY <1>0 DEF Statuses, UNKNOWN, TERMINAL_STATUS, OPEN_STATUS
    <2>3. r \in SUBSET {"old", "replacement", "user", "opened", "fills"} /\ "fills" \notin r
      OBVIOUS
    <2>4. evidence.fill = 0
      BY <1>0, <2>1 DEF EvidenceIsPast
    <2> HIDE DEF s, r
    <2>5. e \in Evidences /\ e.old = evidence.old /\ e.reads = r /\ e.fill = evidence.fill
          /\ e.user = evidence.user /\ e.opened = s /\ e.asked = "outcome"
      BY <1>0, <2>2, <2>3 DEF Evidences
    <2> HIDE DEF e
    <2>6. EvidenceIsPast(e, old)
      BY <1>0, <2>2, <2>3, <2>4, <2>5 DEF EvidenceIsPast
    <2> QED BY <1>0, <2>1, <2>6, EvidenceStep
  <1>3. CASE ReadFills
    <2> DEFINE q == old.qty
               r == evidence.reads \cup {"fills"}
               e == [evidence EXCEPT !.reads = r, !.fill = q]
    <2>1. evidence' = e
      BY <1>3 DEF ReadFills
    <2>2. q \in Nat /\ q = old.qty
      BY <1>0
    <2>3. r \in SUBSET {"old", "replacement", "user", "opened", "fills"} /\ "fills" \in r
      BY <1>0 DEF Evidences
    <2> HIDE DEF q, r
    <2>4. e \in Evidences /\ e.old = evidence.old /\ e.reads = r /\ e.fill = q
          /\ e.user = evidence.user /\ e.opened = evidence.opened /\ e.asked = "outcome"
      BY <1>0, <2>2, <2>3 DEF Evidences
    <2> HIDE DEF e
    <2>5. EvidenceIsPast(e, old)
      BY <1>0, <2>2, <2>3, <2>4 DEF EvidenceIsPast
    <2> QED BY <1>0, <2>1, <2>5, EvidenceStep
  <1> QED BY <1>1, <1>2, <1>3

\* A decision drops its evidence.
LEMMA DecideStep ==
  ASSUME RaceInv, NEW k, NEW s, NEW q, Decide(k, s, q),
         VerdictHolds([kind |-> k, status |-> s, qty |-> q], old)
  PROVE  RaceInv'
  <1>1. old \in RaceOrders
    BY DEF RaceInv, OldIsCoherent
  <1> QED BY <1>1, NoEvidenceIsPast DEF RaceInv, Decide

\* A replace is called safe only on a finished order none of whose fills is unknown.
LEMMA ReplaceVerdictInv == ASSUME RaceInv, ResolveReplaceRace PROVE RaceInv'
  <1> DEFINE reasons == ReplaceReasons(evidence) \/ evidence.old.status \notin TERMINAL_STATUS
  <1>0. knownQty \in Nat /\ knownQty <= old.qty /\ old.qty \in Nat /\ evidence.old.qty \in Nat
        /\ (evidence.old.status \in TERMINAL_STATUS => evidence.old = old)
    BY DEF RaceInv, OldIsCoherent, EvidenceIsPast, Evidences, RaceOrders
  <1>1. CASE reasons
    <2>1. Decide("reconcile", UNKNOWN, 0)
      BY <1>1 DEF ResolveReplaceRace
    <2>2. VerdictHolds([kind |-> "reconcile", status |-> UNKNOWN, qty |-> 0], old)
      BY DEF VerdictHolds, RaceVerdicts, Statuses
    <2> QED BY <2>1, <2>2, DecideStep
  <1>2. CASE ~reasons
    <2> DEFINE s == evidence.old.status
    <2>1. Decide("safe", s, knownQty) /\ s \in TERMINAL_STATUS /\ ~(evidence.old.qty > knownQty)
      BY <1>2 DEF ResolveReplaceRace, ReplaceReasons
    <2>2. old.status \in TERMINAL_STATUS /\ knownQty = old.qty
      BY <1>0, <2>1
    <2>3. s \in Statuses
      BY <2>1 DEF Statuses
    <2> HIDE DEF s
    <2>4. VerdictHolds([kind |-> "safe", status |-> s, qty |-> knownQty], old)
      BY <1>0, <2>2, <2>3 DEF VerdictHolds, RaceVerdicts
    <2> QED BY <2>1, <2>4, DecideStep
  <1> QED BY <1>1, <1>2

\* Fills first: with every fill in, a terminal status read earlier is the order's.
LEMMA OutcomeVerdictInv == ASSUME RaceInv, ResolveUnknownOutcome PROVE RaceInv'
  <1> DEFINE s == OutcomeOf(evidence)
             q == evidence.fill
             k == IF s = UNKNOWN THEN "manual" ELSE "outcome"
  <1>1. Decide(k, s, q) /\ "fills" \in evidence.reads
    BY DEF ResolveUnknownOutcome
  <1>2. /\ EvidenceIsPast(evidence, old) /\ evidence \in Evidences /\ OldIsCoherent(old)
        /\ old.qty \in Nat /\ q \in Nat /\ q <= old.qty /\ old.qty <= OrderQty /\ OrderQty \in Nat
        /\ evidence.user \in Statuses /\ evidence.opened \in Statuses
    BY RaceAssumption DEF RaceInv, OldIsCoherent, EvidenceIsPast, Evidences, RaceOrders
  <1>3. \/ s = "FILLED" /\ q = OrderQty
        \/ s = "PARTIALLY_FILLED"
        \/ s = evidence.user
        \/ s = evidence.opened
    BY <1>2, RaceAssumption DEF OutcomeOf
  <1>4. s \in Statuses
    BY <1>2, <1>3 DEF Statuses, TERMINAL_STATUS, OPEN_STATUS
  <1>5. s \in TERMINAL_STATUS => old.status = s /\ old.qty = q
    <2>1. CASE s = "FILLED" /\ q = OrderQty
      BY <1>2, <2>1 DEF OldIsCoherent
    <2>2. CASE s = "PARTIALLY_FILLED"
      BY <2>2 DEF TERMINAL_STATUS
    <2>3. CASE s = evidence.user
      BY <1>1, <1>2, <2>3 DEF EvidenceIsPast
    <2>4. CASE s = evidence.opened
      BY <1>2, <2>4 DEF EvidenceIsPast
    <2> QED BY <1>3, <2>1, <2>2, <2>3, <2>4
  <1> HIDE DEF s
  <1>6. k \in {"manual", "outcome"}
    OBVIOUS
  <1> HIDE DEF k, q
  <1>7. VerdictHolds([kind |-> k, status |-> s, qty |-> q], old)
    BY <1>2, <1>4, <1>5, <1>6 DEF VerdictHolds, RaceVerdicts
  <1> QED BY <1>1, <1>7, DecideStep

\* The query's answer is the order itself.
LEMMA CancelVerdictInv ==
  ASSUME RaceInv, NEW missing \in BOOLEAN, ResolveCancelTimeout(missing) PROVE RaceInv'
  <1> DEFINE o == [kind |-> "outcome", status |-> old.status, qty |-> old.qty]
             t == [kind |-> "retry", status |-> old.status, qty |-> old.qty]
             n == [kind |-> "manual", status |-> UNKNOWN, qty |-> 0]
  <1>1. old.status \in Statuses /\ old.qty \in Nat
    BY DEF RaceInv, OldIsCoherent, RaceOrders
  <1>2. VerdictHolds(o, old) /\ VerdictHolds(t, old) /\ VerdictHolds(n, old)
    BY <1>1 DEF VerdictHolds, RaceVerdicts, Statuses
  <1>3. \/ Decide("manual", UNKNOWN, 0)
        \/ Decide("outcome", old.status, old.qty)
        \/ Decide("retry", old.status, old.qty)
    BY DEF ResolveCancelTimeout
  <1> QED BY <1>2, <1>3, DecideStep

\* race_recovery.py: whatever the exchange did between the reads and whichever of them
\* failed, a replace is called safe, and an order finished, only if it is: for every
\* quantity, any number of fills and any interleaving of reads with the exchange.
THEOREM VerdictsStayTrue == RaceSpec => []VerdictsAreTrue
<1>1. RaceInv /\ [RaceNext]_raceVars => RaceInv'
  <2> SUFFICES ASSUME RaceInv, [RaceNext]_raceVars PROVE RaceInv'
    OBVIOUS
  <2>1. CASE UNCHANGED raceVars
    BY <2>1 DEF raceVars, RaceInv
  <2>2. CASE RaceNext
    BY <2>2, ExchangeStepInv, OtherStepInv, AskInv, ReadReplaceInv, ReadOutcomeInv,
       ReplaceVerdictInv, OutcomeVerdictInv, CancelVerdictInv DEF RaceNext
  <2> QED BY <2>1, <2>2
<1>2. RaceInv => VerdictsAreTrue
  BY DEF RaceInv, VerdictHolds, VerdictsAreTrue, SafeReplaceIsSettled, FinishedIsTrue
<1> QED BY <1>1, <1>2, RaceInitInv, PTL DEF RaceSpec

-----------------------------------------------------------------------------
(* PublicFeed: while no gap and no disorder is counted, what was observed is  *)
(* an interval that ends at the last final id; while nothing at all is        *)
(* counted, that id's update was no older than the delay limit on arrival.    *)
(* While the clock only moves forward nothing was heard after the connection  *)
(* was lost.                                                                  *)

FeedMessages == [stream : Streams, first : Int, final : Int, time : Int]
Disorder == {"sequence_gaps", "out_of_order_events"}

FeedTypeOK ==
  /\ emittedAt \in Seq(Nat) /\ wire \in Seq(FeedMessages)
  /\ feedNow \in Nat /\ lastMessageAt \in Int /\ lastDepthFinal \in Int
  /\ stepped \in BOOLEAN /\ depthHeardAt \in Int /\ downSince \in Int

Sent(e, times) ==
  IsDepth(e) =>
    1 <= e.first /\ e.first <= e.final /\ e.final <= Len(times) /\ e.time = times[e.final]

WireIsSent(w, times) == \A i \in 1..Len(w) : Sent(w[i], times)

ObservedIsInterval(seen, last, c, times) ==
  \/ last = Unset /\ seen = {}
  \/ /\ last \in 1..Len(times)
     /\ c \cap Disorder = {} => \E a \in 1..last : seen = a..last

TimesAreOrdered(times, now, back) ==
  ~back => \A i \in 1..Len(times) :
             times[i] <= now /\ \A j \in i..Len(times) : times[i] <= times[j]

HeardBeforeLoss(at, now, state, since, back) ==
  ~back => at <= now /\ (state # "up" => at <= since)

LastIsRecent(last, at, c, times) ==
  c = {} /\ at # Unset => last \in 1..Len(times) /\ times[last] >= at - MaxEventDelay

FeedInv ==
  /\ FeedTypeOK
  /\ WireIsSent(wire, emittedAt)
  /\ ObservedIsInterval(observed, lastDepthFinal, counted, emittedAt)
  /\ TimesAreOrdered(emittedAt, feedNow, stepped)
  /\ LastIsRecent(lastDepthFinal, depthHeardAt, counted, emittedAt)
  /\ HeardBeforeLoss(lastMessageAt, feedNow, link, downSince, stepped)

LEMMA FeedInitInv == FeedInit => FeedInv
  <1> SUFFICES ASSUME FeedInit PROVE FeedInv
    OBVIOUS
  <1>1. emittedAt = <<>> /\ wire = <<>> /\ Len(emittedAt) = 0 /\ Len(wire) = 0
    BY DEF FeedInit
  <1>2. FeedTypeOK
    <2>1. <<>> \in Seq(Nat) /\ <<>> \in Seq(FeedMessages)
      OBVIOUS
    <2>2. emittedAt \in Seq(Nat) /\ wire \in Seq(FeedMessages)
      BY <1>1, <2>1, Zenon
    <2>3. lastMessageAt \in Int /\ lastDepthFinal \in Int /\ feedNow \in Nat /\ stepped \in BOOLEAN
          /\ depthHeardAt \in Int /\ downSince \in Int
      <3>1. lastMessageAt = -1 /\ lastDepthFinal = -1 /\ feedNow = 0 /\ depthHeardAt = -1 /\ downSince = 0
        BY DEF FeedInit, Unset
      <3>2. stepped \in BOOLEAN
        BY Zenon DEF FeedInit
      <3> QED BY <3>1, <3>2
    <2> QED BY <2>2, <2>3, Zenon DEF FeedTypeOK
  <1>3. WireIsSent(wire, emittedAt) /\ TimesAreOrdered(emittedAt, feedNow, stepped)
    BY <1>1 DEF WireIsSent, TimesAreOrdered
  <1>4. ObservedIsInterval(observed, lastDepthFinal, counted, emittedAt)
        /\ LastIsRecent(lastDepthFinal, depthHeardAt, counted, emittedAt)
    BY DEF FeedInit, ObservedIsInterval, LastIsRecent
  <1>5. HeardBeforeLoss(lastMessageAt, feedNow, link, downSince, stepped)
    <2>1. lastMessageAt = -1 /\ feedNow = 0 /\ downSince = 0
      BY DEF FeedInit, Unset
    <2> QED BY <2>1 DEF HeardBeforeLoss
  <1> QED BY <1>2, <1>3, <1>4, <1>5 DEF FeedInv

LEMMA FeedInvTruthful == FeedInv => HealthIsTruthful
  <1> SUFFICES ASSUME FeedInv PROVE HealthIsTruthful
    OBVIOUS
  <1>0. DOMAIN emittedAt = 1..Len(emittedAt) /\ Len(emittedAt) \in Nat
        /\ \A i \in 1..Len(emittedAt) : emittedAt[i] \in Nat
    BY DEF FeedInv, FeedTypeOK
  <1>1. MissedIsCounted
    <2> SUFFICES ASSUME NEW u \in DOMAIN emittedAt \ observed, NEW a \in observed, NEW b \in observed,
                        a < u, u < b, counted \cap Disorder = {}
                 PROVE  FALSE
      BY DEF MissedIsCounted, Disorder
    <2>1. PICK m \in 1..lastDepthFinal : observed = m..lastDepthFinal
      BY DEF FeedInv, ObservedIsInterval
    <2>2. lastDepthFinal \in Int
      BY DEF FeedInv, FeedTypeOK
    <2> QED BY <1>0, <2>1, <2>2
  <1>2. DepthIsCurrent
    <2> SUFFICES ASSUME Healthy, ~stepped, NEW u \in DOMAIN emittedAt,
                        NEW first \in observed, first <= u,
                        emittedAt[u] < depthHeardAt - MaxEventDelay
                 PROVE  u \in observed
      BY DEF DepthIsCurrent
    <2>1. counted = {}
      BY DEF Healthy
    <2>2. depthHeardAt \in Int /\ MaxEventDelay \in Nat
      BY FeedAssumption DEF FeedInv, FeedTypeOK
    <2>3. depthHeardAt # Unset
      BY <1>0, <2>2 DEF Unset
    <2>4. /\ lastDepthFinal \in 1..Len(emittedAt)
          /\ emittedAt[lastDepthFinal] >= depthHeardAt - MaxEventDelay
      BY <2>1, <2>3 DEF FeedInv, LastIsRecent
    <2>5. PICK m \in 1..lastDepthFinal : observed = m..lastDepthFinal
      BY <2>1, <2>4 DEF FeedInv, ObservedIsInterval, Unset
    <2>6. emittedAt[u] < emittedAt[lastDepthFinal]
      BY <1>0, <2>2, <2>4
    <2>7. u < lastDepthFinal
      BY <1>0, <2>4, <2>6 DEF FeedInv, TimesAreOrdered
    <2>8. lastDepthFinal \in Int /\ u \in Int /\ m \in Int /\ first \in m..lastDepthFinal
      BY <1>0, <2>4, <2>5
    <2>9. u \in m..lastDepthFinal
      BY <2>7, <2>8
    <2> QED BY <2>5, <2>9
  <1>3. LostLinkIsStale
    <2> SUFFICES ASSUME link # "up", ~stepped, feedNow - downSince > StaleAfter PROVE IsStale
      BY DEF LostLinkIsStale
    <2>1. feedNow \in Nat /\ lastMessageAt \in Int /\ downSince \in Int /\ StaleAfter \in Nat
      BY FeedAssumption DEF FeedInv, FeedTypeOK
    <2>2. lastMessageAt <= downSince
      BY DEF FeedInv, HeardBeforeLoss
    <2> QED BY <2>1, <2>2 DEF IsStale
  <1> QED BY <1>1, <1>2, <1>3 DEF HealthIsTruthful

\* New updates at the end leave what is known of the old ones alone.
LEMMA EmitInv == ASSUME FeedInv, NEW n \in 1..2, FeedEmit(n) PROVE FeedInv'
  <1> DEFINE more == [i \in 1..n |-> feedNow]
             em == emittedAt \o more
             msg == DepthMessage(Len(emittedAt) + 1, Len(emittedAt) + n, feedNow)
  <1>0. emittedAt \in Seq(Nat) /\ feedNow \in Nat /\ Len(emittedAt) \in Nat /\ n \in Nat
        /\ wire \in Seq(FeedMessages) /\ n >= 1 /\ FeedTypeOK
    BY DEF FeedInv, FeedTypeOK
  <1>1. more \in Seq(Nat) /\ Len(more) = n
    BY <1>0
  <1>2. em \in Seq(Nat) /\ Len(em) = Len(emittedAt) + n
        /\ (\A i \in 1..Len(emittedAt) : em[i] = emittedAt[i])
        /\ (\A i \in Len(emittedAt)+1..Len(emittedAt)+n : em[i] = feedNow)
    BY <1>0, <1>1
  <1>3. emittedAt' = em /\ (wire' = wire \/ wire' = Append(wire, msg))
        /\ UNCHANGED <<counted, lastMessageAt, lastDepthFinal, feedNow, observed, stepped,
                       depthHeardAt, downSince, link>>
    BY DEF FeedEmit, feedHistory
  <1> HIDE DEF em
  <1>4. msg \in FeedMessages /\ Sent(msg, em)
    <2>1. /\ msg.stream = "depth" /\ msg.first = Len(emittedAt) + 1
          /\ msg.final = Len(emittedAt) + n /\ msg.time = feedNow
          /\ msg \in [stream : {"depth"}, first : Int, final : Int, time : Int]
      BY <1>0 DEF DepthMessage
    <2>2. Sent(msg, em)
      BY <1>0, <1>2, <2>1 DEF Sent
    <2>3. msg \in FeedMessages
      BY <2>1 DEF FeedMessages, Streams
    <2> QED BY <2>2, <2>3
  <1> HIDE DEF msg
  <1>5. \A e \in FeedMessages : Sent(e, emittedAt) => Sent(e, em)
    <2> SUFFICES ASSUME NEW e \in FeedMessages, Sent(e, emittedAt), IsDepth(e) PROVE Sent(e, em)
      BY DEF Sent
    <2>1. e.first \in Int /\ e.final \in Int /\ 1 <= e.first /\ e.first <= e.final
          /\ e.final <= Len(emittedAt) /\ e.time = emittedAt[e.final]
      BY DEF Sent, FeedMessages
    <2>2. e.final \in 1..Len(emittedAt) /\ e.final <= Len(em)
      BY <1>0, <1>2, <2>1
    <2>3. em[e.final] = emittedAt[e.final]
      BY <1>2, <2>2
    <2> QED BY <2>1, <2>2, <2>3 DEF Sent
  <1>6. wire' \in Seq(FeedMessages) /\ WireIsSent(wire', em)
    <2>1. \A i \in 1..Len(wire) : wire[i] \in FeedMessages /\ Sent(wire[i], emittedAt)
      BY <1>0 DEF FeedInv, WireIsSent
    <2>2. \A i \in 1..Len(wire) : Sent(wire[i], em)
      BY <1>5, <2>1
    <2>3. CASE wire' = wire
      BY <1>0, <2>2, <2>3 DEF WireIsSent
    <2>4. CASE wire' = Append(wire, msg)
      <3>1. wire' \in Seq(FeedMessages) /\ Len(wire') = Len(wire) + 1 /\ Len(wire) \in Nat
            /\ wire'[Len(wire) + 1] = msg /\ \A i \in 1..Len(wire) : wire'[i] = wire[i]
        BY <1>0, <1>4, <2>4
      <3> QED BY <1>4, <2>2, <3>1 DEF WireIsSent
    <2> QED BY <1>3, <2>3, <2>4
  <1>7. ObservedIsInterval(observed, lastDepthFinal, counted, em)
    BY <1>0, <1>2 DEF FeedInv, ObservedIsInterval
  <1>8. TimesAreOrdered(em, feedNow, stepped)
    <2> SUFFICES ASSUME ~stepped, NEW i \in 1..Len(em)
                 PROVE  em[i] <= feedNow /\ \A j \in i..Len(em) : em[i] <= em[j]
      BY DEF TimesAreOrdered
    <2>1. \A k \in 1..Len(emittedAt) :
            emittedAt[k] <= feedNow /\ \A j \in k..Len(emittedAt) : emittedAt[k] <= emittedAt[j]
      BY DEF FeedInv, TimesAreOrdered
    <2>2. \A k \in 1..Len(em) : em[k] \in Nat /\ em[k] <= feedNow
      <3> TAKE k \in 1..Len(em)
      <3>1. CASE k \in 1..Len(emittedAt)
        <4>1. em[k] = emittedAt[k] /\ emittedAt[k] <= feedNow
          BY <1>2, <2>1, <3>1
        <4>2. emittedAt[k] \in Nat
          BY <1>0, <3>1
        <4> QED BY <4>1, <4>2
      <3>2. CASE k \in Len(emittedAt)+1..Len(emittedAt)+n
        BY <1>0, <1>2, <3>2
      <3> QED BY <1>0, <1>2, <3>1, <3>2
    <2>3. ASSUME NEW j \in i..Len(em) PROVE em[i] <= em[j]
      <3>1. CASE j \in 1..Len(emittedAt)
        <4>1. i \in 1..Len(emittedAt) /\ j \in i..Len(emittedAt)
          BY <1>0, <1>2, <3>1
        <4>2. emittedAt[i] <= emittedAt[j] /\ em[i] = emittedAt[i] /\ em[j] = emittedAt[j]
          BY <1>2, <2>1, <3>1, <4>1
        <4> QED BY <4>2
      <3>2. CASE j \in Len(emittedAt)+1..Len(emittedAt)+n
        BY <1>2, <2>2, <3>2
      <3>3. j \in 1..Len(emittedAt) \/ j \in Len(emittedAt)+1..Len(emittedAt)+n
        BY <1>0, <1>2
      <3> QED BY <3>1, <3>2, <3>3
    <2> QED BY <2>2, <2>3
  <1>9. LastIsRecent(lastDepthFinal, depthHeardAt, counted, em)
    BY <1>0, <1>2 DEF FeedInv, LastIsRecent
  <1> QED BY <1>0, <1>2, <1>3, <1>6, <1>7, <1>8, <1>9 DEF FeedInv, FeedTypeOK

\* A message of another stream is on the wire too.
LEMMA EmitOtherInv ==
  ASSUME FeedInv, NEW other \in Streams \ {"depth"}, FeedEmitOther(other) PROVE FeedInv'
  <1> DEFINE msg == [stream |-> other, first |-> Unset, final |-> Unset,
                     time |-> IF other = "trade" THEN feedNow ELSE Unset]
  <1>0. wire \in Seq(FeedMessages) /\ FeedTypeOK /\ feedNow \in Nat
    BY DEF FeedInv, FeedTypeOK
  <1>1. wire' = Append(wire, msg)
        /\ UNCHANGED <<emittedAt, counted, lastMessageAt, lastDepthFinal, feedNow, observed, stepped,
                       depthHeardAt, downSince, link>>
    BY DEF FeedEmitOther, feedHistory
  <1>2. msg \in FeedMessages /\ Sent(msg, emittedAt)
    <2>1. msg \in FeedMessages
      BY <1>0 DEF FeedMessages, Unset
    <2>2. msg.stream # "depth"
      OBVIOUS
    <2> QED BY <2>1, <2>2 DEF Sent, IsDepth
  <1> HIDE DEF msg
  <1>3. wire' \in Seq(FeedMessages) /\ WireIsSent(wire', emittedAt)
    BY <1>0, <1>1, <1>2 DEF FeedInv, WireIsSent
  <1> QED BY <1>1, <1>3 DEF FeedInv, FeedTypeOK

LEMMA RepeatInv ==
  ASSUME FeedInv, NEW first \in DOMAIN emittedAt, NEW final \in DOMAIN emittedAt,
         first <= final, FeedRepeat(first, final)
  PROVE  FeedInv'
  <1> DEFINE msg == DepthMessage(first, final, emittedAt[final])
  <1>0. emittedAt \in Seq(Nat) /\ wire \in Seq(FeedMessages) /\ FeedTypeOK
        /\ first \in 1..Len(emittedAt) /\ final \in 1..Len(emittedAt)
    BY DEF FeedInv, FeedTypeOK
  <1>1. wire' = Append(wire, msg)
        /\ UNCHANGED <<emittedAt, counted, lastMessageAt, lastDepthFinal, feedNow, observed, stepped,
                       depthHeardAt, downSince, link>>
    BY DEF FeedRepeat, feedHistory
  <1>2. msg \in FeedMessages /\ Sent(msg, emittedAt)
    BY <1>0 DEF FeedMessages, Sent, DepthMessage, Streams
  <1> HIDE DEF msg
  <1>3. wire' \in Seq(FeedMessages) /\ WireIsSent(wire', emittedAt)
    BY <1>0, <1>1, <1>2 DEF FeedInv, WireIsSent
  <1> QED BY <1>1, <1>3 DEF FeedInv, FeedTypeOK

\* The clock and the connection.  A clock that went back leaves the order of times open.
LEMMA LinkInv ==
  ASSUME FeedInv,
         FeedTick \/ FeedClockBack \/ AskHealth \/ SetStop \/ FeedConnect \/ FeedDisconnect
  PROVE  FeedInv'
  <1>1. CASE FeedTick
    <2>1. feedNow' = feedNow + 1 /\ feedNow \in Nat /\ emittedAt \in Seq(Nat)
          /\ UNCHANGED <<emittedAt, wire, counted, lastMessageAt, lastDepthFinal, observed, stepped,
                         depthHeardAt, downSince, link>>
          /\ lastMessageAt \in Int
      BY <1>1 DEF FeedTick, FeedInv, FeedTypeOK, feedHistory
    <2>2. TimesAreOrdered(emittedAt, feedNow', stepped)
      BY <2>1 DEF FeedInv, TimesAreOrdered
    <2>3. HeardBeforeLoss(lastMessageAt, feedNow', link, downSince, stepped)
      BY <2>1 DEF FeedInv, HeardBeforeLoss
    <2> QED BY <2>1, <2>2, <2>3 DEF FeedInv, FeedTypeOK
  <1>2. CASE FeedClockBack
    <2>1. feedNow' = feedNow - 1 /\ feedNow' \in Nat /\ stepped' = TRUE
          /\ UNCHANGED <<emittedAt, wire, counted, lastMessageAt, lastDepthFinal, observed,
                         depthHeardAt, downSince, link>>
      BY <1>2 DEF FeedClockBack, FeedInv, FeedTypeOK
    <2>2. TimesAreOrdered(emittedAt, feedNow', stepped')
      BY <2>1 DEF TimesAreOrdered
    <2>3. HeardBeforeLoss(lastMessageAt, feedNow', link, downSince, stepped')
      BY <2>1 DEF HeardBeforeLoss
    <2> QED BY <2>1, <2>2, <2>3 DEF FeedInv, FeedTypeOK
  <1>3. CASE AskHealth
    <2>1. counted' = counted \cup {"clock_anomaly"}
          /\ UNCHANGED <<emittedAt, wire, lastMessageAt, lastDepthFinal, feedNow, observed, stepped,
                         depthHeardAt, downSince, link>>
      BY <1>3 DEF AskHealth, feedHistory
    <2>2. ObservedIsInterval(observed, lastDepthFinal, counted', emittedAt)
      BY <2>1 DEF FeedInv, ObservedIsInterval
    <2>3. LastIsRecent(lastDepthFinal, depthHeardAt, counted', emittedAt)
      BY <2>1 DEF LastIsRecent
    <2> QED BY <2>1, <2>2, <2>3 DEF FeedInv, FeedTypeOK
  <1>4. CASE SetStop
    BY <1>4 DEF SetStop, FeedInv, FeedTypeOK, feedHistory
  <1>5. CASE FeedConnect
    <2>1. /\ UNCHANGED <<emittedAt, wire, counted, lastMessageAt, lastDepthFinal, feedNow, observed,
                         depthHeardAt, stepped>>
          /\ link = "down" /\ link' \in {"up", "ended"} /\ downSince' \in {downSince, Unset}
          /\ link' = "ended" => downSince' = downSince
      BY <1>5 DEF FeedConnect
    <2>2. HeardBeforeLoss(lastMessageAt, feedNow, link', downSince', stepped)
      BY <2>1 DEF FeedInv, HeardBeforeLoss
    <2>3. downSince' \in Int
      BY <2>1 DEF FeedInv, FeedTypeOK, Unset
    <2> QED BY <2>1, <2>2, <2>3 DEF FeedInv, FeedTypeOK
  <1>6. CASE FeedDisconnect
    <2>1. wire' = <<>> /\ downSince' = feedNow
          /\ UNCHANGED <<emittedAt, counted, lastMessageAt, lastDepthFinal, feedNow, observed, stepped,
                         depthHeardAt>>
      BY <1>6 DEF FeedDisconnect
    <2>2. HeardBeforeLoss(lastMessageAt, feedNow, link', downSince', stepped)
      BY <2>1 DEF FeedInv, HeardBeforeLoss
    <2> QED BY <2>1, <2>2 DEF FeedInv, FeedTypeOK, WireIsSent
  <1> QED BY <1>1, <1>2, <1>3, <1>4, <1>5, <1>6

\* The message taken from the wire, and what is left of it.
LEMMA HeadIsSent ==
  ASSUME FeedInv, wire # <<>>
  PROVE  /\ Head(wire) \in FeedMessages /\ Sent(Head(wire), emittedAt)
         /\ Tail(wire) \in Seq(FeedMessages) /\ WireIsSent(Tail(wire), emittedAt)
  <1>1. wire \in Seq(FeedMessages) /\ Len(wire) >= 1 /\ Head(wire) = wire[1]
        /\ Tail(wire) \in Seq(FeedMessages) /\ Len(Tail(wire)) = Len(wire) - 1
        /\ \A i \in 1..Len(Tail(wire)) : Tail(wire)[i] = wire[i + 1]
    BY DEF FeedInv, FeedTypeOK
  <1>2. \A i \in 1..Len(wire) : Sent(wire[i], emittedAt) /\ wire[i] \in FeedMessages
    BY <1>1 DEF FeedInv, WireIsSent
  <1> QED BY <1>1, <1>2 DEF WireIsSent

LEMMA PoisonInv == ASSUME FeedInv, NEW timed \in BOOLEAN, FeedPoison(timed) PROVE FeedInv'
  <1>1. /\ wire' = Tail(wire) /\ wire # <<>> /\ lastMessageAt' = feedNow
        /\ counted \subseteq counted' /\ "bad_messages" \in counted'
        /\ link = "up"
        /\ UNCHANGED <<emittedAt, lastDepthFinal, feedNow, observed, stepped, depthHeardAt, downSince, link>>
    BY DEF FeedPoison, feedHistory
  <1>2. ObservedIsInterval(observed, lastDepthFinal, counted', emittedAt)
    BY <1>1 DEF FeedInv, ObservedIsInterval
  <1>3. LastIsRecent(lastDepthFinal, depthHeardAt, counted', emittedAt)
    BY <1>1 DEF LastIsRecent
  <1>4. HeardBeforeLoss(lastMessageAt', feedNow, link, downSince, stepped)
    <2>1. feedNow \in Nat
      BY DEF FeedInv, FeedTypeOK
    <2> QED BY <1>1, <2>1 DEF HeardBeforeLoss
  <1> QED BY <1>1, <1>2, <1>3, <1>4, HeadIsSent DEF FeedInv, FeedTypeOK

\* What a message of any stream does to the connection and to the counters.
LEMMA ReceiveKeeps ==
  ASSUME FeedInv, NEW raised \in BOOLEAN, FeedReceive(raised)
  PROVE  /\ wire # <<>> /\ wire' \in Seq(FeedMessages) /\ WireIsSent(wire', emittedAt)
         /\ counted \subseteq counted' /\ TimeCounters(Head(wire)) \subseteq counted'
         /\ DepthCounters(Head(wire)) \subseteq counted'
         /\ lastMessageAt' = feedNow /\ downSince' \in Int
         /\ HeardBeforeLoss(lastMessageAt', feedNow, link', downSince', stepped)
         /\ UNCHANGED <<emittedAt, feedNow, stepped>>
  <1>1. /\ wire # <<>> /\ (wire' = Tail(wire) \/ wire' = <<>>) /\ lastMessageAt' = feedNow
        /\ counted \subseteq counted' /\ TimeCounters(Head(wire)) \subseteq counted'
        /\ DepthCounters(Head(wire)) \subseteq counted'
        /\ UNCHANGED <<emittedAt, feedNow, stepped>>
        /\ downSince' = IF link' = "up" THEN downSince ELSE feedNow
    BY DEF FeedReceive
  <1>2. feedNow \in Nat /\ downSince \in Int
    BY DEF FeedInv, FeedTypeOK
  <1>3. HeardBeforeLoss(lastMessageAt', feedNow, link', downSince', stepped) /\ downSince' \in Int
    BY <1>1, <1>2 DEF HeardBeforeLoss
  <1>4. wire' \in Seq(FeedMessages) /\ WireIsSent(wire', emittedAt)
    <2>1. CASE wire' = Tail(wire)
      BY <1>1, <2>1, HeadIsSent
    <2>2. CASE wire' = <<>>
      BY <2>2 DEF WireIsSent
    <2> QED BY <1>1, <2>1, <2>2
  <1> QED BY <1>1, <1>3, <1>4

\* A message of another stream leaves what is known of the depth alone.
LEMMA ReceiveOtherInv ==
  ASSUME FeedInv, NEW raised \in BOOLEAN, FeedReceive(raised), ~IsDepth(Head(wire)) PROVE FeedInv'
  <1>1. UNCHANGED <<lastDepthFinal, observed, depthHeardAt>>
    BY DEF FeedReceive, NewestFinal
  <1>2. ObservedIsInterval(observed, lastDepthFinal, counted', emittedAt)
        /\ LastIsRecent(lastDepthFinal, depthHeardAt, counted', emittedAt)
    BY ReceiveKeeps DEF FeedInv, ObservedIsInterval, LastIsRecent
  <1>3. lastMessageAt' \in Int
    BY ReceiveKeeps DEF FeedInv, FeedTypeOK
  <1> QED BY <1>1, <1>2, <1>3, ReceiveKeeps DEF FeedInv, FeedTypeOK

\* observe: a message that neither repeats nor skips extends the interval.
LEMMA ReceiveDepthInv ==
  ASSUME FeedInv, NEW raised \in BOOLEAN, FeedReceive(raised), IsDepth(Head(wire)) PROVE FeedInv'
  <1> DEFINE e == Head(wire)
             c == counted'
             f == lastDepthFinal'
  <1>0. /\ wire # <<>> /\ counted \subseteq c /\ TimeCounters(e) \subseteq c /\ DepthCounters(e) \subseteq c
    BY ReceiveKeeps
  <1>1. /\ lastDepthFinal' = NewestFinal(e) /\ observed' = observed \cup e.first..e.final
        /\ depthHeardAt' = feedNow
    BY DEF FeedReceive
  <1>2. e \in FeedMessages /\ Sent(e, emittedAt) /\ IsDepth(e)
    BY <1>0, HeadIsSent
  <1> HIDE DEF e
  <1>3. e.first \in Int /\ e.final \in Int /\ e.time \in Nat /\ 1 <= e.first /\ e.first <= e.final
        /\ e.final <= Len(emittedAt) /\ e.time = emittedAt[e.final]
    <2>1. e.first \in Int /\ e.final \in Int /\ 1 <= e.first /\ e.first <= e.final
          /\ e.final <= Len(emittedAt) /\ e.time = emittedAt[e.final]
      BY <1>2 DEF Sent, FeedMessages
    <2>2. emittedAt \in Seq(Nat) /\ e.final \in 1..Len(emittedAt)
      BY <2>1 DEF FeedInv, FeedTypeOK
    <2>3. emittedAt[e.final] \in Nat
      BY <2>2
    <2> QED BY <2>1, <2>3
  <1>4. Len(emittedAt) \in Nat /\ lastDepthFinal \in Int /\ feedNow \in Nat /\ MaxEventDelay \in Nat
    BY FeedAssumption DEF FeedInv, FeedTypeOK
  <1>5. lastDepthFinal = Unset \/ lastDepthFinal \in 1..Len(emittedAt)
    BY DEF FeedInv, ObservedIsInterval
  <1>6. f \in 1..Len(emittedAt)
    BY <1>1, <1>2, <1>3, <1>4, <1>5 DEF NewestFinal
  <1>7. c \cap Disorder = {} =>
          /\ counted \cap Disorder = {} /\ f = e.final
          /\ \/ lastDepthFinal = Unset
             \/ e.first <= lastDepthFinal + 1 /\ e.final > lastDepthFinal
    <2> SUFFICES ASSUME c \cap Disorder = {}
                 PROVE  /\ counted \cap Disorder = {} /\ f = e.final
                        /\ \/ lastDepthFinal = Unset
                           \/ e.first <= lastDepthFinal + 1 /\ e.final > lastDepthFinal
      OBVIOUS
    <2>1. counted \cap Disorder = {} /\ "out_of_order_events" \notin DepthCounters(e)
          /\ "sequence_gaps" \notin DepthCounters(e)
      BY <1>0 DEF Disorder
    <2>2. ~(lastDepthFinal # Unset /\ e.final <= lastDepthFinal)
      BY <1>2, <2>1 DEF DepthCounters
    <2>3. ~(lastDepthFinal # Unset /\ e.final > lastDepthFinal /\ e.first > lastDepthFinal + 1)
      BY <1>2, <2>1 DEF DepthCounters
    <2>4. f = e.final
      BY <1>1, <1>2, <1>3, <1>4, <2>2 DEF NewestFinal
    <2> QED BY <1>3, <1>4, <2>1, <2>2, <2>3, <2>4
  <1>8. ObservedIsInterval(observed', f, c, emittedAt)
    <2> SUFFICES ASSUME c \cap Disorder = {} PROVE \E a \in 1..f : observed' = a..f
      BY <1>6 DEF ObservedIsInterval
    <2>1. CASE lastDepthFinal = Unset
      <3>1. observed = {}
        BY <2>1 DEF FeedInv, ObservedIsInterval, Unset
      <3>2. observed' = e.first..f /\ f = e.final
        BY <1>1, <1>7, <3>1
      <3> QED BY <1>3, <3>2
    <2>2. CASE lastDepthFinal # Unset
      <3>1. PICK a \in 1..lastDepthFinal : observed = a..lastDepthFinal
        BY <1>7, <2>2 DEF FeedInv, ObservedIsInterval
      <3>2. f = e.final /\ e.first <= lastDepthFinal + 1 /\ e.final > lastDepthFinal
        BY <1>7, <2>2
      <3> DEFINE b == IF a <= e.first THEN a ELSE e.first
      <3>3. b \in 1..f /\ b <= a /\ b <= e.first /\ (b = a \/ b = e.first)
        BY <1>3, <1>4, <3>2
      <3> HIDE DEF b
      <3>4. observed' = b..f
        BY <1>1, <1>3, <1>4, <3>1, <3>2, <3>3
      <3> QED BY <3>3, <3>4
    <2> QED BY <2>1, <2>2
  <1>9. LastIsRecent(f, feedNow, c, emittedAt)
    <2> SUFFICES ASSUME c = {} PROVE emittedAt[f] >= feedNow - MaxEventDelay
      BY <1>6 DEF LastIsRecent
    <2>1. f = e.final
      BY <1>7
    <2>2. "delayed_events" \notin TimeCounters(e)
      BY <1>0
    <2>3. ~(feedNow - e.time > MaxEventDelay)
      BY <1>3, <2>2 DEF TimeCounters, Timed, Unset
    <2> QED BY <1>3, <1>4, <2>1, <2>3
  <1>10. lastMessageAt' \in Int /\ f \in Int
    BY <1>4, <1>6, ReceiveKeeps
  <1> QED BY <1>1, <1>4, <1>8, <1>9, <1>10, ReceiveKeeps DEF FeedInv, FeedTypeOK

\* BinancePublicMarketStream.observe and health: a missed update is counted; while the
\* clock only moves forward, a feed called healthy has the whole depth up to the delay
\* limit before the last depth message it heard, and a connection lost for longer than
\* the limit is stale; for any number of reconnects, repeats, poisoned messages and
\* messages of the other streams.
THEOREM HealthStaysTruthful == FeedSpec => []HealthIsTruthful
<1>1. FeedInv /\ [FeedNext]_feedVars => FeedInv'
  <2> SUFFICES ASSUME FeedInv, [FeedNext]_feedVars PROVE FeedInv'
    OBVIOUS
  <2>1. CASE UNCHANGED feedVars
    BY <2>1 DEF feedVars, FeedInv, FeedTypeOK
  <2>2. CASE FeedNext
    BY <2>2, EmitInv, EmitOtherInv, RepeatInv, LinkInv, PoisonInv, ReceiveOtherInv, ReceiveDepthInv DEF FeedNext
  <2> QED BY <2>1, <2>2
<1> QED BY <1>1, FeedInitInv, FeedInvTruthful, PTL DEF FeedSpec

-----------------------------------------------------------------------------
(* PriorityEventBuffer: every number is given once, so the heap's order is    *)
(* total and a buffer that holds something has a worst event.                *)

Items == [priority : Priorities, number : Nat]

Numbered(S, n) ==
  /\ S \subseteq Items
  /\ \A e \in S : e.number < n
  /\ \A a, b \in S : a.number = b.number => a = b

BufferInv ==
  /\ puts \in Nat /\ Numbered(buffer, puts)
  /\ IsFiniteSet(buffer) /\ Cardinality(buffer) <= BufferSize

IsWorst(e, S) == e \in S /\ \A other \in S \ {e} : Ahead(other, e)

LEMMA AheadIsTransitive ==
  ASSUME NEW a \in Items, NEW b \in Items, NEW c \in Items, Ahead(a, b), Ahead(b, c)
  PROVE  Ahead(a, c)
  <1>1. /\ a.priority \in Nat /\ b.priority \in Nat /\ c.priority \in Nat
        /\ a.number \in Nat /\ b.number \in Nat /\ c.number \in Nat
    BY BufferAssumption DEF Items
  <1> QED BY <1>1 DEF Ahead

LEMMA LeastNumber ==
  ASSUME NEW T, T \subseteq Nat, T # {}
  PROVE  \E x \in T : \A y \in T : x <= y
  <1>1. PICK x \in T : \A y \in T : ~(<<y, x>> \in OpToRel(<, Nat))
    BY WFMin, NatLessThanWellFounded
  <1>2. ASSUME NEW y \in T PROVE x <= y
    <2>1. x \in Nat /\ y \in Nat /\ ~(y < x)
      BY <1>1 DEF OpToRel
    <2> QED BY <2>1
  <1> QED BY <1>2

\* Adding the event with the next number to a set that has a worst one.
LEMMA WorstOfOneMore ==
  ASSUME NEW S, NEW n \in Nat, Numbered(S, n), NEW w, IsWorst(w, S),
         NEW x \in Items, x.number >= n
  PROVE  \E e : IsWorst(e, S \cup {x})
  <1>0. w \in S /\ w \in Items /\ \A o \in S : o \in Items /\ o.number < n
    BY DEF IsWorst, Numbered
  <1>1. /\ w.priority \in Nat /\ x.priority \in Nat /\ w.number \in Nat /\ x.number \in Nat
        /\ w.number < n
    BY <1>0, BufferAssumption DEF Items
  <1>4. w.number < x.number
    BY <1>1
  <1>2. CASE w.priority <= x.priority
    <2>1. Ahead(w, x)
      BY <1>1, <1>2, <1>4 DEF Ahead
    <2>2. \A o \in S : Ahead(o, x)
      BY <1>0, <2>1, AheadIsTransitive DEF IsWorst
    <2>3. IsWorst(x, S \cup {x})
      BY <2>2 DEF IsWorst
    <2> QED BY <2>3
  <1>3. CASE x.priority < w.priority
    <2>1. Ahead(x, w)
      BY <1>3 DEF Ahead
    <2>2. IsWorst(w, S \cup {x})
      BY <2>1 DEF IsWorst
    <2> QED BY <2>2
  <1> QED BY <1>1, <1>2, <1>3

LEMMA WorstExists ==
  ASSUME NEW S, NEW n \in Nat, Numbered(S, n), S # {}
  PROVE  \E e : IsWorst(e, S)
  <1> DEFINE Below(k) == {e \in S : e.number < k}
             Bad == {k \in 0..n : Below(k) # {} /\ ~\E e : IsWorst(e, Below(k))}
  <1>0. S \subseteq Items /\ \A e \in S : e.number \in Nat /\ e.number < n
    BY DEF Numbered, Items
  <1>1. Below(n) = S
    BY <1>0
  <1>2. SUFFICES ASSUME Bad # {} PROVE FALSE
    <2>1. CASE Bad = {}
      <3>1. n \in 0..n
        OBVIOUS
      <3>2. n \notin Bad
        BY <2>1
      <3> QED BY <1>1, <3>1, <3>2
    <2> QED BY <1>2, <2>1
  <1>3. PICK k \in Bad : \A j \in Bad : k <= j
    <2>1. Bad \subseteq Nat
      OBVIOUS
    <2> HIDE DEF Bad
    <2> QED BY <1>2, <2>1, LeastNumber
  <1>4. k \in 0..n /\ Below(k) # {} /\ ~\E e : IsWorst(e, Below(k))
    OBVIOUS
  <1>5. k # 0 /\ k - 1 \in 0..n /\ ~(k <= k - 1)
    BY <1>0, <1>4
  <1>6. Below(k - 1) = {} \/ \E e : IsWorst(e, Below(k - 1))
    BY <1>3, <1>5
  <1>7. Below(k - 1) \subseteq S /\ Numbered(Below(k - 1), k - 1)
    BY <1>0 DEF Numbered
  <1>8. CASE \E x \in S : x.number = k - 1
    <2>1. PICK x \in S : x.number = k - 1
      BY <1>8
    <2>2. Below(k) = Below(k - 1) \cup {x}
      <3>1. \A e \in S : e.number < k <=> e.number < k - 1 \/ e.number = k - 1
        BY <1>0, <1>4
      <3>2. \A e \in S : e.number = k - 1 => e = x
        BY <2>1 DEF Numbered
      <3>3. x.number < k
        BY <1>4, <2>1
      <3> QED BY <2>1, <3>1, <3>2, <3>3
    <2>3. x \in Items /\ x.number >= k - 1 /\ k - 1 \in Nat
      BY <1>0, <1>5, <2>1
    <2>4. CASE Below(k - 1) = {}
      <3>1. IsWorst(x, Below(k))
        BY <2>2, <2>4 DEF IsWorst
      <3> QED BY <1>4, <3>1
    <2>5. CASE \E e : IsWorst(e, Below(k - 1))
      <3> HIDE DEF Below
      <3>1. \E e : IsWorst(e, Below(k - 1) \cup {x})
        BY <1>7, <2>3, <2>5, WorstOfOneMore
      <3> QED BY <1>4, <2>2, <3>1
    <2> QED BY <1>6, <2>4, <2>5
  <1>9. CASE ~\E x \in S : x.number = k - 1
    <2>1. \A e \in S : e.number < k <=> e.number < k - 1
      BY <1>0, <1>4, <1>9
    <2>2. Below(k) = Below(k - 1)
      BY <2>1
    <2> HIDE DEF Below
    <2> QED BY <1>4, <1>6, <2>2
  <1> QED BY <1>8, <1>9

\* put on a full buffer: either the worst event or the new one goes.
LEMMA PutInv ==
  ASSUME BufferInv, NEW p \in Priorities, Put(p)
  PROVE  BufferInv' /\ LosesTheLeast
  <1> DEFINE item == [priority |-> p, number |-> puts]
  <1>1. item \in Items /\ item.number = puts /\ item.priority = p /\ puts \in Nat
    BY DEF BufferInv, Items
  <1>2. puts' = puts + 1 /\ lost' = lost \cup ((buffer \cup {item}) \ buffer')
    BY DEF Put
  <1>3. buffer' = IF Cardinality(buffer) < BufferSize THEN buffer \cup {item}
                  ELSE IF p < Worst(buffer).priority
                       THEN (buffer \ {Worst(buffer)}) \cup {item}
                       ELSE buffer
    BY DEF Put
  <1> HIDE DEF item
  <1>4. /\ buffer \subseteq Items /\ (\A e \in buffer : e.number \in Nat /\ e.number < puts)
        /\ IsFiniteSet(buffer) /\ Cardinality(buffer) \in Nat /\ BufferSize \in Nat \ {0}
        /\ Cardinality(buffer) <= BufferSize /\ item \notin buffer
    BY <1>1, FS_CardinalityType, BufferAssumption DEF BufferInv, Numbered, Items
  <1>5. Numbered(buffer \cup {item}, puts + 1)
    BY <1>1, <1>4 DEF BufferInv, Numbered
  <1>6. IsFiniteSet(buffer \cup {item}) /\ Cardinality(buffer \cup {item}) = Cardinality(buffer) + 1
    BY <1>4, FS_AddElement
  <1>7. CASE Cardinality(buffer) < BufferSize
    <2>1. buffer' = buffer \cup {item} /\ lost' = lost
      BY <1>2, <1>3, <1>7
    <2>2. Cardinality(buffer') <= BufferSize
      BY <1>4, <1>6, <1>7, <2>1
    <2>3. BufferInv'
      BY <1>1, <1>2, <1>5, <1>6, <2>1, <2>2 DEF BufferInv
    <2> QED BY <2>1, <2>3 DEF LosesTheLeast
  <1>8. CASE ~(Cardinality(buffer) < BufferSize)
    <2> DEFINE w == Worst(buffer)
    <2>1. Cardinality(buffer) = BufferSize /\ buffer # {}
      BY <1>4, <1>8, FS_EmptySet
    <2>2. IsWorst(w, buffer)
      <3>1. \E e : IsWorst(e, buffer)
        BY <2>1, WorstExists DEF BufferInv
      <3>2. \E e \in buffer : \A other \in buffer \ {e} : Ahead(other, e)
        BY <3>1 DEF IsWorst
      <3> QED BY <3>2 DEF Worst, IsWorst
    <2> HIDE DEF w
    <2>3. w \in buffer /\ w \in Items /\ w.priority \in Nat /\ w.number \in Nat /\ w.number < puts
          /\ p \in Nat /\ \A k \in buffer : k = w \/ Ahead(k, w)
      BY <1>4, <2>2, BufferAssumption DEF IsWorst, Items
    <2>4. CASE p < w.priority
      <3>1. buffer' = (buffer \ {w}) \cup {item}
        BY <1>3, <1>8, <2>4 DEF w
      <3>2. IsFiniteSet(buffer \ {w}) /\ Cardinality(buffer \ {w}) = BufferSize - 1
        BY <1>4, <2>1, <2>3, FS_RemoveElement
      <3>3. IsFiniteSet(buffer') /\ Cardinality(buffer') = BufferSize
        BY <1>4, <3>1, <3>2, FS_AddElement
      <3>4. BufferInv'
        <4>1. Numbered(buffer', puts')
          BY <1>2, <1>5, <3>1 DEF Numbered
        <4>2. puts' \in Nat /\ Cardinality(buffer') <= BufferSize
          BY <1>1, <1>2, <1>4, <3>3
        <4> QED BY <3>3, <4>1, <4>2 DEF BufferInv
      <3>5. \A e \in lost' \ lost : e = w
        BY <1>2, <3>1
      <3>6. Ahead(item, w)
        BY <1>1, <2>4 DEF Ahead
      <3>7. \A k \in buffer' : Ahead(k, w)
        BY <2>3, <3>1, <3>6
      <3> QED BY <3>3, <3>4, <3>5, <3>7 DEF LosesTheLeast
    <2>5. CASE ~(p < w.priority)
      <3>1. buffer' = buffer
        BY <1>3, <1>8, <2>5 DEF w
      <3>2. BufferInv'
        <4>1. Numbered(buffer', puts')
          BY <1>2, <1>5, <3>1 DEF Numbered
        <4>2. puts' \in Nat
          BY <1>1, <1>2
        <4> QED BY <1>4, <3>1, <4>1, <4>2 DEF BufferInv
      <3>3. \A e \in lost' \ lost : e = item
        BY <1>2, <3>1
      <3>4. Ahead(w, item)
        BY <1>1, <2>3, <2>5 DEF Ahead
      <3>5. \A k \in buffer : Ahead(k, item)
        BY <1>1, <1>4, <2>3, <3>4, AheadIsTransitive
      <3> QED BY <2>1, <3>1, <3>2, <3>3, <3>5 DEF LosesTheLeast
    <2> QED BY <2>4, <2>5
  <1> QED BY <1>7, <1>8

LEMMA GetInv == ASSUME BufferInv, Get PROVE BufferInv' /\ lost' = lost
  <1>1. PICK e \in buffer : buffer' = buffer \ {e} /\ UNCHANGED <<puts, lost>>
    BY DEF Get
  <1>2. IsFiniteSet(buffer') /\ Cardinality(buffer') <= BufferSize
    <2>1. Cardinality(buffer) \in Nat /\ BufferSize \in Nat /\ IsFiniteSet(buffer)
          /\ Cardinality(buffer) <= BufferSize
      BY FS_CardinalityType, BufferAssumption DEF BufferInv
    <2>2. IsFiniteSet(buffer') /\ Cardinality(buffer') = Cardinality(buffer) - 1
      BY <1>1, <2>1, FS_RemoveElement
    <2> QED BY <2>1, <2>2
  <1>3. Numbered(buffer', puts')
    BY <1>1 DEF BufferInv, Numbered
  <1> QED BY <1>1, <1>2, <1>3 DEF BufferInv

\* PriorityEventBuffer.put: for any priorities, size and interleaving of puts with gets,
\* only a full buffer loses an event, and then everything it keeps is ahead of it.
THEOREM OverflowIsFair == BufferSpec => OverflowLosesTheLeast
<1>1. BufferInit => BufferInv
  <2> SUFFICES ASSUME BufferInit PROVE BufferInv
    OBVIOUS
  <2>1. buffer = {} /\ puts = 0 /\ BufferSize \in Nat
    BY BufferAssumption DEF BufferInit
  <2>2. IsFiniteSet(buffer) /\ Cardinality(buffer) = 0
    BY <2>1, FS_EmptySet
  <2> QED BY <2>1, <2>2 DEF BufferInv, Numbered
<1>2. BufferInv /\ [BufferNext]_bufferVars => BufferInv'
  <2> SUFFICES ASSUME BufferInv, [BufferNext]_bufferVars PROVE BufferInv'
    OBVIOUS
  <2>1. CASE UNCHANGED bufferVars
    BY <2>1 DEF bufferVars, BufferInv, Numbered
  <2>2. CASE BufferNext
    BY <2>2, PutInv, GetInv DEF BufferNext
  <2> QED BY <2>1, <2>2
<1>3. BufferInv /\ [BufferNext]_bufferVars => [LosesTheLeast]_bufferVars
  <2> SUFFICES ASSUME BufferInv, BufferNext PROVE LosesTheLeast
    OBVIOUS
  <2>1. CASE \E p \in Priorities : Put(p)
    BY <2>1, PutInv
  <2>2. CASE Get
    BY <2>2, GetInv DEF LosesTheLeast
  <2> QED BY <2>1, <2>2 DEF BufferNext
<1> QED BY <1>1, <1>2, <1>3, PTL DEF BufferSpec, OverflowLosesTheLeast
=============================================================================
