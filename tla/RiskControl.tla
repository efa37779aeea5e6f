---------------------------- MODULE RiskControl ----------------------------
(***************************************************************************)
(* The RiskMachine of one process and everything that drives it: restart   *)
(* recovery, the private-stream coordinator, the exchange-failure and      *)
(* emergency handlers, the protective-order supervisor, the audit store,   *)
(* the execution service, graceful shutdown and an operator's recover.     *)
(*                                                                         *)
(* RiskMachine takes no lock.  A call that makes one transition is one     *)
(* step; evaluate, on_reconnect and recover read the state or the exchange *)
(* and write the state later, so each is a job with a program counter and  *)
(* the other threads run between its steps.                                *)
(***************************************************************************)
EXTENDS Integers

CONSTANT MaxApprovals   \* bound on approvals given, for model checking only

ASSUME RiskAssumption == MaxApprovals \in Nat

RiskState == {"STARTING", "NORMAL", "ACTIVE", "DEGRADED", "REDUCING_ONLY",
              "HALTED", "RECOVERY_PENDING", "MANUAL_REVIEW_REQUIRED", "STOPPING"}

\* _ALLOWED_NEW_RISK, and the states recover(target=ACTIVE) may start from.
OpenStates == {"NORMAL", "ACTIVE"}
Staged == {"RECOVERY_PENDING", "DEGRADED"}

\* What comparing the snapshots and the gates says: drift; no drift but a gate or
\* the approval missing; or all green and approved.
Verdicts == {"drift", "incomplete", "clean"}

VARIABLES risk,       \* RiskMachine.state
          eval,       \* RestartRecoveryCoordinator.evaluate in progress
          operator,   \* an operator's RiskMachine.recover in progress
          reconnect,  \* PrivateStreamRecoveryCoordinator.on_reconnect in progress
          stream,     \* that coordinator's disconnected and auth_expired
          given,      \* history: approvals given so far
          stopped     \* history: an emergency stop since the last approval

vars == <<risk, eval, operator, reconnect, stream, given, stopped>>

EvalJobs == [pc : {"idle", "decide", "stage", "recover", "open"}, verdict : Verdicts]
OperatorJobs == [pc : {"idle", "open"}, target : OpenStates]
ReconnectJobs == [pc : {"idle", "conclude"}, verdict : Verdicts]

NoEval == [pc |-> "idle", verdict |-> "drift"]
NoOperator == [pc |-> "idle", target |-> "NORMAL"]
NoReconnect == [pc |-> "idle", verdict |-> "drift"]

TypeOK ==
  /\ risk \in RiskState
  /\ eval \in EvalJobs
  /\ operator \in OperatorJobs
  /\ reconnect \in ReconnectJobs
  /\ stream \subseteq {"disconnected", "auth_expired"}
  /\ given \in 0..MaxApprovals
  /\ stopped \in BOOLEAN

\* A restarted process is STARTING; RiskMachine's default is NORMAL (PAPER).
Init ==
  /\ risk \in {"STARTING", "NORMAL"}
  /\ eval = NoEval
  /\ operator = NoOperator
  /\ reconnect = NoReconnect
  /\ stream = {}
  /\ given = 0
  /\ stopped = FALSE

AllowNewRisk == risk \in OpenStates

\* RiskMachine.allowed_actions.
AllowedActions(state) ==
  CASE state \in OpenStates -> {"OPEN", "REDUCE", "CANCEL", "CLOSE"}
    [] state = "REDUCING_ONLY" -> {"REDUCE", "CANCEL", "CLOSE"}
    [] state \in {"HALTED", "MANUAL_REVIEW_REQUIRED"} -> {"CANCEL", "CLOSE", "RECOVER"}
    [] OTHER -> {"REDUCE", "CANCEL", "CLOSE", "RECOVER"}

\* A human approval with green checks: it starts a recovery.
Approving ==
  /\ given < MaxApprovals
  /\ given' = given + 1
  /\ stopped' = FALSE

-----------------------------------------------------------------------------
(* Single transitions.                                                     *)

\* halt: EmergencyController.emergency_stop and panic_close.
EmergencyStop ==
  /\ risk' = "HALTED"
  /\ stopped' = TRUE
  /\ UNCHANGED <<eval, operator, reconnect, stream, given>>

\* halt: ExchangeFailureCoordinator.handle, the supervisor's panic close, a
\* failed audit write.  What follows the halt there changes no risk state.
Fail ==
  /\ risk' = "HALTED"
  /\ UNCHANGED <<eval, operator, reconnect, stream, given, stopped>>

\* restrict: an unprotected position, or a balance that changed before submit.
RestrictTrading ==
  /\ risk' = "DEGRADED"
  /\ UNCHANGED <<eval, operator, reconnect, stream, given, stopped>>

\* manual_review: metadata changed before submit, or an UNKNOWN order.
Review ==
  /\ risk' = "MANUAL_REVIEW_REQUIRED"
  /\ UNCHANGED <<eval, operator, reconnect, stream, given, stopped>>

ReduceOnly ==
  /\ risk' = "REDUCING_ONLY"
  /\ UNCHANGED <<eval, operator, reconnect, stream, given, stopped>>

\* RestartRecoveryCoordinator.begin.
BeginRecovery ==
  /\ risk' = "RECOVERY_PENDING"
  /\ UNCHANGED <<eval, operator, reconnect, stream, given, stopped>>

\* GracefulShutdown.run assigns STOPPING past the transition log; the
\* drain that follows changes no risk state.
Shutdown ==
  /\ risk' = "STOPPING"
  /\ UNCHANGED <<eval, operator, reconnect, stream, given, stopped>>

OnDisconnect ==
  /\ stream' = stream \cup {"disconnected"}
  /\ risk' = "DEGRADED"
  /\ UNCHANGED <<eval, operator, reconnect, given, stopped>>

OnAuthExpired ==
  /\ stream' = {"disconnected", "auth_expired"}
  /\ risk' = "DEGRADED"
  /\ UNCHANGED <<eval, operator, reconnect, given, stopped>>

-----------------------------------------------------------------------------
(* RestartRecoveryCoordinator.evaluate.                                    *)

\* The state check and the comparison of the two snapshots.
EvaluateStart(verdict) ==
  /\ eval.pc = "idle"
  /\ risk \in {"STARTING", "RECOVERY_PENDING", "MANUAL_REVIEW_REQUIRED"}
  /\ eval' = [pc |-> "decide", verdict |-> verdict]
  /\ IF verdict = "clean" THEN Approving ELSE UNCHANGED <<given, stopped>>
  /\ UNCHANGED <<risk, operator, reconnect, stream>>

EvaluateDecide ==
  /\ eval.pc = "decide"
  /\ \/ /\ eval.verdict = "drift"
        /\ risk' = "MANUAL_REVIEW_REQUIRED" /\ eval' = NoEval
     \/ /\ eval.verdict = "incomplete"
        /\ risk' = "RECOVERY_PENDING" /\ eval' = NoEval
     \/ /\ eval.verdict = "clean"
        /\ UNCHANGED risk /\ eval' = [eval EXCEPT !.pc = "stage"]
  /\ UNCHANGED <<operator, reconnect, stream, given, stopped>>

\* Whatever the state is by now, it becomes RECOVERY_PENDING.
EvaluateStage ==
  /\ eval.pc = "stage"
  /\ risk' = "RECOVERY_PENDING"
  /\ eval' = [eval EXCEPT !.pc = "recover"]
  /\ UNCHANGED <<operator, reconnect, stream, given, stopped>>

\* RiskMachine.recover: the staging check, then the transition.
EvaluateRecover ==
  /\ eval.pc = "recover"
  /\ eval' = IF risk \in Staged THEN [eval EXCEPT !.pc = "open"] ELSE NoEval
  /\ UNCHANGED <<risk, operator, reconnect, stream, given, stopped>>

\* Mutation of EvaluateOpen: the coordinator stays ready to open again.
EvaluateOpenAgain ==
  /\ eval.pc = "open"
  /\ risk' = "ACTIVE"
  /\ UNCHANGED <<eval, operator, reconnect, stream, given, stopped>>

EvaluateOpen ==
  /\ eval.pc = "open"
  /\ risk' = "ACTIVE"
  /\ eval' = NoEval
  /\ UNCHANGED <<operator, reconnect, stream, given, stopped>>

-----------------------------------------------------------------------------
(* RiskMachine.recover, called by an operator.                             *)

RecoverRefused ==
  /\ operator.pc = "idle"
  /\ risk' = "RECOVERY_PENDING"
  /\ UNCHANGED <<eval, operator, reconnect, stream, given, stopped>>

RecoverStart(target) ==
  /\ operator.pc = "idle"
  /\ target = "ACTIVE" => risk \in Staged
  /\ operator' = [pc |-> "open", target |-> target]
  /\ Approving
  /\ UNCHANGED <<risk, eval, reconnect, stream>>

\* safe_target: NORMAL when no target is given.
RecoverOpen ==
  /\ operator.pc = "open"
  /\ risk' = operator.target
  /\ operator' = NoOperator
  /\ UNCHANGED <<eval, reconnect, stream, given, stopped>>

-----------------------------------------------------------------------------
(* PrivateStreamRecoveryCoordinator.on_reconnect.                          *)

\* The snapshots are read from the database and over REST.
ReconnectFetch(verdict) ==
  /\ reconnect.pc = "idle"
  /\ reconnect' = [pc |-> "conclude", verdict |-> verdict]
  /\ UNCHANGED <<risk, eval, operator, stream, given, stopped>>

\* One of the REST calls raises: nothing is assigned.
ReconnectFails ==
  /\ reconnect.pc = "conclude"
  /\ reconnect' = NoReconnect
  /\ UNCHANGED <<risk, eval, operator, stream, given, stopped>>

\* Mutation of ReconnectConclude: a clean reconnect resumes trading by itself.
ReconnectResumes(refreshed) ==
  /\ reconnect.pc = "conclude"
  /\ stream' = IF refreshed THEN {} ELSE stream \ {"disconnected"}
  /\ risk' = IF reconnect.verdict = "drift" THEN "MANUAL_REVIEW_REQUIRED" ELSE "ACTIVE"
  /\ reconnect' = NoReconnect
  /\ UNCHANGED <<eval, operator, given, stopped>>

ReconnectConclude(refreshed) ==
  /\ reconnect.pc = "conclude"
  /\ stream' = IF refreshed THEN {} ELSE stream \ {"disconnected"}
  /\ risk' = IF reconnect.verdict = "drift" THEN "MANUAL_REVIEW_REQUIRED" ELSE "RECOVERY_PENDING"
  /\ reconnect' = NoReconnect
  /\ UNCHANGED <<eval, operator, given, stopped>>

-----------------------------------------------------------------------------
EvalStep == EvaluateDecide \/ EvaluateStage \/ EvaluateRecover \/ EvaluateOpen

Next ==
  \/ EmergencyStop \/ Fail \/ RestrictTrading \/ Review \/ ReduceOnly \/ BeginRecovery
  \/ Shutdown \/ OnDisconnect \/ OnAuthExpired
  \/ \E verdict \in Verdicts : EvaluateStart(verdict)
  \/ EvalStep
  \/ RecoverRefused \/ RecoverOpen
  \/ \E target \in OpenStates : RecoverStart(target)
  \/ \E verdict \in Verdicts : ReconnectFetch(verdict)
  \/ ReconnectFails
  \/ \E refreshed \in BOOLEAN : ReconnectConclude(refreshed)

Spec == Init /\ [][Next]_vars

-----------------------------------------------------------------------------
(* Properties.                                                             *)

\* Approvals given and not yet spent: an evaluation or an operator's recover
\* that will open the gate unless it is refused on the way.
Pending ==
  (IF eval.pc # "idle" /\ eval.verdict = "clean" THEN 1 ELSE 0)
    + (IF operator.pc = "open" THEN 1 ELSE 0)

\* Past its decision an evaluation is clean and without drift.
RiskInv ==
  eval.pc \in {"stage", "recover", "open"} => eval.verdict = "clean"

Gate == INSTANCE ApprovalGate WITH open <- AllowNewRisk, approvals <- Pending

\* Whatever the coordinators, failures, reconnects and a shutdown do to the
\* unlocked state, new risk is re-allowed only by spending an approval, each at
\* most once (RestartRecoveryCoordinator, RiskMachine.recover).
ImplementsGate == Gate!GateSpec

\* README.md: "Emergency Stop blocks new risk".  An approval given before the
\* stop should not undo it.
StopHolds == stopped => ~AllowNewRisk

\* RISK_STATE_MACHINE.md: "uncertainty cannot increase permitted risk".  Losing
\* the private stream or its authorisation is such an uncertainty.
UncertaintyIsMonotonic ==
  []["disconnected" \in stream' \ stream
       => AllowedActions(risk') \cap {"OPEN", "REDUCE"}
            \subseteq AllowedActions(risk)]_vars
=============================================================================
