---------------------------- MODULE ApprovalGate ----------------------------
(***************************************************************************)
(* What the risk machine promises: new exposure is allowed at the start and *)
(* after that only by spending an approval (a human approval with green     *)
(* checks and no drift).  An approval opens the gate at most once; it may   *)
(* also lapse.  Anything may close the gate at any time.                    *)
(***************************************************************************)
EXTENDS Integers

VARIABLES open,       \* new risk is allowed
          approvals   \* approvals given and neither spent nor lapsed

gateVars == <<open, approvals>>

GateInit == open \in BOOLEAN /\ approvals = 0

Approve == approvals' = approvals + 1 /\ UNCHANGED open

Spend ==
  /\ approvals > 0
  /\ open' = TRUE
  /\ approvals' = approvals - 1

Lapse == approvals > 0 /\ approvals' = approvals - 1 /\ UNCHANGED open

Close == open' = FALSE /\ UNCHANGED approvals

GateNext == Approve \/ Spend \/ Lapse \/ Close

GateSpec == GateInit /\ [][GateNext]_gateVars
=============================================================================
