----------------------------- MODULE SubmitOnce -----------------------------
(***************************************************************************)
(* What the durable intent ledger promises the rest of the platform, with  *)
(* no instances, leases, caches or crashes: an intent is reserved at most  *)
(* once and for ever, only a reserved intent is handed to the exchange and *)
(* only once, only a handed-over intent becomes an order, and the ledger   *)
(* learns an outcome only of an order that exists.  It may lose what it    *)
(* learned (a late reconciliation overwrites it with UNKNOWN), never gain  *)
(* what did not happen.                                                    *)
(***************************************************************************)
EXTENDS Integers

CONSTANT Intents

VARIABLES reserved,  \* intents with a durable row
          submits,   \* how often each was handed to the exchange
          placed,    \* intents that became an order at the exchange
          known      \* intents whose durable status is an exchange outcome

onceVars == <<reserved, submits, placed, known>>

OnceInit ==
  /\ reserved = {}
  /\ submits = [n \in Intents |-> 0]
  /\ placed = {}
  /\ known = {}

ReserveIntent(n) ==
  /\ n \notin reserved
  /\ reserved' = reserved \cup {n}
  /\ UNCHANGED <<submits, placed, known>>

SubmitIntent(n) ==
  /\ n \in reserved /\ submits[n] = 0
  /\ submits' = [submits EXCEPT ![n] = 1]
  /\ UNCHANGED <<reserved, placed, known>>

PlaceOrder(n) ==
  /\ submits[n] = 1 /\ n \notin placed
  /\ placed' = placed \cup {n}
  /\ UNCHANGED <<reserved, submits, known>>

LearnOutcome(n) ==
  /\ n \in placed
  /\ known' = known \cup {n}
  /\ UNCHANGED <<reserved, submits, placed>>

ForgetOutcome(n) ==
  /\ known' = known \ {n}
  /\ UNCHANGED <<reserved, submits, placed>>

OnceNext ==
  \E n \in Intents : \/ ReserveIntent(n) \/ SubmitIntent(n) \/ PlaceOrder(n)
                     \/ LearnOutcome(n) \/ ForgetOutcome(n)

OnceSpec == OnceInit /\ [][OnceNext]_onceVars
=============================================================================
