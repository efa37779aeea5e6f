---------------------------- MODULE EventConsumer ----------------------------
(***************************************************************************)
(* IdempotentConsumer over an InMemoryReceiptStore: threads of one process  *)
(* handle events that are delivered at least once.  claim and release are   *)
(* atomic (the store's lock); the handler runs between them without it.     *)
(***************************************************************************)
EXTENDS Integers

CONSTANTS EventIds, Threads, NoEvent,
          MaxFailures     \* bound on handler failures, for model checking only

ASSUME ConsumerAssumption == NoEvent \notin EventIds /\ MaxFailures \in Nat

VARIABLES receipts,    \* InMemoryReceiptStore._seen
          handling,    \* the event each thread's handler is working on
          handled,     \* history: how often an event was handled since the start
          dropped,     \* history: events some delivery of which was a duplicate
          failures

consumerVars == <<receipts, handling, handled, dropped, failures>>

ConsumerTypeOK ==
  /\ receipts \subseteq EventIds
  /\ handling \in [Threads -> EventIds \cup {NoEvent}]
  /\ handled \in [EventIds -> Nat]
  /\ dropped \subseteq EventIds
  /\ failures \in 0..MaxFailures

ConsumerInit ==
  /\ receipts = {}
  /\ handling = [t \in Threads |-> NoEvent]
  /\ handled = [e \in EventIds |-> 0]
  /\ dropped = {}
  /\ failures = 0

\* Mutation of Claim: the check and the insertion are not one step of the lock.
ClaimUnlocked(t, e) ==
  /\ handling[t] = NoEvent
  /\ e \notin receipts \/ \E u \in Threads : handling[u] = e
  /\ receipts' = receipts \cup {e}
  /\ handling' = [handling EXCEPT ![t] = e]
  /\ UNCHANGED <<handled, dropped, failures>>

\* A delivery whose receipt is new.
Claim(t, e) ==
  /\ handling[t] = NoEvent
  /\ e \notin receipts
  /\ receipts' = receipts \cup {e}
  /\ handling' = [handling EXCEPT ![t] = e]
  /\ UNCHANGED <<handled, dropped, failures>>

\* ConsumeResult(applied=False, duplicate=True).
AnswerDuplicate(t, e) ==
  /\ handling[t] = NoEvent
  /\ e \in receipts
  /\ dropped' = dropped \cup {e}
  /\ UNCHANGED <<receipts, handling, handled, failures>>

Handled(t) ==
  /\ handling[t] # NoEvent
  /\ handled' = [handled EXCEPT ![handling[t]] = @ + 1]
  /\ handling' = [handling EXCEPT ![t] = NoEvent]
  /\ UNCHANGED <<receipts, dropped, failures>>

\* The handler raises: the receipt is released so that a retry can run.
HandlerFails(t) ==
  /\ handling[t] # NoEvent /\ failures < MaxFailures
  /\ failures' = failures + 1
  /\ receipts' = receipts \ {handling[t]}
  /\ handling' = [handling EXCEPT ![t] = NoEvent]
  /\ UNCHANGED <<handled, dropped>>

\* A restart loses the receipts; history starts again with the process.
Restart ==
  /\ receipts # {}
  /\ receipts' = {}
  /\ handling' = [t \in Threads |-> NoEvent]
  /\ handled' = [e \in EventIds |-> 0]
  /\ dropped' = {}
  /\ UNCHANGED failures

ConsumerNext ==
  \/ \E t \in Threads, e \in EventIds : Claim(t, e) \/ AnswerDuplicate(t, e)
  \/ \E t \in Threads : Handled(t) \/ HandlerFails(t)
  \/ Restart

ConsumerSpec == ConsumerInit /\ [][ConsumerNext]_consumerVars

-----------------------------------------------------------------------------
(* Properties.                                                             *)

\* IdempotentConsumer: concurrent duplicate deliveries are handled by one thread
\* at a time, and an event handled once is not handled again.
AppliedAtMostOnce ==
  \A e \in EventIds :
    /\ handled[e] \in {0, 1}
    /\ \A t \in Threads : handling[t] = e => handled[e] = 0
    /\ \A t, u \in Threads : handling[t] = e /\ handling[u] = e => t = u

\* consume: a receipt without effect does not outlive its handler, so an event
\* that failed is handled when it is delivered again.
ReceiptsAreEarned ==
  \A e \in EventIds :
    e \in receipts <=> handled[e] = 1 \/ \E t \in Threads : handling[t] = e

\* IdempotentConsumer's docstring: "Successful duplicate deliveries are ignored".
\* An event whose delivery was answered as a duplicate is handled or in hand.
DroppedIsDone == dropped \subseteq receipts
=============================================================================
