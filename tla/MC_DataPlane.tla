---------------------------- MODULE MC_DataPlane ----------------------------
(* The consumer, the audit store, the reservations, the stream projector,    *)
(* the order book, the research ledger and the setup wizard for TLC.  They   *)
(* share no state, so a behaviour of all of them is one of each: the run     *)
(* explores every part from the common initial state, the others at rest.    *)
EXTENDS EventConsumer, AuditChain, CapitalReservations, PrivateStream, LocalOrderBook,
        ResearchLedger, SetupWizard

VARIABLE part

Parts == {"consumer", "audit", "capital", "stream", "book", "trials", "metadata", "wizard"}

\* Periods in order, and a validation period that overlaps the training.
MCWindows == {[train |-> <<0, 1>>, validation |-> <<1, 2>>, test |-> <<2, 3>>],
              [train |-> <<0, 2>>, validation |-> <<1, 2>>, test |-> <<2, 3>>]}

DataInit ==
  /\ part \in Parts
  /\ ConsumerInit /\ AuditInit /\ CapitalInit /\ StreamInit /\ BookInit
  /\ ResearchInit /\ WizardInit

DataNext ==
  /\ UNCHANGED part
  /\ \/ part = "consumer" /\ ConsumerNext
          /\ UNCHANGED <<auditVars, capitalVars, streamVars, bookVars, researchVars, wizardVars>>
     \/ part = "audit" /\ AuditNext
          /\ UNCHANGED <<consumerVars, capitalVars, streamVars, bookVars, researchVars, wizardVars>>
     \/ part = "capital" /\ CapitalNext
          /\ UNCHANGED <<consumerVars, auditVars, streamVars, bookVars, researchVars, wizardVars>>
     \/ part = "stream" /\ StreamNext
          /\ UNCHANGED <<consumerVars, auditVars, capitalVars, bookVars, researchVars, wizardVars>>
     \/ part = "book" /\ BookNext
          /\ UNCHANGED <<consumerVars, auditVars, capitalVars, streamVars, researchVars, wizardVars>>
     \/ part = "trials" /\ ResearchNext /\ UNCHANGED metadata
          /\ UNCHANGED <<consumerVars, auditVars, capitalVars, streamVars, bookVars, wizardVars>>
     \/ part = "metadata" /\ ResearchNext /\ UNCHANGED <<registered, entries>>
          /\ UNCHANGED <<consumerVars, auditVars, capitalVars, streamVars, bookVars, wizardVars>>
     \/ part = "wizard" /\ WizardNext
          /\ UNCHANGED <<consumerVars, auditVars, capitalVars, streamVars, bookVars, researchVars>>

DataSpec ==
  DataInit /\ [][DataNext]_<<part, consumerVars, auditVars, capitalVars, streamVars, bookVars,
                            researchVars, wizardVars>>
=============================================================================
