--------------------------- MODULE MC_RiskControl ---------------------------
(* The risk machine with its drivers, the hysteresis gate, and the books,     *)
(* feeds and ledgers around a position, for TLC.  They share no state, so a   *)
(* behaviour of all of them is one of each: the run explores every part from  *)
(* the common initial state, with the others at rest.  Two faults of the feed *)
(* are explored without a stop or messages of a stream that has times.        *)
EXTENDS RiskControl, RecoveryGate, StrategySleeves, PublicFeed, ResourceLimits,
        PaperBroker, Escalation, RaceResolution, LiveConfirmation, RuntimeCheckpoint

VARIABLE part

Parts == {"risk", "gate", "sleeves", "feed", "buffer", "rate", "paper", "alerts", "races",
          "confirmations", "checkpoints"}

\* The settings of the parts that are at rest, so that each is explored once.
RestingSettings ==
  /\ part = "risk" \/ risk = "NORMAL"
  /\ part = "sleeves" \/ netting = [hedging |-> FALSE, transfer |-> FALSE]
  /\ part = "rate" \/ DOMAIN budgets = BudgetKeys
  /\ part = "confirmations" \/ stateEnabled
  /\ part = "checkpoints" \/ config = CHOOSE c \in Configs : TRUE

RiskAndGateInit ==
  /\ part \in Parts
  /\ Init /\ HysteresisInit /\ SleeveInit /\ FeedInit /\ BufferInit /\ RateInit
  /\ PaperInit /\ AlertInit /\ RaceInit /\ ConfirmationInit /\ CheckpointInit
  /\ RestingSettings

RiskAndGateNext ==
  /\ UNCHANGED part
  /\ \/ part = "risk" /\ Next
          /\ UNCHANGED <<hysteresisVars, sleeveVars, feedVars, bufferVars, rateVars,
                         paperVars, alertVars, raceVars, confirmationVars, checkpointVars>>
     \/ part = "gate" /\ HysteresisNext
          /\ UNCHANGED <<vars, sleeveVars, feedVars, bufferVars, rateVars, paperVars,
                         alertVars, raceVars, confirmationVars, checkpointVars>>
     \/ part = "sleeves" /\ SleeveNext
          /\ UNCHANGED <<vars, hysteresisVars, feedVars, bufferVars, rateVars, paperVars,
                         alertVars, raceVars, confirmationVars, checkpointVars>>
     \/ part = "feed" /\ FeedNext
          /\ (feedFaults' = 2 => lastEventTime'["trade"] = Unset /\ ~stopEvent')
          /\ UNCHANGED <<vars, hysteresisVars, sleeveVars, bufferVars, rateVars, paperVars,
                         alertVars, raceVars, confirmationVars, checkpointVars>>
     \/ part = "buffer" /\ BufferNext
          /\ UNCHANGED <<vars, hysteresisVars, sleeveVars, feedVars, rateVars, paperVars,
                         alertVars, raceVars, confirmationVars, checkpointVars>>
     \/ part = "rate" /\ RateNext
          /\ UNCHANGED <<vars, hysteresisVars, sleeveVars, feedVars, bufferVars, paperVars,
                         alertVars, raceVars, confirmationVars, checkpointVars>>
     \/ part = "paper" /\ PaperNext
          /\ UNCHANGED <<vars, hysteresisVars, sleeveVars, feedVars, bufferVars, rateVars,
                         alertVars, raceVars, confirmationVars, checkpointVars>>
     \/ part = "alerts" /\ AlertNext
          /\ UNCHANGED <<vars, hysteresisVars, sleeveVars, feedVars, bufferVars, rateVars,
                         paperVars, raceVars, confirmationVars, checkpointVars>>
     \/ part = "races" /\ RaceNext
          /\ UNCHANGED <<vars, hysteresisVars, sleeveVars, feedVars, bufferVars, rateVars,
                         paperVars, alertVars, confirmationVars, checkpointVars>>
     \/ part = "confirmations" /\ ConfirmationNext
          /\ UNCHANGED <<vars, hysteresisVars, sleeveVars, feedVars, bufferVars, rateVars,
                         paperVars, alertVars, raceVars, checkpointVars>>
     \/ part = "checkpoints" /\ CheckpointNext
          /\ UNCHANGED <<vars, hysteresisVars, sleeveVars, feedVars, bufferVars, rateVars,
                         paperVars, alertVars, raceVars, confirmationVars>>
     \/ part \notin {"risk", "gate"}   \* the bounded parts may come to rest
          /\ UNCHANGED <<vars, hysteresisVars, sleeveVars, feedVars, bufferVars, rateVars,
                         paperVars, alertVars, raceVars, confirmationVars,
                         checkpointVars>>

RiskAndGateSpec ==
  RiskAndGateInit
    /\ [][RiskAndGateNext]_<<part, vars, hysteresisVars, sleeveVars, feedVars, bufferVars, rateVars,
                             paperVars, alertVars, raceVars, confirmationVars, checkpointVars>>
=============================================================================
