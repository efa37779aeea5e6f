---------------------------- MODULE MC_Acceptance ----------------------------
(* The release acceptance suite.  The pipeline is explored twice: one       *)
(* worker with long histories, and two workers running single commands.     *)
EXTENDS AcceptancePipeline

CONSTANTS w1, w2, c1, e1   \* two workers, the first commit and environment

VARIABLE part

MCProfiles == <<"runtime", "campaigns">>
MCSelections == {MCProfiles, <<"campaigns">>}
MCDays == [p \in Profiles |-> IF p = "runtime" THEN 0 ELSE 7]

OneEnvironment ==
    \A w \in Workers : worker'[w].at = "commands" => worker'[w].doc.env = e1

Init == /\ part \in {"pipeline", "workers"}
        /\ AcceptanceInit /\ apHead = c1

Next ==
    /\ UNCHANGED part
    /\ \/ /\ part = "pipeline" /\ AcceptanceNext
          /\ worker'[w2] = IdleWorker
          /\ apIds' < 5 \/ (apStops' = 0 /\ apMoves' = 0)
          /\ apIds' < 3 \/ OneEnvironment
       \/ /\ part = "workers" /\ AcceptanceNext
          /\ apIds' <= 3 /\ apMoves' = 0 /\ OneEnvironment
          /\ \A w \in Workers : Len(worker'[w].todo) <= 1

Spec == Init /\ [][Next]_<<acceptanceVars, part>>
=============================================================================
