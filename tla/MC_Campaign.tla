----------------------------- MODULE MC_Campaign -----------------------------
(* The evidence suite: components checked side by side, one per behaviour.  *)
(* The campaign is explored twice: its commands without sealing, and the    *)
(* seal over a collection of short commands.  Of two packages, two          *)
(* checkouts and an edit a behaviour has three.                             *)
EXTENDS CampaignCollection, CampaignBundle, ReturnPromotion, DependencyLocks,
        TestnetScenario, ReleasePackaging, CampaignJournal

CONSTANT Builder \* the one recorder that derives receipts, with others appending beside it

VARIABLE part

MCNeed == [m \in Metrics |->
             IF m \in {"LONG", "live_shadow_observation"} THEN 1 ELSE 0]
MCOrder == <<"r1", "r2", "challenge", "source">>

Short == \A p \in Runtimes : Len(proc'[p].todo) <= 2

MCKeys == <<"PROMOTED_UV", "PROMOTED_NPM">>
MCListed == <<[step |-> 1, minQty |-> 1, maxQty |-> 9, marketMax |-> 0,
               minNotional |-> 6, maxNotional |-> 11, free |-> 100],
              [step |-> 2, minQty |-> 2, maxQty |-> 8, marketMax |-> 6,
               minNotional |-> 0, maxNotional |-> 0, free |-> 18]>>
MCBooks == {<<>>, <<<<2, 1>>>>, <<<<3, 2>>, <<2, 2>>>>, <<<<2, 4>>>>}

Init == /\ part \in {"commands", "seal", "bundle", "promotion", "locks", "testnet",
                    "packaging", "journal"}
        /\ CampaignInit /\ BundleInit /\ PromotionInit /\ LocksInit
        /\ ScenarioInit /\ PackagingInit /\ JournalInit
        /\ part # "promotion" => rpFile = 1
        /\ part # "locks" => lockFile = <<1, 1>>
        /\ part # "testnet" => quotes.book = <<>> /\ quotes.ticker = 2

Next ==
    /\ UNCHANGED part
    /\ \/ /\ part = "commands" /\ CampaignNext
          /\ seals' = 0 /\ challenge' = 1
          /\ commands' < 2 \/ Short
          /\ UNCHANGED <<bundleVars, promotionVars, lockVars, scenarioVars,
                         packageVars, journalVars>>
       \/ /\ part = "seal" /\ CampaignNext
          /\ commands' <= 2 /\ Len(rows') <= 5 /\ Short
          /\ UNCHANGED <<bundleVars, promotionVars, lockVars, scenarioVars,
                         packageVars, journalVars>>
       \/ /\ part = "bundle" /\ BundleNext
          /\ UNCHANGED <<campaignVars, promotionVars, lockVars, scenarioVars,
                         packageVars, journalVars>>
       \/ /\ part = "promotion" /\ PromotionNext
          /\ UNCHANGED <<campaignVars, bundleVars, lockVars, scenarioVars,
                         packageVars, journalVars>>
       \/ /\ part = "locks" /\ LocksNext
          /\ UNCHANGED <<campaignVars, bundleVars, promotionVars, scenarioVars,
                         packageVars, journalVars>>
       \/ /\ part = "testnet" /\ ScenarioNext
          /\ UNCHANGED <<campaignVars, bundleVars, promotionVars, lockVars,
                         packageVars, journalVars>>
       \/ /\ part = "packaging" /\ PackagingNext
          /\ checkouts' + edits' + packages' <= 3
          /\ UNCHANGED <<campaignVars, bundleVars, promotionVars, lockVars,
                         scenarioVars, journalVars>>
       \/ /\ part = "journal" /\ JournalNext
          /\ \A p \in Recorders \ {Builder} : recorder'[p].pc \in {"idle", "append"}
          /\ UNCHANGED <<campaignVars, bundleVars, promotionVars, lockVars,
                         scenarioVars, packageVars>>

Spec == Init /\ [][Next]_<<campaignVars, bundleVars, promotionVars, lockVars,
                           scenarioVars, packageVars, journalVars, part>>
=============================================================================
