-------------------------- MODULE ReturnPromotion --------------------------
(* The way of acceptance evidence back into the release checkout: a return  *)
(* bundle is built on the acceptance host, staged under its digest and      *)
(* promoted into reports/external_acceptance by a journalled swap.          *)
(* A tree is the set of bundles whose evidence is installed in it and the   *)
(* set of bundles staged under its incoming directory (stage's default), so *)
(* a bundle can only be promoted while the canonical tree exists.  Backup   *)
(* and replacement are named after the bundle in the journal; only the      *)
(* journal's pair is ever read, so one variable stands for each.            *)
EXTENDS Naturals, Sequences, SequencesExt

CONSTANTS Bundles,        \* return bundles that can be built
          NoBundle,
          NoTree,         \* a directory that does not exist
          Versions,       \* contents of an evidence file on the host
          LockBundles,    \* the bundles that carry dependency locks
          MaxCrashes,     \* bound: crashes of the promoting process
          MaxFailures,    \* bound: steps of the swap that raise
          MaxPromotions   \* bound: promote commands

VARIABLES rpFile,      \* the evidence file on the acceptance host
          rpRow,       \* hash of the manifest row of the archive being built
          rpArchive,   \* archive of each bundle: [row, member], or <<>>
          canonical, replacement, backup,   \* the three directories
          journal,     \* transaction journal, or <<>>
          importLedger,
          candidates,  \* lock candidates kept for later promotion
          promoter,    \* the running promote command
          rpCrashes, rpFailures, rpPromotions

rpHost == <<rpFile, rpRow, rpArchive>>
rpTrees == <<canonical, replacement, backup>>
rpBounds == <<rpCrashes, rpFailures, rpPromotions>>
promotionVars == <<rpHost, rpTrees, journal, importLedger, candidates,
                   promoter, rpBounds>>

ASSUME PromotionAssumption == LockBundles \subseteq Bundles

IdlePromoter == [at |-> "idle", bundle |-> NoBundle, made |-> FALSE,
                 kept |-> FALSE]

PromotionInit ==
    /\ rpFile \in Versions /\ rpRow = <<>>
    /\ rpArchive = [b \in Bundles |-> <<>>]
    /\ canonical = [evidence |-> {}, staged |-> {}]
    /\ replacement = NoTree /\ backup = NoTree
    /\ journal = <<>> /\ importLedger = <<>> /\ candidates = {}
    /\ promoter = IdlePromoter
    /\ rpCrashes = 0 /\ rpFailures = 0 /\ rpPromotions = 0

-----------------------------------------------------------------------------
(* acceptance_return_bundle.py: the rows are hashed first, the members read *)
(* again for the archive; verify compares them, stage installs the archive  *)
(* by one rename.  acceptance_handoff_bundle.py builds the same way.        *)

EvidenceRewritten(v) ==
    /\ v # rpFile /\ rpFile' = v
    /\ UNCHANGED <<rpRow, rpArchive, rpTrees, journal, importLedger,
                   candidates, promoter, rpBounds>>

BuildRows(b) ==
    /\ rpRow = <<>> /\ rpArchive[b] = <<>>
    /\ rpRow' = <<b, rpFile>>
    /\ UNCHANGED <<rpFile, rpArchive, rpTrees, journal, importLedger,
                   candidates, promoter, rpBounds>>

BuildArchive ==
    /\ rpRow # <<>>
    /\ rpArchive' = [rpArchive EXCEPT ![rpRow[1]] =
                       [row |-> rpRow[2], member |-> rpFile]]
    /\ rpRow' = <<>>
    /\ UNCHANGED <<rpFile, rpTrees, journal, importLedger, candidates,
                   promoter, rpBounds>>

VerifyArchiveNames(a) == a # <<>>

VerifyArchive(a) == a # <<>> /\ a.member = a.row

Stage(b) ==
    /\ VerifyArchive(rpArchive[b])
    /\ promoter.at = "idle" /\ canonical # NoTree
    /\ b \notin canonical.staged
    /\ canonical' = [canonical EXCEPT !.staged = @ \cup {b}]
    /\ UNCHANGED <<rpHost, replacement, backup, journal, importLedger,
                   candidates, promoter, rpBounds>>

(* stage makes the incoming directory with its parents. *)
StageAnew(b) ==
    /\ VerifyArchive(rpArchive[b])
    /\ promoter.at = "idle" /\ canonical = NoTree
    /\ canonical' = [evidence |-> {}, staged |-> {b}]
    /\ UNCHANGED <<rpHost, replacement, backup, journal, importLedger,
                   candidates, promoter, rpBounds>>

-----------------------------------------------------------------------------
(* promote: recovery of a pending journal first.                            *)

At(step) == promoter' = [promoter EXCEPT !.at = step]
Journalled(status) ==
    journal' = [status |-> status, bundle |-> promoter.bundle,
                kept |-> promoter.kept]
LedgerValid == IsInjective(importLedger)
LedgerContains(b) == LedgerValid /\ b \in ToSet(importLedger)

Promote(b) ==
    /\ promoter.at = "idle" /\ rpPromotions < MaxPromotions
    /\ rpPromotions' = rpPromotions + 1
    /\ promoter' = [IdlePromoter EXCEPT !.bundle = b,
                    !.at = IF journal = <<>> THEN "assess" ELSE "recover"]
    /\ UNCHANGED <<rpHost, rpTrees, journal, importLedger, candidates,
                   rpCrashes, rpFailures>>

RecoverKeepsVerified ==
    \/ journal.status \in {"COMMITTED", "ROLLED_BACK", "POST_VERIFIED"}
    \/ LedgerContains(journal.bundle)

(* A final status only needs cleaning; a bundle in the ledger is finalized. *)
RecoverKeeps ==
    \/ journal.status \in {"COMMITTED", "ROLLED_BACK"}
    \/ LedgerContains(journal.bundle)

RecoverFinalize ==
    /\ promoter.at = "recover" /\ RecoverKeeps
    /\ IF journal.status \notin {"COMMITTED", "ROLLED_BACK"}
       THEN replacement' = NoTree /\ backup' = NoTree
       ELSE UNCHANGED <<replacement, backup>>
    /\ journal' = <<>> /\ At("assess")
    /\ UNCHANGED <<rpHost, canonical, importLedger, candidates, rpBounds>>

(* Otherwise the swap must not survive: canonical is removed, then the      *)
(* backup moved into its place, then the leftovers go.                      *)
RecoverRemove ==
    /\ promoter.at = "recover" /\ ~RecoverKeeps
    /\ canonical' = NoTree /\ At("restore")
    /\ UNCHANGED <<rpHost, replacement, backup, journal, importLedger,
                   candidates, rpBounds>>

RecoverRestore ==
    /\ promoter.at = "restore"
    /\ IF backup = NoTree THEN UNCHANGED <<canonical, backup>>
       ELSE canonical' = backup /\ backup' = NoTree
    /\ At("discard")
    /\ UNCHANGED <<rpHost, replacement, journal, importLedger, candidates,
                   rpBounds>>

RecoverDiscard ==
    /\ promoter.at = "discard"
    /\ replacement' = NoTree
    /\ candidates' = IF journal.kept THEN candidates
                     ELSE candidates \ {journal.bundle}
    /\ journal' = <<>> /\ At("assess")
    /\ UNCHANGED <<rpHost, canonical, backup, importLedger, rpBounds>>

-----------------------------------------------------------------------------
(* assess, then the swap.                                                   *)

StagedBundle(b) == canonical # NoTree /\ b \in canonical.staged

ReplayUnchecked(b) == StagedBundle(b) /\ LedgerValid

(* The staged bundle is there and was never imported. *)
Assessed(b) == StagedBundle(b) /\ LedgerValid /\ ~LedgerContains(b)

(* The semantic verification of the candidate may fail for other reasons. *)
AssessFails ==
    /\ promoter.at = "assess" /\ promoter' = IdlePromoter
    /\ UNCHANGED <<rpHost, rpTrees, journal, importLedger, candidates,
                   rpBounds>>

Assess ==
    /\ promoter.at = "assess" /\ Assessed(promoter.bundle)
    /\ replacement' = [canonical EXCEPT !.evidence = @ \cup {promoter.bundle}]
    /\ backup' = NoTree
    /\ promoter' = [promoter EXCEPT !.at = "prepare",
                       !.kept = promoter.bundle \in candidates]
    /\ UNCHANGED <<rpHost, canonical, journal, importLedger, candidates,
                   rpBounds>>

Prepare ==
    /\ promoter.at = "prepare"
    /\ Journalled("PREPARED") /\ At("backup")
    /\ UNCHANGED <<rpHost, rpTrees, importLedger, candidates, rpBounds>>

SwapOut ==
    /\ promoter.at = "backup"
    /\ backup' = canonical /\ canonical' = NoTree /\ At("swap")
    /\ UNCHANGED <<rpHost, replacement, journal, importLedger, candidates,
                   rpBounds>>

SwapIn ==
    /\ promoter.at = "swap"
    /\ canonical' = replacement /\ replacement' = NoTree /\ At("swapped")
    /\ UNCHANGED <<rpHost, backup, journal, importLedger, candidates,
                   rpBounds>>

Swapped ==
    /\ promoter.at = "swapped"
    /\ Journalled("CANONICAL_SWAPPED") /\ At("verify")
    /\ UNCHANGED <<rpHost, rpTrees, importLedger, candidates, rpBounds>>

CopyLockCandidates(b) == candidates' = candidates \cup ({b} \cap LockBundles)

(* _post_promotion_verify passes; the locks are kept as a candidate. *)
PostVerify ==
    /\ promoter.at = "verify"
    /\ CopyLockCandidates(promoter.bundle)
    /\ promoter' = [promoter EXCEPT !.at = "verified",
                       !.made = promoter.bundle \in LockBundles]
    /\ UNCHANGED <<rpHost, rpTrees, journal, importLedger, rpBounds>>

PostVerified ==
    /\ promoter.at = "verified"
    /\ Journalled("POST_VERIFIED") /\ At("append")
    /\ UNCHANGED <<rpHost, rpTrees, importLedger, candidates, rpBounds>>

AppendImportLedger ==
    /\ promoter.at = "append"
    /\ importLedger' = Append(importLedger, promoter.bundle)
    /\ At("appended")
    /\ UNCHANGED <<rpHost, rpTrees, journal, candidates, rpBounds>>

LedgerCommitted ==
    /\ promoter.at = "appended"
    /\ Journalled("LEDGER_COMMITTED") /\ At("commit")
    /\ UNCHANGED <<rpHost, rpTrees, importLedger, candidates, rpBounds>>

Commit ==
    /\ promoter.at = "commit"
    /\ backup' = NoTree /\ Journalled("COMMITTED") /\ At("done")
    /\ UNCHANGED <<rpHost, canonical, replacement, importLedger, candidates,
                   rpBounds>>

(* The journal is removed after COMMITTED or ROLLED_BACK. *)
Done ==
    /\ promoter.at = "done"
    /\ journal' = <<>> /\ promoter' = IdlePromoter
    /\ UNCHANGED <<rpHost, rpTrees, importLedger, candidates, rpBounds>>

-----------------------------------------------------------------------------
(* Any step after PREPARED may raise, the journal writes included; the      *)
(* handler rolls the swap back whatever the ledger holds by then.           *)

InTry == {"backup", "swap", "swapped", "verify", "verified", "append",
          "appended"}

SwapRaises ==
    /\ promoter.at \in InTry /\ rpFailures < MaxFailures
    /\ rpFailures' = rpFailures + 1
    /\ canonical' = NoTree /\ At("rollback")
    /\ UNCHANGED <<rpHost, replacement, backup, journal, importLedger,
                   candidates, rpCrashes, rpPromotions>>

Rollback ==
    /\ promoter.at = "rollback"
    /\ IF backup # NoTree
       THEN canonical' = backup /\ backup' = NoTree
       ELSE UNCHANGED <<canonical, backup>>
    /\ replacement' = NoTree
    /\ candidates' = IF promoter.made /\ ~promoter.kept
                     THEN candidates \ {promoter.bundle} ELSE candidates
    /\ At("rolled")
    /\ UNCHANGED <<rpHost, journal, importLedger, rpBounds>>

RolledBack ==
    /\ promoter.at = "rolled"
    /\ Journalled("ROLLED_BACK") /\ At("done")
    /\ UNCHANGED <<rpHost, rpTrees, importLedger, candidates, rpBounds>>

PromoterCrash ==
    /\ promoter.at # "idle" /\ rpCrashes < MaxCrashes
    /\ rpCrashes' = rpCrashes + 1
    /\ promoter' = IdlePromoter
    /\ UNCHANGED <<rpHost, rpTrees, journal, importLedger, candidates,
                   rpFailures, rpPromotions>>

PromotionNext ==
    \/ \E v \in Versions : EvidenceRewritten(v)
    \/ \E b \in Bundles : BuildRows(b) \/ Stage(b) \/ StageAnew(b) \/ Promote(b)
    \/ BuildArchive
    \/ RecoverFinalize \/ RecoverRemove \/ RecoverRestore \/ RecoverDiscard
    \/ Assess \/ AssessFails \/ Prepare \/ SwapOut \/ SwapIn \/ Swapped
    \/ PostVerify \/ PostVerified \/ AppendImportLedger \/ LedgerCommitted
    \/ Commit \/ Done
    \/ SwapRaises \/ Rollback \/ RolledBack
    \/ PromoterCrash

PromotionSpec == PromotionInit /\ [][PromotionNext]_promotionVars

-----------------------------------------------------------------------------
AtRest == promoter.at = "idle" /\ journal = <<>>

(* Evidence and lock candidates are in the checkout only under an event of  *)
(* the import ledger once no transaction is pending, whichever step raised  *)
(* or crashed, recovery's own steps included                                *)
(* (acceptance_return_promotion.py, 224: a swap without a ledger event must *)
(* not survive).                                                            *)
OnlyLedgeredEvidence ==
    AtRest => /\ canonical # NoTree => \A b \in canonical.evidence : LedgerContains(b)
              /\ \A b \in candidates : LedgerContains(b)

(* No bundle is imported twice, through any sequence of crashes, rollbacks  *)
(* and repeated promotions, so the ledger never fails its own duplicate     *)
(* check (acceptance_return_promotion.py, 127 and 387).                     *)
ImportedOnce == IsInjective(importLedger)

(* What was staged is what the manifest was hashed from, however the        *)
(* evidence changed while the archive was built                             *)
(* (acceptance_return_bundle.py, 138-157).                                  *)
StagedIsWhatWasHashed ==
    canonical # NoTree =>
        \A b \in canonical.staged : rpArchive[b].member = rpArchive[b].row

\* acceptance_return_promotion.py: evidence gets into the checkout once, as it
\* was hashed, and with an entry in the import ledger.
PromotionIsAccountedFor ==
  /\ OnlyLedgeredEvidence
  /\ ImportedOnce
  /\ StagedIsWhatWasHashed

(* Stated by the code: recovery restores an interrupted swap                *)
(* deterministically, and a failed transaction cannot become                *)
(* replay-authoritative; so at rest the checkout holds exactly the evidence *)
(* its ledger lists (acceptance_return_promotion.py, 194 and 500-501).      *)
LedgerIsInstalled ==
    AtRest => /\ canonical # NoTree
              /\ canonical.evidence = ToSet(importLedger)
=============================================================================
