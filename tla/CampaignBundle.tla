--------------------------- MODULE CampaignBundle ---------------------------
(* How sealed campaign evidence travels: build_bundle reads it on the host  *)
(* that ran the campaign while challenges and seals may still be written    *)
(* there, verify_and_stage and handoff install it file by file in another   *)
(* checkout.  A file is its content, a receipt the challenge and the sealed *)
(* source it names.                                                         *)
EXTENDS Naturals, Sequences

CONSTANTS BundleReceipts,   \* the receipts a bundle must hold
          Outputs,        \* output paths of build_bundle
          NoArchive,      \* no file at an output path
          NoEvidence,         \* no file at a path of the receiving checkout
          FileOrder,      \* the order in which a loop visits the files
          MaxHostWrites,  \* bound: new challenges and sealed sources
          MaxHandoffs     \* bound: handoff and staging commands

VARIABLES cbHost,      \* content of each file on the campaign host
          cbWrites,    \* challenges and sources written on the host
          cbBuild,     \* the running build_bundle
          cbArchives,  \* published archives by output path
          cbRoot,      \* the receiving checkout's evidence files
          cbHand,      \* the running handoff or staging command
          cbReceipt,   \* the last handoff receipt
          cbHandoffs   \* commands started on the receiving side

bundleVars == <<cbHost, cbWrites, cbBuild, cbArchives, cbRoot, cbHand,
                cbReceipt, cbHandoffs>>
cbHostVars == <<cbHost, cbWrites>>
cbRootVars == <<cbRoot, cbHand, cbReceipt, cbHandoffs>>

CampaignFiles == BundleReceipts \cup {"challenge", "source"}
NoBundleFiles == [f \in CampaignFiles |-> NoEvidence]

(* A challenge or a source is the write that made it. *)
Contents == Seq(Nat) \cup [challenge : Seq(Nat), source : Seq(Nat)]

ASSUME BundleAssumption ==
    /\ BundleReceipts \cap {"challenge", "source"} = {}
    /\ FileOrder \in Seq(CampaignFiles) /\ Len(FileOrder) > 0
    /\ {FileOrder[i] : i \in 1..Len(FileOrder)} = CampaignFiles
    /\ NoEvidence \notin Contents

IdleBuild == [at |-> "idle", i |-> 1, bound |-> NoEvidence, hashes |-> NoBundleFiles,
              members |-> NoBundleFiles, output |-> NoArchive]
IdleHand == [at |-> "idle", i |-> 1, output |-> NoArchive]

(* A receipt of these files names the challenge and the source among them. *)
Names(files, k, c) == files[k] = [challenge |-> c, source |-> files["source"]]

BundleInit ==
    /\ cbHost = [f \in CampaignFiles |->
                   IF f \in BundleReceipts
                   THEN [challenge |-> <<0>>, source |-> <<0>>]
                   ELSE <<0>>]
    /\ cbWrites = 0
    /\ cbBuild = IdleBuild
    /\ cbArchives = [o \in Outputs |-> NoArchive]
    /\ cbRoot = NoBundleFiles
    /\ cbHand = IdleHand
    /\ cbReceipt = [verified |-> FALSE, output |-> NoArchive]
    /\ cbHandoffs = 0

-----------------------------------------------------------------------------
(* The campaign host: a challenge is issued again, a seal writes a new      *)
(* source and then its receipts one after the other.                        *)

HostWrites(f) ==
    /\ f \in {"challenge", "source"} /\ cbWrites < MaxHostWrites
    /\ cbWrites' = cbWrites + 1
    /\ cbHost' = [cbHost EXCEPT ![f] = <<cbWrites + 1>>]
    /\ UNCHANGED <<cbBuild, cbArchives, cbRootVars>>

HostReceipt(k) ==
    /\ ~Names(cbHost, k, cbHost["challenge"])
    /\ cbHost' = [cbHost EXCEPT ![k] = [challenge |-> cbHost["challenge"],
                                         source |-> cbHost["source"]]]
    /\ UNCHANGED <<cbWrites, cbBuild, cbArchives, cbRootVars>>

-----------------------------------------------------------------------------
(* build_bundle: check every receipt against the challenge it read first,   *)
(* hash every file, archive every file again, publish without replacing.    *)

BuildStart(o) ==
    /\ cbBuild.at = "idle" /\ cbArchives[o] = NoArchive
    /\ cbBuild' = [IdleBuild EXCEPT !.at = "check", !.output = o,
                                    !.bound = cbHost["challenge"]]
    /\ UNCHANGED <<cbHostVars, cbArchives, cbRootVars>>

BuildFile == FileOrder[cbBuild.i]

(* One turn of a loop over the files: go on with result, or fail. *)
BuildStep(at, ok, result, next) ==
    LET last == cbBuild.i = Len(FileOrder)
    IN /\ cbBuild.at = at
       /\ cbBuild' = IF ok
                     THEN [result EXCEPT !.i = IF last THEN 1 ELSE @ + 1,
                                         !.at = IF last THEN next ELSE at]
                     ELSE IdleBuild
       /\ UNCHANGED <<cbHostVars, cbArchives, cbRootVars>>

CheckReceipt ==
    BuildStep("check",
              BuildFile \in BundleReceipts =>
                  Names(cbHost, BuildFile, cbBuild.bound),
              cbBuild, "hash")

HashFile ==
    BuildStep("hash", TRUE,
              [cbBuild EXCEPT !.hashes[BuildFile] = cbHost[BuildFile]],
              "archive")

ArchiveFile ==
    BuildStep("archive", cbHost[BuildFile] = cbBuild.hashes[BuildFile],
              [cbBuild EXCEPT !.members[BuildFile] = cbHost[BuildFile]],
              "publish")

PublishNoReplace ==
    /\ cbBuild.at = "publish"
    /\ cbArchives[cbBuild.output] = NoArchive
    /\ cbArchives' = [cbArchives EXCEPT ![cbBuild.output] = cbBuild.members]
    /\ cbBuild' = IdleBuild
    /\ UNCHANGED <<cbHostVars, cbRootVars>>

(* The builder dies; its temporary file is never published. *)
BuildCrash ==
    /\ cbBuild.at # "idle" /\ cbBuild' = IdleBuild
    /\ UNCHANGED <<cbHostVars, cbArchives, cbRootVars>>

-----------------------------------------------------------------------------
(* The receiving checkout.                                                  *)

(* verify_and_stage: every receipt's source is a member with that content. *)
Transferable(members) ==
    \A k \in BundleReceipts : members[k].source = members["source"]

DestinationsFree == \A f \in CampaignFiles : cbRoot[f] = NoEvidence

RefusedHandoff == [verified |-> FALSE, output |-> NoArchive]

(* handoff verifies the transfer in a fresh staging tree, then requires     *)
(* every destination to be free.  Environment and topology of the manifest  *)
(* may differ from the expected ones (agree).                               *)
HandoffStart(o, agree) ==
    /\ cbHand.at = "idle" /\ cbHandoffs < MaxHandoffs
    /\ cbArchives[o] # NoArchive
    /\ cbHandoffs' = cbHandoffs + 1
    /\ IF agree /\ Transferable(cbArchives[o]) /\ DestinationsFree
       THEN /\ cbHand' = [at |-> "copy", i |-> 1, output |-> o]
            /\ UNCHANGED cbReceipt
       ELSE /\ cbReceipt' = RefusedHandoff
            /\ UNCHANGED cbHand
    /\ UNCHANGED <<cbHostVars, cbBuild, cbArchives, cbRoot>>

(* The staging command runs verify_and_stage on the checkout itself. *)
StageStart(o) ==
    /\ cbHand.at = "idle" /\ cbHandoffs < MaxHandoffs
    /\ cbArchives[o] # NoArchive /\ Transferable(cbArchives[o])
    /\ cbHandoffs' = cbHandoffs + 1
    /\ cbHand' = [at |-> "stage", i |-> 1, output |-> o]
    /\ UNCHANGED <<cbHostVars, cbBuild, cbArchives, cbRoot, cbReceipt>>

Install(next) ==
    LET f == FileOrder[cbHand.i]
        last == cbHand.i = Len(FileOrder)
    IN /\ cbRoot' = [cbRoot EXCEPT ![f] = cbArchives[cbHand.output][f]]
       /\ cbHand' = IF last THEN [cbHand EXCEPT !.at = next]
                    ELSE [cbHand EXCEPT !.i = @ + 1]
       /\ UNCHANGED <<cbHostVars, cbBuild, cbArchives, cbReceipt, cbHandoffs>>

CopyFile == cbHand.at = "copy" /\ Install("verify")

(* A destination that exists ends staging; what it wrote before stays. *)
StageFile ==
    /\ cbHand.at = "stage"
    /\ \/ cbRoot[FileOrder[cbHand.i]] = NoEvidence /\ Install("staged")
       \/ /\ cbRoot[FileOrder[cbHand.i]] # NoEvidence
          /\ cbHand' = IdleHand
          /\ UNCHANGED <<cbHostVars, cbBuild, cbArchives, cbRoot, cbReceipt,
                         cbHandoffs>>

StageEnd ==
    /\ cbHand.at = "staged" /\ cbHand' = IdleHand
    /\ UNCHANGED <<cbHostVars, cbBuild, cbArchives, cbRoot, cbReceipt,
                   cbHandoffs>>

CampaignVerifiedUnbound(k) == Names(cbRoot, k, cbRoot[k].challenge)

(* verify_campaign_evidence binds a receipt to the challenge beside it. *)
CampaignVerified(k) == Names(cbRoot, k, cbRoot["challenge"])

(* trusted: verify_challenge with the trust anchor, for this candidate. *)
HandoffVerify(trusted) ==
    /\ cbHand.at = "verify"
    /\ cbReceipt' = IF trusted /\ \A k \in BundleReceipts : CampaignVerified(k)
                    THEN [verified |-> TRUE, output |-> cbHand.output]
                    ELSE RefusedHandoff
    /\ cbHand' = IdleHand
    /\ UNCHANGED <<cbHostVars, cbBuild, cbArchives, cbRoot, cbHandoffs>>

HandoffCrash ==
    /\ cbHand.at # "idle" /\ cbHand' = IdleHand
    /\ UNCHANGED <<cbHostVars, cbBuild, cbArchives, cbRoot, cbReceipt,
                   cbHandoffs>>

BundleNext ==
    \/ \E f \in CampaignFiles : HostWrites(f)
    \/ \E k \in BundleReceipts : HostReceipt(k)
    \/ \E o \in Outputs : BuildStart(o) \/ StageStart(o)
    \/ CheckReceipt \/ HashFile \/ ArchiveFile \/ PublishNoReplace \/ BuildCrash
    \/ \E o \in Outputs, agree \in BOOLEAN : HandoffStart(o, agree)
    \/ CopyFile \/ StageFile \/ StageEnd \/ HandoffCrash
    \/ \E trusted \in BOOLEAN : HandoffVerify(trusted)

BundleSpec == BundleInit /\ [][BundleNext]_bundleVars

-----------------------------------------------------------------------------
(* A verified handoff is one bundle, all of it, and its receipts name the   *)
(* challenge and the source installed with them, whatever was written on    *)
(* the campaign host between the builder's three passes over the files      *)
(* (build_campaign_evidence_bundle.py, 283-342) and whatever an interrupted *)
(* handoff left behind.                                                     *)
VerifiedHandoffIsCoherent ==
    cbReceipt.verified =>
        /\ cbRoot = cbArchives[cbReceipt.output]
        /\ \A k \in BundleReceipts : Names(cbRoot, k, cbRoot["challenge"])
=============================================================================
