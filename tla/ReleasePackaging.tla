--------------------------- MODULE ReleasePackaging ---------------------------
(* scripts/package_release.py, package_evidence.py, package_distribution.py, *)
(* extract_source_package.py and verify_source_package_identity.py.  One     *)
(* packaging command runs at a time, beside extractions, checkouts, edits    *)
(* and deaths.  A file is a version number: the commit that wrote it, or     *)
(* Edited; the digest of a file or of an archive is its content.             *)
EXTENDS Naturals, FiniteSets

CONSTANTS Sources,     \* files of the source archive
          MaxCommit,   \* bound on commits
          MaxCheckouts, \* bound on checkouts
          MaxEdits,    \* bound on uncommitted edits
          MaxPackages  \* bound on packaging commands

VARIABLES work,    \* the working tree: sources, release manifest, report
          head,    \* the commit checked out
          out,     \* archives, sums and provenance in the output directory
          pack,    \* the packaging command; returned is history: HEAD came
                   \* back to the commit it started from
          unpack,  \* the extraction
          dest,    \* the extraction's destination
          checkouts, edits, packages

packageVars ==
    <<work, head, out, pack, unpack, dest, checkouts, edits, packages>>

Edited == 99
Missing == 0
(* The canonical release manifest and a file the merged manifest refers to; *)
(* LOCAL_SOURCE_PROVENANCE.json ("provenance") reports a clean commit.      *)
Evidence == {"release", "report"}

ASSUME PackagingAssumption == Sources \cap (Evidence \cup {"provenance"}) = {}

None == [files |-> {}]
NoPack == [cmd |-> "none", at |-> "idle", todo |-> {}, sums |-> None,
           zip |-> None, commit |-> 0, named |-> 0, returned |-> FALSE]
NoUnpack == [at |-> "idle", manifest |-> FALSE, todo |-> {}, staged |-> None]

PackagingInit ==
    /\ head = 1 /\ checkouts = 0 /\ edits = 0 /\ packages = 0
    /\ work = [f \in Sources \cup Evidence \cup {"provenance"} |-> 1]
    /\ out = [source |-> None, evidence |-> None, sums |-> None,
              bundle |-> None, provenance |-> None]
    /\ pack = NoPack /\ unpack = NoUnpack /\ dest = None

(* Sets of <<file, version>>: the manifest's rows, none when the archive    *)
(* has no manifest, and the members.                                        *)
Archive(rows, members, commit) ==
    [files |-> members, rows |-> rows, commit |-> commit]

ReadableArchive(a) == a # None

(* verify_archive, verify_evidence_archive and, on an extracted tree,       *)
(* verify_source_package_identity: there is one manifest, and the members   *)
(* are its rows, no more, no fewer, with their digests.                     *)
ArchiveVerified(a) == a # None /\ a.rows # {} /\ a.files = a.rows
EvidenceVerified(a) ==
    /\ a # None /\ a.rows # {}
    /\ a.rows \subseteq a.files /\ a.files \subseteq a.rows
IdentityVerified(tree) == tree.rows # {} /\ tree.files = tree.rows

-----------------------------------------------------------------------------
(* validate_release_binding: the release manifest is HEAD's and the         *)
(* provenance report says that HEAD was clean when it was generated.        *)
ReleaseBound == work.release = head /\ work.provenance = head

(* The three mains; build_distribution starts once the binding holds.       *)
StartPackage(cmd) ==
    /\ pack.at = "idle" /\ packages < MaxPackages
    /\ cmd = "distribution" => ReleaseBound
    /\ packages' = packages + 1
    /\ pack' = [NoPack EXCEPT !.cmd = cmd, !.commit = head,
                  !.at = IF cmd = "evidence" THEN "collect" ELSE "hash",
                  !.todo = IF cmd = "evidence" THEN Evidence ELSE Sources]
    /\ UNCHANGED <<work, head, out, unpack, dest, checkouts, edits>>

(* collect_files: a referenced file that is missing is refused.             *)
CollectFiles ==
    /\ pack.at = "collect"
    /\ pack' = IF work.report = Missing THEN NoPack
               ELSE [pack EXCEPT !.at = "hash"]
    /\ UNCHANGED <<work, head, out, unpack, dest, checkouts, edits, packages>>

(* make_manifest, one file: its digest now.                                 *)
DigestFile ==
    /\ pack.at = "hash"
    /\ \E f \in pack.todo :
         pack' = [pack EXCEPT !.todo = @ \ {f},
                              !.sums.files = @ \cup {<<f, work[f]>>}]
    /\ UNCHANGED <<work, head, out, unpack, dest, checkouts, edits, packages>>

Role == IF pack.sums.files = {} \/ \E r \in pack.sums.files : r[1] \in Sources
          THEN "source" ELSE "evidence"

(* The manifest is complete: it takes HEAD's name, the old archive goes.    *)
BeginArchive ==
    /\ pack.at = "hash" /\ pack.todo = {}
    /\ out' = [out EXCEPT ![Role] = None]
    /\ pack' = [pack EXCEPT !.at = "write", !.zip = None, !.named = head,
                            !.todo = {r[1] : r \in pack.sums.files}]
    /\ UNCHANGED <<work, head, unpack, dest, checkouts, edits, packages>>

(* The file is read a second time to be archived.                           *)
PackFile ==
    /\ pack.at = "write"
    /\ \E f \in pack.todo :
         /\ work[f] # Missing
         /\ pack' = [pack EXCEPT !.todo = @ \ {f},
                                 !.zip.files = @ \cup {<<f, work[f]>>}]
    /\ UNCHANGED <<work, head, out, unpack, dest, checkouts, edits, packages>>

(* A file that vanished or cannot be read raises inside the archive's       *)
(* context, which closes it: a readable archive without its manifest.       *)
ArchiveRaises ==
    /\ pack.at = "write"
    /\ out' = [out EXCEPT ![Role] = Archive({}, pack.zip.files, 0)]
    /\ pack' = NoPack
    /\ UNCHANGED <<work, head, unpack, dest, checkouts, edits, packages>>

CloseArchive ==
    /\ pack.at = "write" /\ pack.todo = {}
    /\ out' = [out EXCEPT ![Role] =
                 Archive(pack.sums.files, pack.zip.files, pack.named)]
    /\ pack' = [pack EXCEPT !.at = "verify"]
    /\ UNCHANGED <<work, head, unpack, dest, checkouts, edits, packages>>

(* The archive on disk is verified.  package_release publishes its checksum,*)
(* the distribution goes on to the evidence and then to the bundle; an      *)
(* archive that fails stays where it is.                                    *)
VerifyBuilt ==
    /\ pack.at = "verify"
    /\ LET ok == IF Role = "source" THEN ArchiveVerified(out.source)
                 ELSE EvidenceVerified(out.evidence) IN
       /\ pack' = CASE ~ok \/ pack.cmd # "distribution" -> NoPack
                    [] ok /\ pack.cmd = "distribution" /\ Role = "source" ->
                         [pack EXCEPT !.at = "collect", !.todo = Evidence,
                                      !.sums = None]
                    [] OTHER -> [pack EXCEPT !.at = "bundle"]
       /\ out' = IF ok /\ pack.cmd = "source"
                   THEN [out EXCEPT !.sums = out.source] ELSE out
    /\ UNCHANGED <<work, head, unpack, dest, checkouts, edits, packages>>

LateBinding ==
    /\ pack.at = "bundle"
    /\ out' = [out EXCEPT !.bundle = [files |-> {out.source, out.evidence},
                 source |-> out.source, evidence |-> out.evidence,
                 commit |-> head]]
    /\ pack' = [pack EXCEPT !.at = "provenance"]
    /\ UNCHANGED <<work, head, unpack, dest, checkouts, edits, packages>>

(* The evidence must name the commit of the binding; the bundle embeds both *)
(* archives under that commit.                                              *)
BuildBundle ==
    /\ pack.at = "bundle"
    /\ IF out.evidence.commit # pack.commit
         THEN pack' = NoPack /\ UNCHANGED out
         ELSE /\ out' = [out EXCEPT !.bundle =
                           [files |-> {out.source, out.evidence},
                            source |-> out.source, evidence |-> out.evidence,
                            commit |-> pack.commit]]
              /\ pack' = [pack EXCEPT !.at = "provenance"]
    /\ UNCHANGED <<work, head, unpack, dest, checkouts, edits, packages>>

(* build_package_provenance and verify_package_provenance: the detached     *)
(* file counts when HEAD is still the bundle's commit.                      *)
BuildProvenance ==
    /\ pack.at = "provenance"
    /\ out' = [out EXCEPT !.provenance =
                 [files |-> {out.bundle}, release |-> work.release,
                  verified |-> FALSE, returned |-> FALSE]]
    /\ pack' = [pack EXCEPT !.at = "conclude"]
    /\ UNCHANGED <<work, head, unpack, dest, checkouts, edits, packages>>

VerifyProvenance ==
    /\ pack.at = "conclude"
    /\ out' = [out EXCEPT !.provenance.returned = pack.returned,
                          !.provenance.verified =
                 /\ out.provenance.release = work.release
                 /\ out.provenance.files = {out.bundle}
                 /\ out.bundle.commit = head]
    /\ pack' = NoPack
    /\ UNCHANGED <<work, head, unpack, dest, checkouts, edits, packages>>

PackageDies ==
    /\ pack.at # "idle"
    /\ pack' = NoPack
    /\ UNCHANGED <<work, head, out, unpack, dest, checkouts, edits, packages>>

-----------------------------------------------------------------------------
(* extract: a package with a manifest must verify, one without is accepted  *)
(* as unverified; it is then opened again to be copied member by member     *)
(* into a staging directory beside an empty destination.                    *)
StartExtract ==
    /\ unpack.at = "idle" /\ dest = None
    /\ out.source # None
    /\ out.source.rows = {} \/ ArchiveVerified(out.source)
    /\ unpack' = [unpack EXCEPT !.at = "open",
                                !.manifest = out.source.rows # {}]
    /\ UNCHANGED <<work, head, out, pack, dest, checkouts, edits, packages>>

OpenPackage ==
    /\ unpack.at = "open"
    /\ unpack' = IF out.source = None THEN NoUnpack
                 ELSE [unpack EXCEPT !.at = "copy", !.todo = out.source.files,
                         !.staged = [out.source EXCEPT !.files = {}]]
    /\ UNCHANGED <<work, head, out, pack, dest, checkouts, edits, packages>>

ExtractMember ==
    /\ unpack.at = "copy"
    /\ \E r \in unpack.todo :
         unpack' = [unpack EXCEPT !.todo = @ \ {r}, !.staged.files = @ \cup {r}]
    /\ UNCHANGED <<work, head, out, pack, dest, checkouts, edits, packages>>

PublishUnchecked ==
    /\ unpack.at = "copy" /\ unpack.todo = {}
    /\ dest' = [tree |-> unpack.staged, verified |-> unpack.manifest]
    /\ unpack' = NoUnpack
    /\ UNCHANGED <<work, head, out, pack, checkouts, edits, packages>>

(* The staged tree is verified against its own manifest, when the package   *)
(* had one, and renamed into place; one that fails is removed.              *)
PublishTree ==
    /\ unpack.at = "copy" /\ unpack.todo = {}
    /\ dest' = IF unpack.manifest /\ ~IdentityVerified(unpack.staged) THEN dest
               ELSE [tree |-> unpack.staged, verified |-> unpack.manifest]
    /\ unpack' = NoUnpack
    /\ UNCHANGED <<work, head, out, pack, checkouts, edits, packages>>

(* An I/O error or the death of the extraction: the staging directory goes  *)
(* or is left beside the destination, which stays empty.                    *)
ExtractFails ==
    /\ unpack.at # "idle"
    /\ unpack' = NoUnpack
    /\ UNCHANGED <<work, head, out, pack, dest, checkouts, edits, packages>>

-----------------------------------------------------------------------------
(* git checkout of another commit, an older or a newer one, also while a    *)
(* command runs.  The release manifest and the reports stay: they are       *)
(* ignored, or local changes that git carries over.                         *)
Checkout ==
    /\ checkouts < MaxCheckouts /\ checkouts' = checkouts + 1
    /\ \E c \in (1..MaxCommit) \ {head} :
         /\ head' = c
         /\ work' = [f \in DOMAIN work |-> IF f \in Sources THEN c ELSE work[f]]
         /\ pack' = [pack EXCEPT !.returned = @ \/ c = pack.commit]
    /\ UNCHANGED <<out, unpack, dest, edits, packages>>

(* The release manifest and the provenance report are generated for HEAD.   *)
Regenerate ==
    /\ work.release # head \/ work.provenance # head
    /\ work' = [work EXCEPT !.release = head, !.provenance =
                  IF \A f \in Sources : work[f] = head THEN head ELSE Edited]
    /\ UNCHANGED <<head, out, pack, unpack, dest, checkouts, edits, packages>>

(* A source is edited without a commit, or a report is removed.             *)
EditFile ==
    /\ edits < MaxEdits
    /\ edits' = edits + 1
    /\ \/ \E f \in Sources : work' = [work EXCEPT ![f] = Edited]
       \/ work' = [work EXCEPT !.report = Missing]
    /\ UNCHANGED <<head, out, pack, unpack, dest, checkouts, packages>>

PackagingNext ==
    \/ \E cmd \in {"source", "evidence", "distribution"} : StartPackage(cmd)
    \/ CollectFiles \/ DigestFile \/ BeginArchive \/ PackFile
    \/ ArchiveRaises \/ CloseArchive \/ VerifyBuilt \/ BuildBundle
    \/ BuildProvenance \/ VerifyProvenance
    \/ PackageDies
    \/ StartExtract \/ OpenPackage \/ ExtractMember \/ PublishTree
    \/ ExtractFails
    \/ Checkout \/ Regenerate \/ EditFile

PackagingSpec == PackagingInit /\ [][PackagingNext]_packageVars

-----------------------------------------------------------------------------
(* A distribution carries the sources of the commit it names and the        *)
(* release manifest of that commit.                                         *)
OfOneCommit(b) ==
    /\ \A r \in b.source.files : r[2] = b.commit
    /\ <<"release", b.commit>> \in b.evidence.files

(* A distribution whose provenance verified is of one commit although HEAD  *)
(* may move at any point of the build: a HEAD that stays away is noticed,   *)
(* by the evidence or by the verification.  One that came back is not: HEAD *)
(* is asked at the binding, for the evidence and at the end, and not around *)
(* the reading of the sources.  Uncommitted edits are outside too: the      *)
(* binding trusts a report about the clean tree and reads the tree later.   *)
DistributionIsOneCommit ==
    out.provenance # None /\ edits = 0 =>
        (out.provenance.verified /\ ~out.provenance.returned =>
           \A b \in out.provenance.files : OfOneCommit(b))

(* The same wherever HEAD went meanwhile.                                   *)
DistributionIsOneCommitAnyway ==
    out.provenance # None /\ edits = 0 =>
        (out.provenance.verified => \A b \in out.provenance.files : OfOneCommit(b))

(* The published checksum is that of an archive that agrees with its own    *)
(* manifest, although every file is read twice and may change in between.   *)
ChecksumIsOfVerified == out.sums # None => out.sums.files = out.sums.rows

(* A tree extracted as identity verified is a complete tree of one package: *)
(* never part of one, and never the members of an archive that replaced the *)
(* verified one on disk without agreeing with its own manifest.             *)
VerifiedTreeIsWhole ==
    dest # None => (dest.verified =>
        dest.tree.rows # {} /\ dest.tree.files = dest.tree.rows)

\* The packaging and extraction scripts: what is published together belongs
\* together.
PackagesAreCoherent ==
  /\ DistributionIsOneCommit
  /\ ChecksumIsOfVerified
  /\ VerifiedTreeIsWhole
=============================================================================
