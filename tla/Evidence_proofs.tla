--------------------------- MODULE Evidence_proofs ---------------------------
(* Acceptance evidence, for any profiles, workers, commits, environments,    *)
(* receipts and bundles: the ledger only grows and what the verifier accepts *)
(* was earned; a verified handoff installed one coherent bundle; a promotion *)
(* leaves only evidence the import ledger knows; release packages are of one *)
(* tree; the TESTNET scenario keeps its caps and leaves no order open; the   *)
(* campaign journal loses no event and its receipts only grow; the campaign  *)
(* collection goes on from itself and what is sealed of it is intact.        *)
EXTENDS AcceptancePipeline, CampaignBundle, ReturnPromotion, ReleasePackaging,
        TestnetScenario, CampaignJournal, CampaignCollection, FiniteSetTheorems, TLAPS

Places == {"next", "commands", "manifest", "lock", "append", "read"}
Steps == Profiles \cup {"challenge", "reuse", "merge", "sign", "verify", "release", "gate"}
RunDocs == [run : Nat, real : BOOLEAN, env : Environments, pass : BOOLEAN,
            began : Commits, challenge : Nat]
Manifests == [run : Nat, real : BOOLEAN, env : Environments, pass : BOOLEAN,
              began : Commits, challenge : Nat, commit : Commits, day : Nat]
Entries == [run : Nat, challenge : Nat, commit : Commits,
            profile : Profiles \cup {"all-merged"}]
Challenges == [id : Nat, commit : Commits, clean : BOOLEAN, day : Nat, trusted : BOOLEAN]
Docs == {NoDoc} \cup Commits \cup RunDocs \cup Entries
Rows == [profile : Profiles, doc : {NoDoc} \cup Manifests, verified : BOOLEAN,
         pass : BOOLEAN]
WorkerStates == [at : Places, todo : Seq(Steps), run : Nat, doc : Docs,
                 snapshot : Seq(Docs), read : Seq(Rows), all : BOOLEAN,
                 verified : BOOLEAN]

FilesOK ==
    /\ apHead \in Commits /\ apClean \in BOOLEAN /\ apDay \in Nat /\ apIds \in Nat
    /\ apChallenge \in {NoDoc} \cup Challenges
    /\ apManifest \in [Profiles -> {NoDoc} \cup Manifests]
    /\ apLedger \in Seq(Docs)

(* A command that is under way has a step to do, and its document is of the *)
(* kind that step works on.                                                 *)
StateOK(r) ==
    /\ r \in WorkerStates
    /\ r.at # "next" => r.todo # <<>>
    /\ r.at \in {"commands", "manifest"} => r.doc \in RunDocs
    /\ r.at = "read" => r.doc \in Commits

(* append_entry holds the lock from its read to its write. *)
LedgerOK(w, r) == r.at = "append" => apLock = w /\ r.snapshot = apLedger

(* A document that names a challenge was begun at that challenge's commit. *)
KnownIn(doc, ids, named) ==
    /\ doc.challenge <= ids
    /\ (named # NoDoc /\ doc.challenge = named.id) => doc.began = named.commit

Known(doc) == KnownIn(doc, apIds, apChallenge)

RunOK(r) ==
    /\ (r.at = "commands" /\ r.doc.real) => Known(r.doc)
    /\ (r.at = "manifest" /\ r.doc.pass) => Known(r.doc)

WorkerInv ==
    /\ worker \in [Workers -> WorkerStates]
    /\ \A w \in Workers : StateOK(worker[w]) /\ LedgerOK(w, worker[w]) /\ RunOK(worker[w])

ChallengeInv ==
    /\ apChallenge # NoDoc => apChallenge.id <= apIds
    /\ \A p \in Profiles :
          (apManifest[p] # NoDoc /\ apManifest[p].pass) => Known(apManifest[p])

GateInv == apRelease.status = "BLOCKED" /\ apReady = FALSE

AcceptanceInv == FilesOK /\ WorkerInv /\ ChallengeInv /\ GateInv

-----------------------------------------------------------------------------
(* Steps of one command.                                                    *)

LEMMA IdleOK == IdleWorker \in WorkerStates /\ IdleWorker.at = "next"
  BY DEF IdleWorker, WorkerStates, Places, Docs

(* The command of w goes on in state r; whoever else holds the lock keeps   *)
(* it, and no document becomes less known.                                  *)
LEMMA WorkerStep ==
  ASSUME WorkerInv, NEW w \in Workers, NEW r, StateOK(r),
         worker' = [worker EXCEPT ![w] = r],
         r.at = "append" => apLock' = w /\ r.snapshot = apLedger',
         (r.at = "commands" /\ r.doc.real) \/ (r.at = "manifest" /\ r.doc.pass) =>
           KnownIn(r.doc, apIds', apChallenge'),
         \A v \in Workers \ {w} : apLock = v => apLock' = v /\ apLedger' = apLedger,
         \A doc \in RunDocs : Known(doc) => KnownIn(doc, apIds', apChallenge')
  PROVE  WorkerInv'
  <1>1. worker' \in [Workers -> WorkerStates]
    BY DEF WorkerInv, StateOK
  <1>2. ASSUME NEW v \in Workers
        PROVE  StateOK(worker'[v]) /\ LedgerOK(v, worker[v])' /\ RunOK(worker[v])'
    <2>1. CASE v = w
      <3>1. worker'[v] = r
        BY <2>1 DEF WorkerInv
      <3> QED BY <2>1, <3>1 DEF LedgerOK, RunOK, Known
    <2>2. CASE v # w
      <3>1. worker'[v] = worker[v] /\ StateOK(worker[v]) /\ LedgerOK(v, worker[v])
            /\ RunOK(worker[v])
        BY <2>2 DEF WorkerInv
      <3>2. LedgerOK(v, worker[v])'
        BY <2>2, <3>1 DEF LedgerOK
      <3>3. RunOK(worker[v])'
        BY <3>1 DEF RunOK, Known, StateOK
      <3> QED BY <3>1, <3>2, <3>3
    <2> QED BY <2>1, <2>2
  <1>3. \A v \in Workers : StateOK(worker[v])'
    BY <1>2 DEF StateOK
  <1> QED BY <1>1, <1>2, <1>3 DEF WorkerInv

(* Nothing but the number of documents changes in the files of concern. *)
QuietFiles ==
    /\ UNCHANGED <<apHead, apClean, apDay, apChallenge, apManifest, apLedger>>
    /\ apIds' = apIds \/ apIds' = apIds + 1

LEMMA QuietFilesOK ==
  ASSUME FilesOK, ChallengeInv, QuietFiles
  PROVE  /\ FilesOK' /\ ChallengeInv' /\ apIds <= apIds'
         /\ \A doc \in RunDocs : Known(doc) => KnownIn(doc, apIds', apChallenge')
  <1>1. FilesOK' /\ apIds \in Nat /\ apIds' \in Nat /\ apIds <= apIds'
    BY DEF FilesOK, QuietFiles
  <1>2. ASSUME NEW doc, doc.challenge \in Nat, Known(doc)
        PROVE  KnownIn(doc, apIds', apChallenge')
    BY <1>1, <1>2 DEF Known, KnownIn, QuietFiles
  <1>3. \A doc \in RunDocs : doc.challenge \in Nat
    BY DEF RunDocs
  <1>4. ASSUME NEW p \in Profiles, apManifest[p] # NoDoc, apManifest[p].pass
        PROVE  KnownIn(apManifest[p], apIds', apChallenge')
    <2>1. apManifest[p].challenge \in Nat
      BY <1>4 DEF FilesOK, Manifests
    <2> QED BY <1>2, <1>4, <2>1 DEF ChallengeInv
  <1>5. apChallenge # NoDoc => apChallenge.id <= apIds'
    <2> SUFFICES ASSUME apChallenge # NoDoc PROVE apChallenge.id <= apIds'
      OBVIOUS
    <2>1. apChallenge.id \in Nat
      BY DEF FilesOK, Challenges
    <2> QED BY <1>1, <2>1 DEF ChallengeInv
  <1>6. ChallengeInv'
    BY <1>4, <1>5 DEF ChallengeInv, QuietFiles, Known
  <1> QED BY <1>1, <1>2, <1>3, <1>6

LEMMA QuietStep ==
  ASSUME FilesOK, WorkerInv, ChallengeInv, QuietFiles, UNCHANGED apLock,
         NEW w \in Workers, NEW r, StateOK(r), worker' = [worker EXCEPT ![w] = r],
         r.at # "append",
         (r.at = "commands" /\ r.doc.real) \/ (r.at = "manifest" /\ r.doc.pass) =>
           KnownIn(r.doc, apIds', apChallenge')
  PROVE  FilesOK' /\ WorkerInv' /\ ChallengeInv'
  BY QuietFilesOK, WorkerStep DEF QuietFiles

(* The command ends its step, or ends. *)
LEMMA StepDoneOK ==
  ASSUME NEW w \in Workers, NEW result \in WorkerStates, result.todo # <<>>,
         StepDone(w, result)
  PROVE  \E r : StateOK(r) /\ r.at = "next" /\ worker' = [worker EXCEPT ![w] = r]
  <1> DEFINE r == IF Len(result.todo) = 1 THEN IdleWorker
                  ELSE [IdleWorker EXCEPT !.todo = Tail(result.todo), !.all = result.all,
                                          !.verified = result.verified]
  <1>1. worker' = [worker EXCEPT ![w] = r]
    BY DEF StepDone
  <1>2. Tail(result.todo) \in Seq(Steps) /\ result.all \in BOOLEAN /\ result.verified \in BOOLEAN
    BY DEF WorkerStates
  <1>3. r \in WorkerStates /\ r.at = "next"
    BY <1>2, IdleOK DEF WorkerStates
  <1> QED BY <1>1, <1>3 DEF StateOK

LEMMA StopCommandOK ==
  ASSUME NEW w \in Workers, StopCommand(w)
  PROVE  \E r : StateOK(r) /\ r.at = "next" /\ worker' = [worker EXCEPT ![w] = r]
  BY IdleOK DEF StopCommand, StateOK

(* A step that ends in "next" and leaves the files of concern alone. *)
LEMMA QuietEnd ==
  ASSUME FilesOK, WorkerInv, ChallengeInv, QuietFiles, UNCHANGED apLock, NEW w \in Workers,
         \E r : StateOK(r) /\ r.at = "next" /\ worker' = [worker EXCEPT ![w] = r]
  PROVE  FilesOK' /\ WorkerInv' /\ ChallengeInv'
  <1>1. PICK r : StateOK(r) /\ r.at = "next" /\ worker' = [worker EXCEPT ![w] = r]
    OBVIOUS
  <1> QED BY <1>1, QuietStep

SafeStep == FilesOK' /\ WorkerInv' /\ ChallengeInv'

LEMMA CommandsAreSteps == CommandSet \subseteq Seq(Steps)
  <1>1. \A p \in Profiles : <<p>> \in Seq(Steps)
    BY DEF Steps
  <1>2. <<"merge">> \in Seq(Steps) /\ <<"challenge">> \in Seq(Steps)
    BY DEF Steps
  <1>3. ASSUME NEW sel \in Selections, NEW b \in BOOLEAN
        PROVE  Orchestration(sel, b) \in Seq(Steps)
    <2>1. sel \in Seq(Steps)
      <3>1. sel \in Seq(Profiles)
        BY AcceptanceAssumption
      <3> QED BY <3>1 DEF Steps
    <2>2. <<"reuse">> \in Seq(Steps) /\ <<"challenge">> \in Seq(Steps)
          /\ <<"merge", "sign", "verify", "release", "gate">> \in Seq(Steps)
      BY DEF Steps
    <2>3. (IF b THEN <<"reuse">> ELSE <<"challenge">>) \in Seq(Steps)
      BY <2>2
    <2> DEFINE start == IF b THEN <<"reuse">> ELSE <<"challenge">>
               rest == <<"merge", "sign", "verify", "release", "gate">>
               begun == start \o sel
    <2>4. Orchestration(sel, b) = begun \o rest
      BY DEF Orchestration
    <2>5. start \in Seq(Steps) /\ rest \in Seq(Steps)
      BY <2>2, <2>3
    <2> HIDE DEF start, rest
    <2>6. begun \in Seq(Steps)
      BY <2>1, <2>5
    <2> HIDE DEF begun
    <2> QED BY <2>4, <2>5, <2>6
  <1> SUFFICES ASSUME NEW c \in CommandSet PROVE c \in Seq(Steps)
    OBVIOUS
  <1>4. \/ \E p \in Profiles : c = <<p>>
        \/ c = <<"merge">> \/ c = <<"challenge">>
        \/ \E sel \in Selections, b \in BOOLEAN : c = Orchestration(sel, b)
    BY DEF CommandSet
  <1> QED BY <1>1, <1>2, <1>3, <1>4

LEMMA StartCommandInv ==
  ASSUME FilesOK, WorkerInv, ChallengeInv, NEW w \in Workers, NEW todo \in CommandSet,
         StartCommand(w, todo)
  PROVE  SafeStep
  <1>1. QuietFiles /\ UNCHANGED apLock
    BY DEF StartCommand, QuietFiles, apTree, apFiles
  <1> DEFINE r == [worker[w] EXCEPT !.todo = todo]
  <1>2. worker' = [worker EXCEPT ![w] = r] /\ worker[w] = IdleWorker
    BY DEF StartCommand
  <1>3. r \in WorkerStates /\ r.at = "next"
    BY <1>2, IdleOK, CommandsAreSteps DEF WorkerStates
  <1> QED BY <1>1, <1>2, <1>3, QuietEnd DEF StateOK, SafeStep

LEMMA StartRunInv ==
  ASSUME FilesOK, WorkerInv, ChallengeInv, NEW w \in Workers, NEW p \in Profiles,
         NEW real \in BOOLEAN, NEW env \in Environments, StartRun(w, p, real, env)
  PROVE  SafeStep
  <1>1. QuietFiles /\ UNCHANGED <<apLock, apChallenge>> /\ apIds' = apIds + 1
    BY DEF StartRun, QuietFiles, NewId, apTree, apFiles
  <1>2. worker[w] \in WorkerStates /\ worker[w].todo # <<>>
    BY DEF StartRun, Doing, WorkerInv
  <1> DEFINE doc == [run |-> apIds + 1, real |-> real, env |-> env, pass |-> FALSE,
                     began |-> apHead,
                     challenge |-> IF real /\ apChallenge # NoDoc THEN apChallenge.id ELSE 0]
             at == IF real /\ ~ChallengeVerified THEN "manifest" ELSE "commands"
             r == [worker[w] EXCEPT !.at = at, !.doc = doc]
  <1>3. worker' = [worker EXCEPT ![w] = r]
    BY DEF StartRun
  <1>4. doc \in RunDocs /\ ~doc.pass /\ doc.real = real /\ doc.began = apHead
        /\ (real /\ apChallenge # NoDoc => doc.challenge = apChallenge.id)
    <2>1. apChallenge # NoDoc => apChallenge.id \in Nat
      BY DEF FilesOK, Challenges
    <2>2. (IF real /\ apChallenge # NoDoc THEN apChallenge.id ELSE 0) \in Nat
      BY <2>1
    <2> QED BY <2>2 DEF RunDocs, FilesOK
  <1>5. (at = "commands" /\ doc.real) => KnownIn(doc, apIds', apChallenge')
    <2> SUFFICES ASSUME at = "commands", doc.real PROVE KnownIn(doc, apIds', apChallenge')
      OBVIOUS
    <2> HIDE DEF doc
    <2>1. real /\ apChallenge # NoDoc /\ apChallenge.commit = apHead
      BY <1>4 DEF ChallengeVerified
    <2>2. doc.challenge = apChallenge.id /\ apChallenge.id <= apIds /\ apChallenge.id \in Nat
      BY <1>4, <2>1 DEF ChallengeInv, FilesOK, Challenges
    <2>3. doc.challenge <= apIds'
      BY <1>1, <2>2 DEF FilesOK
    <2> QED BY <1>1, <1>4, <2>1, <2>2, <2>3 DEF KnownIn
  <1>6. at \in {"commands", "manifest"}
    OBVIOUS
  <1> HIDE DEF doc, at
  <1>7. r \in WorkerStates /\ r.at = at /\ r.doc = doc /\ r.todo # <<>>
    BY <1>2, <1>4, <1>6 DEF WorkerStates, Docs, Places
  <1> HIDE DEF r
  <1>8. StateOK(r)
    BY <1>4, <1>6, <1>7 DEF StateOK
  <1> QED BY <1>1, <1>3, <1>4, <1>5, <1>6, <1>7, <1>8, QuietStep DEF SafeStep

LEMMA RunCommandsInv ==
  ASSUME FilesOK, WorkerInv, ChallengeInv, NEW w \in Workers, NEW p \in Profiles,
         NEW pass \in BOOLEAN, RunCommands(w, p, pass)
  PROVE  SafeStep
  <1>1. QuietFiles /\ UNCHANGED <<apLock, apChallenge, apIds>>
    BY DEF RunCommands, QuietFiles, apTree
  <1>2. worker[w] \in WorkerStates /\ worker[w].todo # <<>> /\ worker[w].doc \in RunDocs
        /\ (worker[w].doc.real => Known(worker[w].doc))
    BY DEF RunCommands, WorkerInv, StateOK, RunOK
  <1> DEFINE doc == [worker[w].doc EXCEPT !.pass = pass]
             r == [worker[w] EXCEPT !.at = "manifest", !.doc = doc]
  <1>3. worker' = [worker EXCEPT ![w] = r]
    BY DEF RunCommands
  <1>4. doc \in RunDocs /\ doc.pass = pass /\ doc.challenge = worker[w].doc.challenge
        /\ doc.began = worker[w].doc.began
    BY <1>2 DEF RunDocs
  <1> HIDE DEF doc
  <1>5. doc.pass => KnownIn(doc, apIds', apChallenge')
    BY <1>1, <1>2, <1>4 DEF RunCommands, Known, KnownIn
  <1>6. r \in WorkerStates /\ r.at = "manifest" /\ r.doc = doc /\ r.todo # <<>>
    BY <1>2, <1>4 DEF WorkerStates, Docs, Places
  <1> HIDE DEF r
  <1>7. StateOK(r)
    BY <1>4, <1>6 DEF StateOK
  <1> QED BY <1>1, <1>3, <1>5, <1>6, <1>7, QuietStep DEF SafeStep

LEMMA WriteManifestInv ==
  ASSUME FilesOK, WorkerInv, ChallengeInv, NEW w \in Workers, NEW p \in Profiles,
         WriteManifest(w, p)
  PROVE  SafeStep
  <1> DEFINE old == worker[w].doc
             doc == [run |-> old.run, real |-> old.real, env |-> old.env,
                     pass |-> old.pass, began |-> old.began,
                     challenge |-> old.challenge, commit |-> apHead, day |-> apDay]
             entry == [run |-> doc.run, challenge |-> doc.challenge,
                       commit |-> doc.commit, profile |-> p]
  <1>1. UNCHANGED <<apHead, apClean, apDay, apChallenge, apLedger, apLock, apIds>>
    BY DEF WriteManifest, apTree
  <1>2. worker[w] \in WorkerStates /\ worker[w].todo # <<>> /\ old \in RunDocs
        /\ (old.pass => Known(old))
    BY DEF WriteManifest, WorkerInv, StateOK, RunOK
  <1>3. doc \in Manifests /\ doc.pass = old.pass /\ doc.challenge = old.challenge
        /\ doc.began = old.began /\ entry \in Entries
    BY <1>2 DEF RunDocs, Manifests, Entries, FilesOK
  <1>4. apManifest' = [apManifest EXCEPT ![p] = doc]
    BY DEF WriteManifest
  <1>5. \/ worker' = [worker EXCEPT ![w].at = "lock", ![w].doc = entry]
        \/ StepDone(w, worker[w])
    BY DEF WriteManifest
  <1> HIDE DEF doc, entry
  <1>6. doc.pass => Known(doc)
    BY <1>2, <1>3 DEF Known, KnownIn
  <1>7. FilesOK'
    BY <1>1, <1>3, <1>4 DEF FilesOK
  <1>8. ChallengeInv'
    <2>1. ASSUME NEW q \in Profiles, apManifest'[q] # NoDoc, apManifest'[q].pass
          PROVE  Known(apManifest'[q])
      BY <1>4, <1>6, <2>1 DEF ChallengeInv, FilesOK
    <2>2. apChallenge' # NoDoc => apChallenge'.id <= apIds'
      BY <1>1 DEF ChallengeInv
    <2>3. \A q \in Profiles : (apManifest'[q] # NoDoc /\ apManifest'[q].pass) => Known(apManifest[q])'
      BY <1>1, <2>1 DEF Known
    <2> QED BY <2>2, <2>3 DEF ChallengeInv
  <1>9. \A d \in RunDocs : Known(d) => KnownIn(d, apIds', apChallenge')
    BY <1>1 DEF Known
  <1>10. CASE StepDone(w, worker[w])
    <2>1. PICK r : StateOK(r) /\ r.at = "next" /\ worker' = [worker EXCEPT ![w] = r]
      BY <1>2, <1>10, StepDoneOK
    <2>2. WorkerInv'
      BY <1>1, <1>9, <2>1, WorkerStep
    <2> QED BY <1>7, <1>8, <2>2 DEF SafeStep
  <1>11. CASE worker' = [worker EXCEPT ![w].at = "lock", ![w].doc = entry]
    <2> DEFINE r == [worker[w] EXCEPT !.at = "lock", !.doc = entry]
    <2>1. worker' = [worker EXCEPT ![w] = r]
      BY <1>11
    <2>2. r \in WorkerStates /\ r.at = "lock" /\ r.todo # <<>>
      BY <1>2, <1>3 DEF WorkerStates, Docs, Places
    <2> HIDE DEF r
    <2>3. StateOK(r)
      BY <2>2 DEF StateOK
    <2>4. WorkerInv'
      BY <1>1, <1>9, <2>1, <2>2, <2>3, WorkerStep
    <2> QED BY <1>7, <1>8, <2>4 DEF SafeStep
  <1> QED BY <1>5, <1>10, <1>11

LEMMA ReadLedgerInv ==
  ASSUME FilesOK, WorkerInv, ChallengeInv, NEW w \in Workers, ReadLedger(w)
  PROVE  SafeStep
  <1>1. QuietFiles /\ UNCHANGED <<apLedger, apChallenge, apIds>> /\ apLock = NoDoc /\ apLock' = w
    BY DEF ReadLedger, QuietFiles, LedgerLockTaken, apTree
  <1>2. worker[w] \in WorkerStates /\ worker[w].todo # <<>>
    BY DEF ReadLedger, WorkerInv, StateOK
  <1> DEFINE r == [worker[w] EXCEPT !.at = "append", !.snapshot = apLedger]
  <1>3. worker' = [worker EXCEPT ![w] = r]
    BY DEF ReadLedger
  <1>4. r \in WorkerStates /\ r.at = "append" /\ r.snapshot = apLedger /\ r.todo # <<>>
    BY <1>2 DEF WorkerStates, Places, FilesOK
  <1> HIDE DEF r
  <1>5. StateOK(r)
    BY <1>4 DEF StateOK
  <1>6. \A v \in Workers \ {w} : apLock # v
    BY <1>1, AcceptanceAssumption
  <1>7. WorkerInv'
    BY <1>1, <1>3, <1>4, <1>5, <1>6, QuietFilesOK, WorkerStep
  <1> QED BY <1>1, <1>7, QuietFilesOK DEF SafeStep

LEMMA Appended ==
  ASSUME NEW S, NEW s \in Seq(S), NEW e \in S
  PROVE  Append(s, e) \in Seq(S) /\ SubSeq(Append(s, e), 1, Len(s)) = s
  OBVIOUS

LEMMA AppendEntryInv ==
  ASSUME FilesOK, WorkerInv, ChallengeInv, NEW w \in Workers, AppendEntry(w)
  PROVE  SafeStep /\ SubSeq(apLedger', 1, Len(apLedger)) = apLedger
  <1>1. UNCHANGED <<apHead, apClean, apDay, apChallenge, apManifest, apIds>>
    BY DEF AppendEntry, apTree
  <1>2. worker[w] \in WorkerStates /\ worker[w].todo # <<>> /\ apLock = w
        /\ worker[w].snapshot = apLedger /\ worker[w].doc \in Docs
    BY DEF AppendEntry, WorkerInv, StateOK, LedgerOK, WorkerStates
  <1>3. apLedger' = Append(apLedger, worker[w].doc)
    BY <1>2 DEF AppendEntry
  <1>4. apLedger' \in Seq(Docs) /\ SubSeq(apLedger', 1, Len(apLedger)) = apLedger
    BY <1>2, <1>3, Appended DEF FilesOK
  <1>5. FilesOK' /\ ChallengeInv'
    BY <1>1, <1>4 DEF FilesOK, ChallengeInv, Known
  <1>6. PICK r : StateOK(r) /\ r.at = "next" /\ worker' = [worker EXCEPT ![w] = r]
    BY <1>2, StepDoneOK DEF AppendEntry
  <1>7. \A d \in RunDocs : Known(d) => KnownIn(d, apIds', apChallenge')
    BY <1>1 DEF Known
  <1>8. WorkerInv'
    BY <1>2, <1>6, <1>7, WorkerStep
  <1> QED BY <1>4, <1>5, <1>8 DEF SafeStep

LEMMA CreateChallengeInv ==
  ASSUME FilesOK, WorkerInv, ChallengeInv, NEW w \in Workers, NEW trusted \in BOOLEAN,
         CreateChallenge(w, trusted)
  PROVE  SafeStep
  <1> DEFINE ch == [id |-> apIds + 1, commit |-> apHead, clean |-> apClean,
                    day |-> apDay, trusted |-> trusted]
  <1>1. UNCHANGED <<apHead, apClean, apDay, apManifest, apLedger, apLock>> /\ apIds' = apIds + 1
        /\ apChallenge' = ch
    BY DEF CreateChallenge, NewId, apTree
  <1>2. worker[w] \in WorkerStates /\ worker[w].todo # <<>>
    BY DEF CreateChallenge, Doing, WorkerInv
  <1>3. ch \in Challenges /\ ch.id = apIds + 1 /\ apIds \in Nat
    BY DEF Challenges, FilesOK
  <1> HIDE DEF ch
  <1>4. ASSUME NEW d, d.challenge \in Nat, Known(d) PROVE KnownIn(d, apIds', apChallenge')
    BY <1>1, <1>3, <1>4 DEF Known, KnownIn
  <1>5. FilesOK'
    BY <1>1, <1>3 DEF FilesOK
  <1>6. \A d \in RunDocs : Known(d) => KnownIn(d, apIds', apChallenge')
    BY <1>4 DEF RunDocs
  <1>7. ChallengeInv'
    <2>1. ASSUME NEW p \in Profiles, apManifest[p] # NoDoc, apManifest[p].pass
          PROVE  KnownIn(apManifest[p], apIds', apChallenge')
      <3>1. apManifest[p].challenge \in Nat
        BY <2>1 DEF FilesOK, Manifests
      <3> QED BY <1>4, <2>1, <3>1 DEF ChallengeInv
    <2>2. apChallenge'.id <= apIds'
      BY <1>1, <1>3
    <2> QED BY <1>1, <2>1, <2>2 DEF ChallengeInv, Known
  <1>8. PICK r : StateOK(r) /\ r.at = "next" /\ worker' = [worker EXCEPT ![w] = r]
    BY <1>2, StepDoneOK, StopCommandOK DEF CreateChallenge
  <1>9. WorkerInv'
    BY <1>1, <1>6, <1>8, WorkerStep
  <1> QED BY <1>5, <1>7, <1>9 DEF SafeStep

LEMMA ReadProfileInv ==
  ASSUME FilesOK, WorkerInv, ChallengeInv, NEW w \in Workers, ReadProfile(w)
  PROVE  SafeStep
  <1>1. QuietFiles /\ UNCHANGED <<apLock, apChallenge, apIds>>
    BY DEF ReadProfile, QuietFiles, apTree, apFiles
  <1>2. worker[w] \in WorkerStates /\ worker[w].todo # <<>> /\ worker[w].doc \in Commits
        /\ worker[w].at = "read" /\ worker[w].read \in Seq(Rows)
    BY DEF ReadProfile, WorkerInv, StateOK, WorkerStates
  <1> DEFINE p == ProfileOrder[Len(worker[w].read) + 1]
             row == [profile |-> p, doc |-> apManifest[p], verified |-> ProfileVerified(p),
                     pass |-> ProfileVerified(p) /\ GroupPasses(p, apManifest[p])]
             r == [worker[w] EXCEPT !.read = Append(worker[w].read, row)]
  <1>3. worker' = [worker EXCEPT ![w] = r]
    BY DEF ReadProfile
  <1>4. p \in Profiles
    <2>1. Len(worker[w].read) + 1 \in 1..Len(ProfileOrder)
      BY <1>2, AcceptanceAssumption DEF ReadProfile
    <2> QED BY <2>1 DEF Profiles
  <1>5. ProfileVerified(p) \in BOOLEAN
    BY Zenon DEF ProfileVerified
  <1>6. (ProfileVerified(p) /\ GroupPasses(p, apManifest[p])) \in BOOLEAN
    BY Zenon
  <1>7. apManifest[p] \in {NoDoc} \cup Manifests
    BY <1>4 DEF FilesOK
  <1>8. row \in Rows
    BY <1>4, <1>5, <1>6, <1>7 DEF Rows
  <1> HIDE DEF p, row
  <1>9. Append(worker[w].read, row) \in Seq(Rows)
    BY <1>2, <1>8
  <1>10. r \in WorkerStates /\ r.at = "read" /\ r.doc = worker[w].doc /\ r.todo = worker[w].todo
    BY <1>2, <1>9 DEF WorkerStates
  <1> HIDE DEF r
  <1>11. StateOK(r)
    BY <1>2, <1>10 DEF StateOK
  <1> QED BY <1>1, <1>3, <1>10, <1>11, QuietStep DEF SafeStep

LEMMA StartMergeInv ==
  ASSUME FilesOK, WorkerInv, ChallengeInv, NEW w \in Workers, StartMerge(w)
  PROVE  SafeStep
  <1>1. QuietFiles /\ UNCHANGED <<apLock, apChallenge>>
    BY DEF StartMerge, NewId, QuietFiles, apTree, apFiles
  <1>2. worker[w] \in WorkerStates /\ worker[w].todo # <<>> /\ apHead \in Commits
        /\ apIds + 1 \in Nat
    BY DEF StartMerge, Doing, WorkerInv, FilesOK
  <1> DEFINE r == [worker[w] EXCEPT !.at = "read", !.run = apIds + 1, !.doc = apHead]
  <1>3. worker' = [worker EXCEPT ![w] = r]
    BY DEF StartMerge
  <1>4. r \in WorkerStates /\ r.at = "read" /\ r.doc = apHead /\ r.todo = worker[w].todo
    BY <1>2 DEF WorkerStates, Docs, Places
  <1> HIDE DEF r
  <1>5. StateOK(r)
    BY <1>2, <1>4 DEF StateOK
  <1> QED BY <1>1, <1>3, <1>4, <1>5, QuietStep DEF SafeStep

LEMMA AggregateOK ==
  ASSUME FilesOK, NEW w \in Workers, worker[w] \in WorkerStates
  PROVE  /\ Aggregate(w).all \in BOOLEAN /\ Aggregate(w).run \in Nat
         /\ Aggregate(w).challenge \in Nat /\ Aggregate(w).commit = worker[w].doc
  <1>1. (MergeSound(w) /\ MergeGroups(w) = Profiles) \in BOOLEAN
    BY Zenon
  <1>2. (IF apChallenge = NoDoc THEN 0 ELSE apChallenge.id) \in Nat
    BY DEF FilesOK, Challenges
  <1>3. worker[w].run \in Nat
    BY DEF WorkerStates
  <1> QED BY <1>1, <1>2, <1>3 DEF Aggregate

LEMMA WriteAggregateInv ==
  ASSUME FilesOK, WorkerInv, ChallengeInv, NEW w \in Workers, WriteAggregate(w)
  PROVE  SafeStep
  <1>1. QuietFiles /\ UNCHANGED <<apLock, apChallenge, apIds>>
    BY DEF WriteAggregate, QuietFiles, apTree
  <1>2. worker[w] \in WorkerStates /\ worker[w].todo # <<>> /\ worker[w].doc \in Commits
    BY DEF WriteAggregate, WorkerInv, StateOK
  <1> DEFINE entry == [run |-> Aggregate(w).run, challenge |-> Aggregate(w).challenge,
                       commit |-> Aggregate(w).commit, profile |-> "all-merged"]
             done == [worker[w] EXCEPT !.all = Aggregate(w).all]
             r == [worker[w] EXCEPT !.at = "lock", !.read = <<>>, !.all = Aggregate(w).all,
                                    !.doc = entry]
  <1>3. worker' = [worker EXCEPT ![w] = r] \/ StepDone(w, done)
    BY DEF WriteAggregate
  <1>4. entry \in Entries /\ Aggregate(w).all \in BOOLEAN /\ <<>> \in Seq(Rows)
    BY <1>2, AggregateOK DEF Entries
  <1> HIDE DEF entry
  <1>5. done \in WorkerStates /\ done.todo = worker[w].todo
    BY <1>2, <1>4 DEF WorkerStates
  <1>6. r \in WorkerStates /\ r.at = "lock" /\ r.todo = worker[w].todo
    BY <1>2, <1>4 DEF WorkerStates, Docs, Places
  <1> HIDE DEF done, r
  <1>7. CASE StepDone(w, done)
    BY <1>1, <1>2, <1>5, <1>7, StepDoneOK, QuietEnd DEF SafeStep
  <1>8. CASE worker' = [worker EXCEPT ![w] = r]
    <2>1. StateOK(r)
      BY <1>2, <1>6 DEF StateOK
    <2> QED BY <1>1, <1>6, <1>8, <2>1, QuietStep DEF SafeStep
  <1> QED BY <1>3, <1>7, <1>8

LEMMA EndedStepInv ==
  ASSUME FilesOK, WorkerInv, ChallengeInv, NEW w \in Workers,
         \/ ReuseChallenge(w) \/ VerifyMerged(w) \/ GenerateReleaseManifest(w)
         \/ EvaluateGate(w) \/ \E b \in BOOLEAN : SignCheckpoint(w, b)
  PROVE  SafeStep
  <1>1. QuietFiles /\ UNCHANGED apLock
    BY DEF ReuseChallenge, VerifyMerged, GenerateReleaseManifest, EvaluateGate, SignCheckpoint,
       QuietFiles, apTree, apFiles
  <1>2. worker[w] \in WorkerStates /\ worker[w].todo # <<>>
    BY DEF ReuseChallenge, VerifyMerged, GenerateReleaseManifest, EvaluateGate, SignCheckpoint,
       Doing, WorkerInv
  <1> DEFINE done == [worker[w] EXCEPT !.verified = Accepted]
  <1>3. StepDone(w, worker[w]) \/ StopCommand(w) \/ StepDone(w, done)
    BY DEF ReuseChallenge, VerifyMerged, GenerateReleaseManifest, EvaluateGate, SignCheckpoint
  <1>4. Accepted \in BOOLEAN
    BY Zenon DEF Accepted
  <1>5. done \in WorkerStates /\ done.todo = worker[w].todo
    BY <1>2, <1>4 DEF WorkerStates
  <1> HIDE DEF done
  <1> QED BY <1>1, <1>2, <1>3, <1>5, StepDoneOK, StopCommandOK, QuietEnd DEF SafeStep

LEMMA CommandDiesInv ==
  ASSUME FilesOK, WorkerInv, ChallengeInv, NEW w \in Workers, CommandDies(w)
  PROVE  SafeStep
  <1>1. QuietFiles /\ \A v \in Workers \ {w} : apLock = v => apLock' = v /\ apLedger' = apLedger
    BY DEF CommandDies, QuietFiles, apTree
  <1>2. PICK r : StateOK(r) /\ r.at = "next" /\ worker' = [worker EXCEPT ![w] = r]
    BY StopCommandOK DEF CommandDies
  <1>3. WorkerInv'
    BY <1>1, <1>2, QuietFilesOK, WorkerStep
  <1> QED BY <1>1, <1>3, QuietFilesOK DEF SafeStep

LEMMA SourceMovesInv ==
  ASSUME FilesOK, WorkerInv, ChallengeInv, SourceMoves
  PROVE  SafeStep
  <1>1. UNCHANGED <<apFiles, worker, apIds>>
    BY DEF SourceMoves
  <1>2. apHead' \in Commits /\ apClean' \in BOOLEAN /\ apDay' \in Nat
    <2>1. CASE apHead' \in Commits \ {apHead} /\ UNCHANGED <<apClean, apDay>>
      BY <2>1 DEF FilesOK
    <2>2. CASE apClean' = ~apClean /\ UNCHANGED <<apHead, apDay>>
      <3>1. (~apClean) \in BOOLEAN
        BY Zenon
      <3> QED BY <2>2, <3>1 DEF FilesOK
    <2>3. CASE apDay' = apDay + 1 /\ UNCHANGED <<apHead, apClean>>
      BY <2>3 DEF FilesOK
    <2> QED BY <2>1, <2>2, <2>3 DEF SourceMoves
  <1>3. FilesOK' /\ ChallengeInv'
    BY <1>1, <1>2 DEF FilesOK, ChallengeInv, Known, apFiles
  <1>4. WorkerInv'
    BY <1>1 DEF WorkerInv, StateOK, LedgerOK, RunOK, Known, apFiles
  <1> QED BY <1>3, <1>4 DEF SafeStep

LEMMA GateStep ==
  ASSUME GateInv, [AcceptanceNext]_acceptanceVars PROVE GateInv'
  <1>1. CASE UNCHANGED <<apRelease, apReady>>
    BY <1>1 DEF GateInv
  <1>2. ASSUME NEW w \in Workers, GenerateReleaseManifest(w) PROVE GateInv'
    BY <1>2 DEF GenerateReleaseManifest, ReleaseManifest, GateInv
  <1>3. ASSUME NEW w \in Workers, EvaluateGate(w) PROVE GateInv'
    <2>1. ~GatePasses
      BY DEF GatePasses, GateInv
    <2> QED BY <1>3, <2>1 DEF EvaluateGate, GateInv
  <1>4. \/ UNCHANGED <<apRelease, apReady>>
        \/ \E w \in Workers : GenerateReleaseManifest(w) \/ EvaluateGate(w)
    <2>1. CASE UNCHANGED acceptanceVars \/ SourceMoves
      BY <2>1 DEF acceptanceVars, apFiles, SourceMoves
    <2>2. ASSUME NEW w \in Workers,
                 \/ \E todo \in CommandSet : StartCommand(w, todo)
                 \/ \E b \in BOOLEAN : CreateChallenge(w, b) \/ SignCheckpoint(w, b)
                 \/ ReuseChallenge(w) \/ ReadLedger(w) \/ AppendEntry(w) \/ CommandDies(w)
          PROVE  UNCHANGED <<apRelease, apReady>>
      BY <2>2 DEF apFiles, StartCommand, CreateChallenge, SignCheckpoint, ReuseChallenge,
         ReadLedger, AppendEntry, CommandDies
    <2>3. ASSUME NEW w \in Workers,
                 \/ \E p \in Profiles, real \in BOOLEAN, env \in Environments :
                      StartRun(w, p, real, env)
                 \/ \E p \in Profiles, pass \in BOOLEAN : RunCommands(w, p, pass)
                 \/ \E p \in Profiles : WriteManifest(w, p)
                 \/ StartMerge(w) \/ ReadProfile(w) \/ VerifyMerged(w) \/ WriteAggregate(w)
          PROVE  UNCHANGED <<apRelease, apReady>>
      BY <2>3 DEF apFiles, StartRun, RunCommands, WriteManifest, StartMerge, ReadProfile,
         VerifyMerged, WriteAggregate
    <2> QED BY <2>1, <2>2, <2>3 DEF AcceptanceNext
  <1> QED BY <1>1, <1>2, <1>3, <1>4

LEMMA SafeNext ==
  ASSUME FilesOK, WorkerInv, ChallengeInv, [AcceptanceNext]_acceptanceVars
  PROVE  SafeStep
  <1>1. CASE UNCHANGED acceptanceVars
    <2>1. FilesOK' /\ ChallengeInv'
      BY <1>1 DEF acceptanceVars, apFiles, apTree, FilesOK, ChallengeInv, Known
    <2>2. WorkerInv'
      BY <1>1 DEF acceptanceVars, apFiles, WorkerInv, StateOK, LedgerOK, RunOK, Known
    <2> QED BY <2>1, <2>2 DEF SafeStep
  <1>2. CASE AcceptanceNext
    BY <1>2, SourceMovesInv, StartCommandInv, CreateChallengeInv, StartRunInv, RunCommandsInv,
       WriteManifestInv, ReadLedgerInv, AppendEntryInv, StartMergeInv, ReadProfileInv,
       WriteAggregateInv, EndedStepInv, CommandDiesInv DEF AcceptanceNext
  <1> QED BY <1>1, <1>2

LEMMA AcceptanceInvInit == AcceptanceInit => AcceptanceInv
  <1> SUFFICES ASSUME AcceptanceInit PROVE AcceptanceInv
    OBVIOUS
  <1>1. FilesOK
    BY DEF AcceptanceInit, FilesOK
  <1>2. ChallengeInv /\ GateInv
    BY DEF AcceptanceInit, ChallengeInv, GateInv
  <1>3. \A w \in Workers : worker[w] = IdleWorker
    BY DEF AcceptanceInit
  <1>4. worker \in [Workers -> WorkerStates]
    BY IdleOK DEF AcceptanceInit
  <1>5. WorkerInv
    BY <1>3, <1>4, IdleOK DEF WorkerInv, StateOK, LedgerOK, RunOK
  <1> QED BY <1>1, <1>2, <1>5 DEF AcceptanceInv

LEMMA AcceptanceInvNext ==
  AcceptanceInv /\ [AcceptanceNext]_acceptanceVars => AcceptanceInv'
  BY SafeNext, GateStep DEF AcceptanceInv, SafeStep

(* evidence_ledger.append_entry: the ledger is only ever extended, however  *)
(* many commands append at once and wherever they die, because its writer   *)
(* still holds the lock under which it read.                                *)
THEOREM LedgerOnlyGrows == AcceptanceSpec => LedgerAppendOnly
<1>1. AcceptanceInv /\ [AcceptanceNext]_acceptanceVars =>
        [SubSeq(apLedger', 1, Len(apLedger)) = apLedger]_apLedger
  <2> SUFFICES ASSUME AcceptanceInv, AcceptanceNext, apLedger' # apLedger
               PROVE  SubSeq(apLedger', 1, Len(apLedger)) = apLedger
    BY DEF acceptanceVars, apFiles
  <2>1. PICK w \in Workers : AppendEntry(w)
    <3>1. ~SourceMoves
      BY DEF SourceMoves, apFiles
    <3>2. ASSUME NEW w \in Workers,
                 \/ \E todo \in CommandSet : StartCommand(w, todo)
                 \/ \E b \in BOOLEAN : CreateChallenge(w, b) \/ SignCheckpoint(w, b)
                 \/ ReuseChallenge(w) \/ ReadLedger(w) \/ CommandDies(w)
                 \/ GenerateReleaseManifest(w) \/ EvaluateGate(w)
          PROVE  FALSE
      BY <3>2 DEF apFiles, StartCommand, CreateChallenge, SignCheckpoint, ReuseChallenge,
         ReadLedger, CommandDies, GenerateReleaseManifest, EvaluateGate
    <3>3. ASSUME NEW w \in Workers,
                 \/ \E p \in Profiles, real \in BOOLEAN, env \in Environments :
                      StartRun(w, p, real, env)
                 \/ \E p \in Profiles, pass \in BOOLEAN : RunCommands(w, p, pass)
                 \/ \E p \in Profiles : WriteManifest(w, p)
                 \/ StartMerge(w) \/ ReadProfile(w) \/ VerifyMerged(w) \/ WriteAggregate(w)
          PROVE  FALSE
      BY <3>3 DEF apFiles, StartRun, RunCommands, WriteManifest, StartMerge, ReadProfile,
         VerifyMerged, WriteAggregate
    <3> QED BY <3>1, <3>2, <3>3 DEF AcceptanceNext
  <2> QED BY <2>1, AppendEntryInv DEF AcceptanceInv
<1> QED BY <1>1, AcceptanceInvInit, AcceptanceInvNext, PTL DEF AcceptanceSpec, LedgerAppendOnly

(* verify_external_acceptance.verify_manifest and the orchestrator: whenever *)
(* manifest_all.json is accepted, every profile passed for real under the    *)
(* challenge on disk, was begun at the present commit, in one environment,   *)
(* is in the ledger and has its nested evidence in place; and no             *)
(* orchestration declares itself ready.                                      *)
THEOREM AcceptanceHolds == AcceptanceSpec => []AcceptanceIsEarned
<1>1. AcceptanceInv => AcceptanceIsEarned
  <2> SUFFICES ASSUME AcceptanceInv PROVE AcceptanceIsEarned
    OBVIOUS
  <2>1. NeverSelfApproved
    BY DEF AcceptanceInv, GateInv, NeverSelfApproved
  <2>2. ASSUME Accepted, NEW p \in Profiles
        PROVE  LET doc == apManifest[p]
               IN /\ doc.real /\ doc.pass /\ doc.began = apHead
                  /\ doc.challenge = apChallenge.id
                  /\ doc.env = apAggregate.env
                  /\ apNested[p] = doc.run
                  /\ \E i \in 1..Len(apLedger) : apLedger[i].run = doc.run
    <3> DEFINE doc == apManifest[p]
    <3>1. SourceProfilesProved
      BY <2>2 DEF Accepted, AggregateVerified
    <3>2. doc # NoDoc /\ doc.env = apAggregate.env /\ ProfileVerified(p) /\ GroupPasses(p, doc)
      BY <3>1 DEF SourceProfilesProved
    <3>3. doc.pass /\ doc.real /\ apNested[p] = doc.run
      BY <3>2 DEF GroupPasses
    <3>4. BoundToChallenge(doc) /\ LedgerNames(doc, p)
      BY <3>2, <3>3 DEF ProfileVerified
    <3>5. doc.challenge = apChallenge.id /\ apChallenge # NoDoc /\ apChallenge.commit = apHead
      BY <3>4 DEF BoundToChallenge, ChallengeVerified
    <3>6. Known(doc)
      BY <3>2, <3>3 DEF AcceptanceInv, ChallengeInv
    <3>7. doc.began = apHead
      BY <3>5, <3>6 DEF Known, KnownIn
    <3>8. \E i \in 1..Len(apLedger) : apLedger[i].run = doc.run
      BY <3>4 DEF LedgerNames
    <3> QED BY <3>2, <3>3, <3>5, <3>7, <3>8
  <2> QED BY <2>1, <2>2 DEF AcceptanceIsEarned, AcceptedIsOneCampaign
<1> QED BY <1>1, AcceptanceInvInit, AcceptanceInvNext, PTL DEF AcceptanceSpec
-----------------------------------------------------------------------------
(* Campaign bundles.                                                         *)

Members == [CampaignFiles -> Contents]
Partial == [CampaignFiles -> {NoEvidence} \cup Contents]
Positions == 1..Len(FileOrder)
Builds == [at : {"idle", "check", "hash", "archive", "publish"}, i : Positions,
           bound : {NoEvidence} \cup Contents, hashes : Partial,
           members : Partial, output : {NoArchive} \cup Outputs]
Hands == [at : {"idle", "copy", "verify", "stage", "staged"}, i : Positions,
          output : {NoArchive} \cup Outputs]

(* A challenge and a source are writes. *)
HostOK(host) ==
    host \in Members /\ host["challenge"] \in Seq(Nat) /\ host["source"] \in Seq(Nat)

BundleTypeOK ==
    /\ HostOK(cbHost) /\ cbWrites \in Nat
    /\ cbArchives \in [Outputs -> {NoArchive} \cup Members]
    /\ cbRoot \in Partial
    /\ cbReceipt \in [verified : BOOLEAN, output : {NoArchive} \cup Outputs]

(* What the builder will publish has every file. *)
BuildOK(b) ==
    /\ b \in Builds
    /\ b.at # "idle" => b.output \in Outputs
    /\ b.at = "archive" => \A j \in 1..(b.i - 1) : b.members[FileOrder[j]] \in Contents
    /\ b.at = "publish" => b.members \in Members

(* What a command on the receiving side has copied so far is its archive's. *)
HandOK(h, root, archives) ==
    /\ h \in Hands
    /\ h.at # "idle" => h.output \in Outputs /\ archives[h.output] # NoArchive
    /\ h.at = "copy" => \A j \in 1..(h.i - 1) :
                           root[FileOrder[j]] = archives[h.output][FileOrder[j]]
    /\ h.at = "verify" => root = archives[h.output]

(* A verified receipt stands for the whole tree, and no copy is under way   *)
(* that could replace a part of it.                                         *)
ReceiptOK(receipt, h, root, archives) ==
    receipt.verified =>
        /\ h.at \notin {"copy", "verify"}
        /\ receipt.output \in Outputs /\ archives[receipt.output] # NoArchive
        /\ root = archives[receipt.output]
        /\ \A k \in BundleReceipts : Names(root, k, root["challenge"])

BundleInv ==
    /\ BundleTypeOK
    /\ BuildOK(cbBuild)
    /\ HandOK(cbHand, cbRoot, cbArchives)
    /\ ReceiptOK(cbReceipt, cbHand, cbRoot, cbArchives)

LEMMA FileOrderFacts ==
    /\ Len(FileOrder) \in Nat /\ 1 \in Positions
    /\ \A j \in Positions : FileOrder[j] \in CampaignFiles
    /\ \A f \in CampaignFiles : \E j \in Positions : FileOrder[j] = f
    /\ "challenge" \in CampaignFiles /\ "source" \in CampaignFiles
    /\ BundleReceipts \subseteq CampaignFiles
<1>1. /\ FileOrder \in Seq(CampaignFiles) /\ Len(FileOrder) > 0
      /\ {FileOrder[i] : i \in 1..Len(FileOrder)} = CampaignFiles
  BY BundleAssumption
<1>2. Len(FileOrder) \in Nat /\ 1 \in Positions
  BY <1>1 DEF Positions
<1>3. \A j \in Positions : FileOrder[j] \in CampaignFiles
  BY <1>1 DEF Positions
<1>4. \A f \in CampaignFiles : \E j \in Positions : FileOrder[j] = f
  BY <1>1 DEF Positions
<1> QED BY <1>2, <1>3, <1>4 DEF CampaignFiles

LEMMA NoEvidenceIsNone == NoEvidence \notin Contents
BY BundleAssumption

LEMMA IdleBuildOK == BuildOK(IdleBuild)
BY FileOrderFacts DEF BuildOK, IdleBuild, Builds, Partial, NoBundleFiles

LEMMA IdleHandOK ==
  ASSUME NEW root, NEW archives
  PROVE  HandOK(IdleHand, root, archives)
BY FileOrderFacts DEF HandOK, IdleHand, Hands

LEMMA BundleInvInit == BundleInit => BundleInv
<1> SUFFICES ASSUME BundleInit PROVE BundleInv
  OBVIOUS
<1>1. <<0>> \in Seq(Nat)
  OBVIOUS
<1>2. HostOK(cbHost)
  BY <1>1, BundleAssumption DEF BundleInit, HostOK, Members, Contents, CampaignFiles
<1>3. BundleTypeOK
  BY <1>2 DEF BundleInit, BundleTypeOK, Partial, NoBundleFiles
<1>4. BuildOK(cbBuild) /\ HandOK(cbHand, cbRoot, cbArchives)
  BY IdleBuildOK, IdleHandOK DEF BundleInit
<1>5. ReceiptOK(cbReceipt, cbHand, cbRoot, cbArchives)
  BY DEF BundleInit, ReceiptOK
<1> QED BY <1>3, <1>4, <1>5 DEF BundleInv

(* The host's writes and the builder's loops change nothing on the          *)
(* receiving side.                                                          *)
LEMMA HostStep ==
  ASSUME BundleInv, UNCHANGED <<cbBuild, cbArchives, cbRootVars>>,
         HostOK(cbHost'), cbWrites' \in Nat
  PROVE  BundleInv'
BY DEF BundleInv, BundleTypeOK, cbRootVars

LEMMA BuilderStep ==
  ASSUME BundleInv, UNCHANGED <<cbHostVars, cbArchives, cbRootVars>>, BuildOK(cbBuild')
  PROVE  BundleInv'
BY DEF BundleInv, BundleTypeOK, cbRootVars, cbHostVars

LEMMA HostKeepsInv ==
  ASSUME BundleInv, NEW f \in CampaignFiles, HostWrites(f) \/ (f \in BundleReceipts /\ HostReceipt(f))
  PROVE  BundleInv'
<1>0. HostOK(cbHost) /\ cbWrites \in Nat
  BY DEF BundleInv, BundleTypeOK
<1>1. CASE HostWrites(f)
  <2>1. cbWrites + 1 \in Nat
    BY <1>0
  <2>2. <<cbWrites + 1>> \in Seq(Nat)
    BY <2>1
  <2>3. HostOK(cbHost')
    <3> DEFINE c == <<cbWrites + 1>>
    <3>1. cbHost' = [cbHost EXCEPT ![f] = c] /\ c \in Seq(Nat)
      BY <1>1, <2>2 DEF HostWrites
    <3> HIDE DEF c
    <3> QED BY <1>0, <3>1 DEF HostOK, Members, Contents
  <2> QED BY <1>1, <2>1, <2>3, HostStep DEF HostWrites
<1>2. CASE f \in BundleReceipts /\ HostReceipt(f)
  <2> DEFINE r == [challenge |-> cbHost["challenge"], source |-> cbHost["source"]]
  <2>1. r \in Contents /\ cbHost' = [cbHost EXCEPT ![f] = r]
    BY <1>0, <1>2 DEF HostReceipt, HostOK, Contents
  <2>2. f \notin {"challenge", "source"}
    BY <1>2, BundleAssumption
  <2> HIDE DEF r
  <2>3. HostOK(cbHost')
    BY <1>0, <2>1, <2>2 DEF HostOK, Members
  <2> QED BY <1>0, <1>2, <2>3, HostStep DEF HostReceipt
<1> QED BY <1>1, <1>2

(* One turn of a loop of the builder, whose body changed what has to be     *)
(* complete at the end for the file it was at.                              *)
LEMMA BuilderTurn ==
  ASSUME NEW b, NEW r, NEW nb, NEW at, NEW next,
         BuildOK(b), b.at = at, r \in Builds, r.at = at, r.i = b.i, r.output = b.output,
         <<at, next>> \in {<<"check", "hash">>, <<"hash", "archive">>, <<"archive", "publish">>},
         at = "archive" =>
             /\ r.members[FileOrder[b.i]] \in Contents
             /\ \A f \in CampaignFiles : b.members[f] \in Contents => r.members[f] \in Contents,
         nb = [r EXCEPT !.i = IF b.i = Len(FileOrder) THEN 1 ELSE @ + 1,
                        !.at = IF b.i = Len(FileOrder) THEN next ELSE at]
  PROVE  BuildOK(nb)
<1>1. b.i \in Positions /\ b \in Builds /\ b.output \in Outputs
  BY DEF BuildOK, Builds
<1>2. /\ nb \in Builds /\ nb.output = b.output /\ nb.members = r.members
      /\ nb.i = (IF b.i = Len(FileOrder) THEN 1 ELSE b.i + 1)
      /\ nb.at = (IF b.i = Len(FileOrder) THEN next ELSE at)
  <2>1. (IF b.i = Len(FileOrder) THEN 1 ELSE r.i + 1) \in Positions
    BY <1>1, FileOrderFacts DEF Positions
  <2>2. (IF b.i = Len(FileOrder) THEN next ELSE at) \in {"check", "hash", "archive", "publish"}
    OBVIOUS
  <2> QED BY <2>1, <2>2 DEF Builds
<1>3. ASSUME nb.at = "archive", NEW j \in 1..(nb.i - 1)
      PROVE  nb.members[FileOrder[j]] \in Contents
  <2>1. b.i # Len(FileOrder) /\ at = "archive" /\ nb.i = b.i + 1
    BY <1>1, <1>2, <1>3, FileOrderFacts DEF Positions
  <2>2. j \in Positions /\ (j = b.i \/ j \in 1..(b.i - 1))
    BY <1>1, <1>3, <2>1, FileOrderFacts DEF Positions
  <2>3. FileOrder[j] \in CampaignFiles
    BY <2>2, FileOrderFacts
  <2> QED BY <1>2, <2>1, <2>2, <2>3 DEF BuildOK
<1>4. ASSUME nb.at = "publish" PROVE nb.members \in Members
  <2>1. b.i = Len(FileOrder) /\ at = "archive"
    BY <1>2, <1>4
  <2>2. ASSUME NEW f \in CampaignFiles PROVE r.members[f] \in Contents
    <3>1. PICK j \in Positions : FileOrder[j] = f
      BY FileOrderFacts
    <3>2. j = b.i \/ j \in 1..(b.i - 1)
      BY <2>1, FileOrderFacts DEF Positions
    <3> QED BY <2>1, <3>1, <3>2 DEF BuildOK
  <2>3. r.members \in Partial
    BY DEF Builds
  <2> QED BY <1>2, <2>2, <2>3 DEF Members, Partial
<1> QED BY <1>1, <1>2, <1>3, <1>4 DEF BuildOK

LEMMA BuilderKeepsInv ==
  ASSUME BundleInv,
         \/ \E o \in Outputs : BuildStart(o)
         \/ CheckReceipt \/ HashFile \/ ArchiveFile \/ BuildCrash
  PROVE  BundleInv'
<1>0. /\ HostOK(cbHost) /\ BuildOK(cbBuild) /\ cbBuild \in Builds
      /\ FileOrder[cbBuild.i] \in CampaignFiles
  BY FileOrderFacts DEF BundleInv, BundleTypeOK, BuildOK, Builds
<1>1. ASSUME NEW o \in Outputs, BuildStart(o) PROVE BundleInv'
  <2>1. cbHost["challenge"] \in Contents
    BY <1>0 DEF HostOK, Contents
  <2>2. BuildOK(cbBuild')
    BY <1>1, <2>1, IdleBuildOK DEF BuildStart, BuildOK, IdleBuild, Builds
  <2> QED BY <1>1, <2>2, BuilderStep DEF BuildStart
<1>2. CASE CheckReceipt
  <2>1. cbBuild.at = "check" /\ UNCHANGED <<cbHostVars, cbArchives, cbRootVars>>
    BY <1>2 DEF CheckReceipt, BuildStep
  <2>2. \/ cbBuild' = IdleBuild
        \/ cbBuild' = [cbBuild EXCEPT !.i = IF cbBuild.i = Len(FileOrder) THEN 1 ELSE @ + 1,
                                      !.at = IF cbBuild.i = Len(FileOrder) THEN "hash" ELSE "check"]
    BY <1>2 DEF CheckReceipt, BuildStep
  <2>3. BuildOK(cbBuild')
    BY <1>0, <2>1, <2>2, IdleBuildOK, BuilderTurn
  <2> QED BY <2>1, <2>3, BuilderStep
<1>3. CASE HashFile
  <2> DEFINE r == [cbBuild EXCEPT !.hashes[BuildFile] = cbHost[BuildFile]]
  <2>1. cbBuild.at = "hash" /\ UNCHANGED <<cbHostVars, cbArchives, cbRootVars>>
    BY <1>3 DEF HashFile, BuildStep
  <2>2. cbBuild' = [r EXCEPT !.i = IF cbBuild.i = Len(FileOrder) THEN 1 ELSE @ + 1,
                             !.at = IF cbBuild.i = Len(FileOrder) THEN "archive" ELSE "hash"]
    BY <1>3 DEF HashFile, BuildStep
  <2>3. r \in Builds /\ r.at = "hash" /\ r.i = cbBuild.i /\ r.output = cbBuild.output
    BY <1>0, <2>1 DEF Builds, Partial, HostOK, Members, BuildFile
  <2> HIDE DEF r
  <2>4. BuildOK(cbBuild')
    BY <1>0, <2>1, <2>2, <2>3, BuilderTurn
  <2> QED BY <2>1, <2>4, BuilderStep
<1>4. CASE ArchiveFile
  <2> DEFINE r == [cbBuild EXCEPT !.members[BuildFile] = cbHost[BuildFile]]
  <2>1. cbBuild.at = "archive" /\ UNCHANGED <<cbHostVars, cbArchives, cbRootVars>>
    BY <1>4 DEF ArchiveFile, BuildStep
  <2>2. \/ cbBuild' = IdleBuild
        \/ cbBuild' = [r EXCEPT !.i = IF cbBuild.i = Len(FileOrder) THEN 1 ELSE @ + 1,
                                !.at = IF cbBuild.i = Len(FileOrder) THEN "publish" ELSE "archive"]
    BY <1>4 DEF ArchiveFile, BuildStep
  <2>3. r \in Builds /\ r.at = "archive" /\ r.i = cbBuild.i /\ r.output = cbBuild.output
    BY <1>0, <2>1 DEF Builds, Partial, HostOK, Members, BuildFile
  <2>4. /\ r.members[FileOrder[cbBuild.i]] \in Contents
        /\ \A f \in CampaignFiles : cbBuild.members[f] \in Contents => r.members[f] \in Contents
    BY <1>0 DEF Builds, Partial, HostOK, Members, BuildFile
  <2> HIDE DEF r
  <2>5. BuildOK(cbBuild')
    BY <1>0, <2>1, <2>2, <2>3, <2>4, IdleBuildOK, BuilderTurn
  <2> QED BY <2>1, <2>5, BuilderStep
<1>5. CASE BuildCrash
  BY <1>5, IdleBuildOK, BuilderStep DEF BuildCrash
<1> QED BY <1>1, <1>2, <1>3, <1>4, <1>5

(* Publishing fills an output path that was free, and nothing on the        *)
(* receiving side names a free path.                                        *)
LEMMA PublishKeepsInv ==
  ASSUME BundleInv, PublishNoReplace
  PROVE  BundleInv'
<1> DEFINE o == cbBuild.output
<1>1. o \in Outputs /\ cbBuild.members \in Members /\ cbArchives[o] = NoArchive
  BY DEF BundleInv, BuildOK, PublishNoReplace
<1>2. cbArchives' = [cbArchives EXCEPT ![o] = cbBuild.members]
  BY DEF PublishNoReplace
<1> HIDE DEF o
<1>3. cbArchives' \in [Outputs -> {NoArchive} \cup Members]
  BY <1>1, <1>2 DEF BundleInv, BundleTypeOK
<1>4. ASSUME NEW q \in Outputs, cbArchives[q] # NoArchive
      PROVE  cbArchives'[q] = cbArchives[q]
  BY <1>1, <1>2, <1>4 DEF BundleInv, BundleTypeOK
<1>5. UNCHANGED <<cbHost, cbWrites, cbRoot, cbHand, cbReceipt, cbHandoffs>> /\ cbBuild' = IdleBuild
  BY DEF PublishNoReplace, cbHostVars, cbRootVars
<1>6. BundleTypeOK'
  BY <1>3, <1>5 DEF BundleInv, BundleTypeOK
<1>7. HandOK(cbHand, cbRoot, cbArchives')
  BY <1>4 DEF BundleInv, HandOK
<1>8. ReceiptOK(cbReceipt, cbHand, cbRoot, cbArchives')
  BY <1>4 DEF BundleInv, ReceiptOK
<1> QED BY <1>5, <1>6, <1>7, <1>8, IdleBuildOK DEF BundleInv

(* The receiving side. *)
LEMMA ReceiverStep ==
  ASSUME BundleInv, UNCHANGED <<cbHostVars, cbBuild, cbArchives>>, cbRoot' \in Partial,
         cbReceipt' \in [verified : BOOLEAN, output : {NoArchive} \cup Outputs],
         HandOK(cbHand', cbRoot', cbArchives),
         ReceiptOK(cbReceipt', cbHand', cbRoot', cbArchives)
  PROVE  BundleInv'
BY DEF BundleInv, BundleTypeOK, cbHostVars

LEMMA StartKeepsInv ==
  ASSUME BundleInv, NEW o \in Outputs,
         StageStart(o) \/ \E agree \in BOOLEAN : HandoffStart(o, agree)
  PROVE  BundleInv'
<1>0. /\ cbRoot \in Partial /\ cbReceipt \in [verified : BOOLEAN, output : {NoArchive} \cup Outputs]
      /\ cbArchives \in [Outputs -> {NoArchive} \cup Members]
      /\ HandOK(cbHand, cbRoot, cbArchives) /\ ReceiptOK(cbReceipt, cbHand, cbRoot, cbArchives)
  BY DEF BundleInv, BundleTypeOK
<1>1. CASE StageStart(o)
  <2>1. /\ cbHand' = [at |-> "stage", i |-> 1, output |-> o] /\ cbArchives[o] # NoArchive
        /\ UNCHANGED <<cbHostVars, cbBuild, cbArchives>> /\ cbRoot' = cbRoot /\ cbReceipt' = cbReceipt
    BY <1>1 DEF StageStart
  <2>2. HandOK(cbHand', cbRoot, cbArchives)
    BY <2>1, FileOrderFacts DEF HandOK, Hands
  <2>3. ReceiptOK(cbReceipt, cbHand', cbRoot, cbArchives)
    BY <1>0, <2>1 DEF ReceiptOK
  <2> QED BY <1>0, <2>1, <2>2, <2>3, ReceiverStep
<1>2. ASSUME NEW agree \in BOOLEAN, HandoffStart(o, agree) PROVE BundleInv'
  <2>0. UNCHANGED <<cbHostVars, cbBuild, cbArchives>> /\ cbRoot' = cbRoot /\ cbArchives[o] # NoArchive
    BY <1>2 DEF HandoffStart
  <2>1. CASE cbHand' = [at |-> "copy", i |-> 1, output |-> o] /\ DestinationsFree /\ cbReceipt' = cbReceipt
    <3>1. HandOK(cbHand', cbRoot, cbArchives)
      BY <2>0, <2>1, FileOrderFacts DEF HandOK, Hands
    <3>2. ASSUME cbReceipt.verified PROVE FALSE
      <4>1. cbRoot = cbArchives[cbReceipt.output] /\ cbArchives[cbReceipt.output] \in Members
        BY <1>0, <3>2 DEF ReceiptOK
      <4>2. cbRoot["challenge"] \in Contents
        BY <4>1, FileOrderFacts DEF Members
      <4> QED BY <2>1, <4>2, FileOrderFacts, NoEvidenceIsNone DEF DestinationsFree
    <3>3. ReceiptOK(cbReceipt, cbHand', cbRoot, cbArchives)
      BY <3>2 DEF ReceiptOK
    <3> QED BY <1>0, <2>0, <2>1, <3>1, <3>3, ReceiverStep
  <2>2. CASE cbReceipt' = RefusedHandoff /\ cbHand' = cbHand
    <3>1. /\ cbReceipt' \in [verified : BOOLEAN, output : {NoArchive} \cup Outputs]
          /\ ~cbReceipt'.verified
      BY <2>2 DEF RefusedHandoff
    <3>2. ReceiptOK(cbReceipt', cbHand, cbRoot, cbArchives)
      BY <3>1 DEF ReceiptOK
    <3> QED BY <1>0, <2>0, <2>2, <3>1, <3>2, ReceiverStep
  <2> QED BY <1>2, <2>1, <2>2 DEF HandoffStart
<1> QED BY <1>1, <1>2

(* Install while no verified receipt stands. *)
LEMMA InstallKeepsInv ==
  ASSUME BundleInv, ~cbReceipt.verified, NEW next,
         <<cbHand.at, next>> \in {<<"copy", "verify">>, <<"stage", "staged">>},
         Install(next)
  PROVE  BundleInv'
<1> DEFINE f == FileOrder[cbHand.i]
           a == cbArchives[cbHand.output]
<1>0. /\ cbRoot \in Partial /\ cbReceipt \in [verified : BOOLEAN, output : {NoArchive} \cup Outputs]
      /\ HandOK(cbHand, cbRoot, cbArchives) /\ cbHand \in Hands
      /\ cbHand.i \in Positions /\ cbHand.output \in Outputs
      /\ a # NoArchive /\ a \in Members
  BY DEF BundleInv, BundleTypeOK, HandOK, Hands
<1>1. f \in CampaignFiles
  BY <1>0, FileOrderFacts
<1>2. /\ cbRoot' = [cbRoot EXCEPT ![f] = a[f]]
      /\ cbHand' = IF cbHand.i = Len(FileOrder) THEN [cbHand EXCEPT !.at = next]
                   ELSE [cbHand EXCEPT !.i = @ + 1]
      /\ UNCHANGED <<cbHostVars, cbBuild, cbArchives>> /\ cbReceipt' = cbReceipt
  BY DEF Install
<1>3. cbRoot' \in Partial
  BY <1>0, <1>1, <1>2 DEF Partial, Members
<1>4. /\ cbHand' \in Hands /\ cbHand'.output = cbHand.output /\ cbHand'.at # "idle"
      /\ cbHand'.at = (IF cbHand.i = Len(FileOrder) THEN next ELSE cbHand.at)
      /\ cbHand'.i = (IF cbHand.i = Len(FileOrder) THEN cbHand.i ELSE cbHand.i + 1)
  <2>1. cbHand.i = Len(FileOrder) \/ cbHand.i + 1 \in Positions
    BY <1>0, FileOrderFacts DEF Positions
  <2> QED BY <1>0, <1>2, <2>1 DEF Hands
<1> HIDE DEF f, a
<1>5. ASSUME cbHand.at = "copy", NEW j \in Positions, j <= cbHand.i
      PROVE  cbRoot'[FileOrder[j]] = a[FileOrder[j]]
  <2>1. FileOrder[j] \in CampaignFiles
    BY FileOrderFacts
  <2>2. CASE FileOrder[j] = f
    BY <1>0, <1>2, <2>1, <2>2 DEF Partial
  <2>3. CASE FileOrder[j] # f
    <3>1. j # cbHand.i
      BY <2>3 DEF f
    <3>2. j \in 1..(cbHand.i - 1)
      BY <1>0, <1>5, <3>1, FileOrderFacts DEF Positions
    <3>3. cbRoot[FileOrder[j]] = a[FileOrder[j]]
      BY <1>0, <1>5, <3>2 DEF HandOK, a
    <3> QED BY <1>0, <1>2, <2>1, <2>3, <3>3 DEF Partial
  <2> QED BY <2>2, <2>3
<1>6. ASSUME cbHand'.at = "copy", NEW j \in 1..(cbHand'.i - 1)
      PROVE  cbRoot'[FileOrder[j]] = a[FileOrder[j]]
  <2>1. cbHand.at = "copy" /\ cbHand'.i = cbHand.i + 1
    BY <1>4, <1>6
  <2>2. j \in Positions /\ j <= cbHand.i
    BY <1>0, <1>6, <2>1, FileOrderFacts DEF Positions
  <2> QED BY <1>5, <2>1, <2>2
<1>7. ASSUME cbHand'.at = "verify" PROVE cbRoot' = a
  <2>1. cbHand.at = "copy" /\ cbHand.i = Len(FileOrder)
    BY <1>4, <1>7
  <2>2. ASSUME NEW g \in CampaignFiles PROVE cbRoot'[g] = a[g]
    <3>1. PICK j \in Positions : FileOrder[j] = g
      BY FileOrderFacts
    <3>2. j <= cbHand.i
      BY <2>1, FileOrderFacts DEF Positions
    <3> QED BY <1>5, <2>1, <3>1, <3>2
  <2> QED BY <1>0, <1>3, <2>2 DEF Partial, Members
<1>8. HandOK(cbHand', cbRoot', cbArchives)
  BY <1>0, <1>4, <1>6, <1>7 DEF HandOK, a
<1>9. ReceiptOK(cbReceipt', cbHand', cbRoot', cbArchives)
  BY <1>2 DEF ReceiptOK
<1> QED BY <1>0, <1>2, <1>3, <1>8, <1>9, ReceiverStep

LEMMA ReceiverKeepsInv ==
  ASSUME BundleInv,
         \/ CopyFile \/ StageFile \/ StageEnd \/ HandoffCrash
         \/ \E trusted \in BOOLEAN : HandoffVerify(trusted)
  PROVE  BundleInv'
<1>0. /\ cbRoot \in Partial /\ cbReceipt \in [verified : BOOLEAN, output : {NoArchive} \cup Outputs]
      /\ cbArchives \in [Outputs -> {NoArchive} \cup Members]
      /\ HandOK(cbHand, cbRoot, cbArchives) /\ ReceiptOK(cbReceipt, cbHand, cbRoot, cbArchives)
  BY DEF BundleInv, BundleTypeOK
<1>1. ASSUME cbHand' = IdleHand, UNCHANGED <<cbHostVars, cbBuild, cbArchives, cbRoot, cbReceipt>>
      PROVE  BundleInv'
  <2>1. ReceiptOK(cbReceipt, IdleHand, cbRoot, cbArchives)
    BY <1>0 DEF ReceiptOK, IdleHand
  <2> QED BY <1>0, <1>1, <2>1, IdleHandOK, ReceiverStep
<1>2. CASE CopyFile
  <2>1. ~cbReceipt.verified
    BY <1>0, <1>2 DEF ReceiptOK, CopyFile
  <2> QED BY <1>2, <2>1, InstallKeepsInv DEF CopyFile
<1>3. CASE StageFile
  <2>1. CASE cbRoot[FileOrder[cbHand.i]] = NoEvidence /\ Install("staged")
    <3>1. ASSUME cbReceipt.verified PROVE FALSE
      <4>1. cbRoot \in Members
        BY <1>0, <3>1 DEF ReceiptOK
      <4>2. FileOrder[cbHand.i] \in CampaignFiles
        BY <1>0, FileOrderFacts DEF HandOK, Hands
      <4> QED BY <2>1, <4>1, <4>2, NoEvidenceIsNone DEF Members
    <3> QED BY <1>3, <2>1, <3>1, InstallKeepsInv DEF StageFile
  <2> QED BY <1>1, <1>3, <2>1 DEF StageFile
<1>4. CASE StageEnd
  BY <1>1, <1>4 DEF StageEnd
<1>5. CASE HandoffCrash
  BY <1>1, <1>5 DEF HandoffCrash
<1>6. ASSUME NEW trusted \in BOOLEAN, HandoffVerify(trusted) PROVE BundleInv'
  <2>1. /\ cbHand.at = "verify" /\ cbHand' = IdleHand
        /\ UNCHANGED <<cbHostVars, cbBuild, cbArchives>> /\ cbRoot' = cbRoot
    BY <1>6 DEF HandoffVerify
  <2>2. CASE cbReceipt' = RefusedHandoff
    <3>1. /\ cbReceipt' \in [verified : BOOLEAN, output : {NoArchive} \cup Outputs]
          /\ ~cbReceipt'.verified
      BY <2>2 DEF RefusedHandoff
    <3>2. ReceiptOK(cbReceipt', IdleHand, cbRoot, cbArchives)
      BY <3>1 DEF ReceiptOK
    <3> QED BY <1>0, <2>1, <3>1, <3>2, IdleHandOK, ReceiverStep
  <2>3. CASE /\ cbReceipt' = [verified |-> TRUE, output |-> cbHand.output]
             /\ \A k \in BundleReceipts : CampaignVerified(k)
    <3>1. /\ cbHand.output \in Outputs /\ cbArchives[cbHand.output] # NoArchive
          /\ cbRoot = cbArchives[cbHand.output]
      BY <1>0, <2>1 DEF HandOK
    <3>2. /\ cbReceipt' \in [verified : BOOLEAN, output : {NoArchive} \cup Outputs]
          /\ cbReceipt'.output = cbHand.output
      BY <2>3, <3>1
    <3>3. ReceiptOK(cbReceipt', IdleHand, cbRoot, cbArchives)
      BY <2>3, <3>1, <3>2 DEF ReceiptOK, IdleHand, CampaignVerified
    <3> QED BY <1>0, <2>1, <3>2, <3>3, IdleHandOK, ReceiverStep
  <2> QED BY <1>6, <2>2, <2>3 DEF HandoffVerify
<1> QED BY <1>2, <1>3, <1>4, <1>5, <1>6

LEMMA BundleInvNext == BundleInv /\ [BundleNext]_bundleVars => BundleInv'
<1> SUFFICES ASSUME BundleInv, [BundleNext]_bundleVars PROVE BundleInv'
  OBVIOUS
<1>1. CASE UNCHANGED bundleVars
  BY <1>1 DEF bundleVars, BundleInv, BundleTypeOK
<1>2. ASSUME NEW f \in CampaignFiles, HostWrites(f) PROVE BundleInv'
  BY <1>2, HostKeepsInv
<1>3. ASSUME NEW k \in BundleReceipts, HostReceipt(k) PROVE BundleInv'
  BY <1>3, HostKeepsInv, FileOrderFacts
<1>4. ASSUME NEW o \in Outputs, BuildStart(o) \/ StageStart(o) PROVE BundleInv'
  BY <1>4, BuilderKeepsInv, StartKeepsInv
<1>5. CASE CheckReceipt \/ HashFile \/ ArchiveFile \/ BuildCrash
  BY <1>5, BuilderKeepsInv
<1>6. CASE PublishNoReplace
  BY <1>6, PublishKeepsInv
<1>7. ASSUME NEW o \in Outputs, NEW agree \in BOOLEAN, HandoffStart(o, agree) PROVE BundleInv'
  BY <1>7, StartKeepsInv
<1>8. CASE CopyFile \/ StageFile \/ StageEnd \/ HandoffCrash
  BY <1>8, ReceiverKeepsInv
<1>9. ASSUME NEW trusted \in BOOLEAN, HandoffVerify(trusted) PROVE BundleInv'
  BY <1>9, ReceiverKeepsInv
<1> QED BY <1>1, <1>2, <1>3, <1>4, <1>5, <1>6, <1>7, <1>8, <1>9 DEF BundleNext

(* A handoff that was verified installed one archive whole, with receipts   *)
(* that name its challenge and source, and nothing replaces a part of it    *)
(* afterwards, for any receipts, output paths and order of the files        *)
(* (final_campaign_bundle_handoff.py, build_campaign_evidence_bundle.py).   *)
THEOREM HandoffStaysCoherent == BundleSpec => []VerifiedHandoffIsCoherent
<1>1. BundleInv => VerifiedHandoffIsCoherent
  BY DEF BundleInv, ReceiptOK, VerifiedHandoffIsCoherent
<1> QED BY <1>1, BundleInvInit, BundleInvNext, PTL DEF BundleSpec

-----------------------------------------------------------------------------
(* Promotion of return bundles.                                              *)

Trees == [evidence : SUBSET Bundles, staged : SUBSET Bundles]
OpenStatuses == {"PREPARED", "CANONICAL_SWAPPED", "POST_VERIFIED", "LEDGER_COMMITTED"}
FinalStatuses == {"COMMITTED", "ROLLED_BACK"}
Journals == [status : OpenStatuses \cup FinalStatuses, bundle : Bundles, kept : BOOLEAN]
Recovering == {"recover", "restore", "discard"}
Swapping == InTry \cup {"commit", "rollback", "rolled", "done"}
Promoters == [at : {"idle", "assess", "prepare"} \cup Recovering \cup Swapping,
              bundle : {NoBundle} \cup Bundles, made : BOOLEAN, kept : BOOLEAN]

(* A directory that exists holds evidence of these bundles only. *)
TreeIn(t, S) == t # NoTree => t \in Trees /\ t.evidence \subseteq S

(* Nothing is in the checkout that the ledger does not list. *)
Settled(c, cand, L) == TreeIn(c, L) /\ cand \subseteq L

(* A pending journal: only its bundle may be there without an entry, the    *)
(* backup is free of it, and recovery may drop its lock candidate.          *)
Pending(j, c, k, cand, L) ==
    /\ j # <<>> /\ j \in Journals /\ ~j.kept
    /\ TreeIn(c, L \cup {j.bundle}) /\ TreeIn(k, L)
    /\ cand \subseteq L \cup {j.bundle}
    /\ j.status \in FinalStatuses => Settled(c, cand, L)

(* Where the command stands, and what holds there. *)
PhaseOK(p, j, c, r, k, cand, L) ==
    /\ p \in Promoters
    /\ p.at # "idle" => p.bundle \in Bundles
    /\ p.at = "idle" => (j = <<>> /\ Settled(c, cand, L)) \/ Pending(j, c, k, cand, L)
    /\ p.at \in {"assess", "prepare"} => j = <<>> /\ Settled(c, cand, L)
    /\ p.at \in Recovering => Pending(j, c, k, cand, L)
    /\ p.at = "restore" => c = NoTree
    /\ p.at = "discard" => TreeIn(c, L)
    /\ p.at \in {"assess"} \cup Recovering => ~p.made
    /\ p.at \in Swapping => Pending(j, c, k, cand, L) /\ j.bundle = p.bundle
    /\ p.at \in InTry => j.status \notin FinalStatuses
    /\ p.at \in Swapping \cup {"prepare"} => ~p.kept
    /\ p.at \in {"prepare", "backup", "swap", "swapped", "verify", "verified", "append"} =>
          p.bundle \notin L
    /\ p.at \in {"prepare", "backup", "swap", "swapped", "verify"} => ~p.made /\ cand \subseteq L
    /\ p.at \in {"prepare", "backup", "swap"} => TreeIn(r, L \cup {p.bundle})
    /\ p.at \in {"prepare", "backup"} => k = NoTree /\ TreeIn(c, L)
    /\ p.at \in {"swap", "rollback"} => c = NoTree
    /\ p.at \in {"verified", "append", "rollback"} => p.made \/ cand \subseteq L
    /\ p.at \in {"appended", "commit"} => p.bundle \in L
    /\ p.at \in {"rolled", "done"} => Settled(c, cand, L)

(* What is staged in a directory was verified and is not built again. *)
StagedOK(t, archive) ==
    t # NoTree => t \in Trees /\ \A b \in t.staged : VerifyArchive(archive[b])

ArchivesOK(row, archive) ==
    /\ archive \in [Bundles -> {<<>>} \cup [row : Versions, member : Versions]]
    /\ row # <<>> => row \in Bundles \X Versions /\ archive[row[1]] = <<>>

ImportLedgerOK(l) == l \in Seq(Bundles) /\ IsInjective(l)

PromotionInv ==
    /\ rpFile \in Versions /\ ArchivesOK(rpRow, rpArchive)
    /\ StagedOK(canonical, rpArchive) /\ StagedOK(replacement, rpArchive)
    /\ StagedOK(backup, rpArchive)
    /\ ImportLedgerOK(importLedger) /\ candidates \subseteq Bundles
    /\ PhaseOK(promoter, journal, canonical, replacement, backup, candidates,
               ToSet(importLedger))

LEMMA JournalIsWritten ==
  ASSUME NEW status \in OpenStatuses \cup FinalStatuses, NEW b \in Bundles, NEW j,
         j = [status |-> status, bundle |-> b, kept |-> FALSE]
  PROVE  j # <<>> /\ j \in Journals /\ ~j.kept /\ j.bundle = b /\ j.status = status
<1>1. j \in Journals /\ ~j.kept /\ j.bundle = b /\ j.status = status
  BY DEF Journals
<1>2. "status" \in DOMAIN j
  OBVIOUS
<1>3. "status" \notin DOMAIN <<>>
  OBVIOUS
<1> QED BY <1>1, <1>2, <1>3

LEMMA PromoterMoves ==
  ASSUME NEW p \in Promoters, NEW step \in {"assess", "prepare"} \cup Recovering \cup Swapping,
         NEW np, np = [p EXCEPT !.at = step]
  PROVE  /\ np \in Promoters /\ np.at = step
         /\ np.bundle = p.bundle /\ np.made = p.made /\ np.kept = p.kept
BY DEF Promoters

LEMMA IdlePromoterFacts == IdlePromoter \in Promoters /\ IdlePromoter.at = "idle"
BY DEF IdlePromoter, Promoters

LEMMA ImportedSet ==
  ASSUME NEW l, ImportLedgerOK(l), NEW b \in Bundles, b \notin ToSet(l)
  PROVE  ImportLedgerOK(Append(l, b)) /\ ToSet(Append(l, b)) = ToSet(l) \cup {b}
<1> DEFINE m == Append(l, b)
<1>1. /\ l \in Seq(Bundles) /\ Len(l) \in Nat /\ DOMAIN l = 1..Len(l)
      /\ m \in Seq(Bundles) /\ DOMAIN m = 1..(Len(l) + 1)
      /\ \A i \in 1..Len(l) : m[i] = l[i]
      /\ m[Len(l) + 1] = b
  BY DEF ImportLedgerOK
<1>2. \A i \in 1..(Len(l) + 1) : i \in 1..Len(l) \/ i = Len(l) + 1
  BY <1>1
<1>3. \A i \in 1..Len(l) : l[i] # b
  BY <1>1 DEF ToSet
<1>4. \A i, k \in DOMAIN l : l[i] = l[k] => i = k
  BY DEF ImportLedgerOK, IsInjective
<1>5. \A i \in 1..Len(l) : i \in 1..(Len(l) + 1)
  BY <1>1
<1>6. Len(l) + 1 \in 1..(Len(l) + 1)
  BY <1>1
<1> HIDE DEF m
<1>7. IsInjective(m)
  BY <1>1, <1>2, <1>3, <1>4 DEF IsInjective
<1>8. ToSet(m) = ToSet(l) \cup {b}
  BY <1>1, <1>2, <1>5, <1>6 DEF ToSet
<1> QED BY <1>1, <1>7, <1>8 DEF ImportLedgerOK, m

LEMMA PromotionInvInit == PromotionInit => PromotionInv
<1> SUFFICES ASSUME PromotionInit PROVE PromotionInv
  OBVIOUS
<1>1. canonical \in Trees /\ canonical.evidence = {} /\ canonical.staged = {}
  BY DEF PromotionInit, Trees
<1>2. rpFile \in Versions /\ ArchivesOK(rpRow, rpArchive)
  BY DEF PromotionInit, ArchivesOK
<1>3. /\ StagedOK(canonical, rpArchive) /\ StagedOK(replacement, rpArchive)
      /\ StagedOK(backup, rpArchive)
  BY <1>1 DEF PromotionInit, StagedOK
<1>4. ImportLedgerOK(importLedger) /\ candidates \subseteq Bundles
  BY DEF PromotionInit, ImportLedgerOK, IsInjective
<1>5. PhaseOK(promoter, journal, canonical, replacement, backup, candidates,
              ToSet(importLedger))
  <2>1. promoter \in Promoters /\ promoter.at = "idle"
    BY IdlePromoterFacts DEF PromotionInit
  <2>2. journal = <<>> /\ Settled(canonical, candidates, ToSet(importLedger))
    BY <1>1 DEF PromotionInit, Settled, TreeIn
  <2> QED BY <2>1, <2>2 DEF PhaseOK, Recovering, Swapping, InTry
<1> QED BY <1>2, <1>3, <1>4, <1>5 DEF PromotionInv

(* The acceptance host: only an archive that was not there is written. *)
LEMMA ReturnHostKeepsInv ==
  ASSUME PromotionInv,
         \/ \E v \in Versions : EvidenceRewritten(v)
         \/ \E b \in Bundles : BuildRows(b)
         \/ BuildArchive
  PROVE  PromotionInv'
<1>0. rpFile \in Versions /\ ArchivesOK(rpRow, rpArchive)
  BY DEF PromotionInv
<1>1. ASSUME NEW v \in Versions, EvidenceRewritten(v) PROVE PromotionInv'
  BY <1>1 DEF EvidenceRewritten, PromotionInv, rpTrees
<1>2. ASSUME NEW b \in Bundles, BuildRows(b) PROVE PromotionInv'
  <2>1. ArchivesOK(rpRow', rpArchive)
    BY <1>0, <1>2 DEF BuildRows, ArchivesOK
  <2> QED BY <1>2, <2>1 DEF BuildRows, PromotionInv, rpTrees
<1>3. CASE BuildArchive
  <2> DEFINE x == rpRow[1]
  <2>1. /\ x \in Bundles /\ rpRow[2] \in Versions /\ rpArchive[x] = <<>>
        /\ rpArchive' = [rpArchive EXCEPT ![x] = [row |-> rpRow[2], member |-> rpFile]]
        /\ rpRow' = <<>>
    BY <1>0, <1>3 DEF BuildArchive, ArchivesOK
  <2> HIDE DEF x
  <2>2. ArchivesOK(rpRow', rpArchive')
    BY <1>0, <2>1 DEF ArchivesOK
  <2>3. ASSUME NEW t, StagedOK(t, rpArchive) PROVE StagedOK(t, rpArchive')
    <3>1. ASSUME NEW b \in Bundles, VerifyArchive(rpArchive[b]) PROVE rpArchive'[b] = rpArchive[b]
      BY <1>0, <2>1, <3>1 DEF ArchivesOK, VerifyArchive
    <3> QED BY <2>3, <3>1 DEF StagedOK, Trees
  <2> QED BY <1>3, <2>2, <2>3 DEF BuildArchive, PromotionInv, rpTrees
<1> QED BY <1>1, <1>2, <1>3

(* Steps of the receiving checkout leave the host's files alone. *)
LEMMA CheckoutStep ==
  ASSUME PromotionInv, UNCHANGED rpHost,
         StagedOK(canonical', rpArchive), StagedOK(replacement', rpArchive),
         StagedOK(backup', rpArchive),
         ImportLedgerOK(importLedger'), candidates' \subseteq Bundles,
         PhaseOK(promoter', journal', canonical', replacement', backup', candidates',
                 ToSet(importLedger'))
  PROVE  PromotionInv'
BY DEF PromotionInv, rpHost

LEMMA StageKeepsInv ==
  ASSUME PromotionInv, NEW b \in Bundles, Stage(b) \/ StageAnew(b)
  PROVE  PromotionInv'
<1> DEFINE L == ToSet(importLedger)
<1>0. /\ StagedOK(canonical, rpArchive) /\ StagedOK(replacement, rpArchive)
      /\ StagedOK(backup, rpArchive)
      /\ ImportLedgerOK(importLedger) /\ candidates \subseteq Bundles
      /\ PhaseOK(promoter, journal, canonical, replacement, backup, candidates, L)
  BY DEF PromotionInv
<1>1. /\ promoter.at = "idle" /\ VerifyArchive(rpArchive[b])
      /\ UNCHANGED <<rpHost, replacement, backup, journal, importLedger, candidates, promoter>>
  BY DEF Stage, StageAnew
<1>2. /\ canonical' \in Trees
      /\ \A x \in canonical'.staged : VerifyArchive(rpArchive[x])
      /\ canonical # NoTree => canonical \in Trees /\ canonical'.evidence = canonical.evidence
      /\ canonical = NoTree => canonical'.evidence = {}
  <2>1. CASE Stage(b)
    <3>1. canonical # NoTree /\ canonical \in Trees
      BY <1>0, <2>1 DEF Stage, StagedOK
    <3>2. canonical' = [canonical EXCEPT !.staged = @ \cup {b}]
      BY <2>1 DEF Stage
    <3> QED BY <1>0, <1>1, <3>1, <3>2 DEF Trees, StagedOK
  <2>2. CASE StageAnew(b)
    BY <1>1, <2>2 DEF StageAnew, Trees
  <2> QED BY <2>1, <2>2
<1>3. StagedOK(canonical', rpArchive)
  BY <1>2 DEF StagedOK
<1>4. ASSUME NEW S, TreeIn(canonical, S) PROVE TreeIn(canonical', S)
  BY <1>2, <1>4 DEF TreeIn
<1> HIDE DEF L
<1>5. PhaseOK(promoter, journal, canonical', replacement, backup, candidates, L)
  BY <1>0, <1>1, <1>4 DEF PhaseOK, Pending, Settled, Recovering, Swapping, InTry
<1> QED BY <1>0, <1>1, <1>3, <1>5, CheckoutStep DEF L

(* Recovery: the journal's bundle stays exactly when the ledger lists it.   *)
LEMMA RecoveryKeepsInv ==
  ASSUME PromotionInv,
         \/ \E b \in Bundles : Promote(b)
         \/ RecoverFinalize \/ RecoverRemove \/ RecoverRestore \/ RecoverDiscard
  PROVE  PromotionInv'
<1> DEFINE L == ToSet(importLedger)
<1>0. /\ StagedOK(canonical, rpArchive) /\ StagedOK(replacement, rpArchive)
      /\ StagedOK(backup, rpArchive) /\ StagedOK(NoTree, rpArchive)
      /\ ImportLedgerOK(importLedger) /\ candidates \subseteq Bundles
      /\ PhaseOK(promoter, journal, canonical, replacement, backup, candidates, L)
      /\ promoter \in Promoters
  BY DEF PromotionInv, PhaseOK, StagedOK
<1> HIDE DEF L
<1>1. ASSUME NEW b \in Bundles, Promote(b) PROVE PromotionInv'
  <2>1. /\ promoter' \in Promoters /\ promoter'.bundle = b /\ ~promoter'.made /\ ~promoter'.kept
        /\ promoter'.at = (IF journal = <<>> THEN "assess" ELSE "recover")
    BY <1>1 DEF Promote, IdlePromoter, Promoters, Recovering, Swapping
  <2>2. /\ promoter.at = "idle"
        /\ UNCHANGED <<rpHost, rpTrees, journal, importLedger, candidates>>
    BY <1>1 DEF Promote
  <2>3. PhaseOK(promoter', journal, canonical, replacement, backup, candidates, L)
    <3>1. /\ journal = <<>> => Settled(canonical, candidates, L)
          /\ journal # <<>> => Pending(journal, canonical, backup, candidates, L)
      BY <1>0, <2>2 DEF PhaseOK, Pending
    <3> QED BY <2>1, <3>1 DEF PhaseOK, Recovering, Swapping, InTry
  <2> QED BY <1>0, <2>2, <2>3, CheckoutStep DEF rpTrees, L
<1>2. CASE RecoverFinalize
  <2>1. /\ promoter.at = "recover" /\ RecoverKeeps /\ journal' = <<>>
        /\ promoter' = [promoter EXCEPT !.at = "assess"]
        /\ UNCHANGED <<rpHost, canonical, importLedger, candidates>>
        /\ replacement' \in {NoTree, replacement} /\ backup' \in {NoTree, backup}
    BY <1>2 DEF RecoverFinalize, At
  <2>2. Pending(journal, canonical, backup, candidates, L)
    BY <1>0, <2>1 DEF PhaseOK, Recovering
  <2>3. journal.status \in FinalStatuses \/ journal.bundle \in L
    BY <2>1 DEF RecoverKeeps, LedgerContains, FinalStatuses, L
  <2>4. Settled(canonical, candidates, L)
    BY <2>2, <2>3 DEF Pending, Settled, TreeIn
  <2>5. PhaseOK(promoter', journal', canonical, replacement', backup', candidates, L)
    <3>1. /\ promoter' \in Promoters /\ promoter'.at = "assess"
          /\ promoter'.bundle = promoter.bundle /\ promoter'.made = promoter.made
      BY <1>0, <2>1, PromoterMoves
    <3> QED BY <1>0, <2>1, <2>4, <3>1 DEF PhaseOK, Recovering, Swapping, InTry
  <2>6. StagedOK(replacement', rpArchive) /\ StagedOK(backup', rpArchive)
    BY <1>0, <2>1
  <2> QED BY <1>0, <2>1, <2>5, <2>6, CheckoutStep DEF L
<1>3. CASE RecoverRemove
  <2>1. /\ promoter.at = "recover" /\ canonical' = NoTree
        /\ promoter' = [promoter EXCEPT !.at = "restore"] /\ ~RecoverKeeps
        /\ UNCHANGED <<rpHost, replacement, backup, journal, importLedger, candidates>>
    BY <1>3 DEF RecoverRemove, At
  <2>2. Pending(journal, canonical, backup, candidates, L) /\ journal.status \notin FinalStatuses
    BY <1>0, <2>1 DEF PhaseOK, Recovering, RecoverKeeps, FinalStatuses
  <2>3. Pending(journal, canonical', backup, candidates, L)
    BY <2>1, <2>2 DEF Pending, TreeIn
  <2>4. PhaseOK(promoter', journal, canonical', replacement, backup, candidates, L)
    <3>1. /\ promoter' \in Promoters /\ promoter'.at = "restore"
          /\ promoter'.bundle = promoter.bundle /\ promoter'.made = promoter.made
      BY <1>0, <2>1, PromoterMoves DEF Recovering
    <3> QED BY <1>0, <2>1, <2>3, <3>1 DEF PhaseOK, Recovering, Swapping, InTry
  <2> QED BY <1>0, <2>1, <2>4, CheckoutStep DEF L
<1>4. CASE RecoverRestore
  <2>1. /\ promoter.at = "restore"
        /\ promoter' = [promoter EXCEPT !.at = "discard"]
        /\ UNCHANGED <<rpHost, replacement, journal, importLedger, candidates>>
        /\ \/ canonical' = canonical /\ backup' = backup
           \/ canonical' = backup /\ backup' = NoTree
    BY <1>4 DEF RecoverRestore, At
  <2>2. Pending(journal, canonical, backup, candidates, L) /\ canonical = NoTree
    BY <1>0, <2>1 DEF PhaseOK, Recovering
  <2>3. TreeIn(canonical', L) /\ TreeIn(backup', L)
    BY <2>1, <2>2 DEF Pending, TreeIn
  <2>4. Pending(journal, canonical', backup', candidates, L)
    BY <2>2, <2>3 DEF Pending, TreeIn, Settled
  <2>5. PhaseOK(promoter', journal, canonical', replacement, backup', candidates, L)
    <3>1. /\ promoter' \in Promoters /\ promoter'.at = "discard"
          /\ promoter'.bundle = promoter.bundle /\ promoter'.made = promoter.made
      BY <1>0, <2>1, PromoterMoves DEF Recovering
    <3> QED BY <1>0, <2>1, <2>3, <2>4, <3>1 DEF PhaseOK, Recovering, Swapping, InTry
  <2>6. StagedOK(canonical', rpArchive) /\ StagedOK(backup', rpArchive)
    BY <1>0, <2>1
  <2> QED BY <1>0, <2>1, <2>5, <2>6, CheckoutStep DEF L
<1>5. CASE RecoverDiscard
  <2>1. /\ promoter.at = "discard" /\ journal' = <<>> /\ replacement' = NoTree
        /\ promoter' = [promoter EXCEPT !.at = "assess"]
        /\ UNCHANGED <<rpHost, canonical, backup, importLedger>>
        /\ candidates' = IF journal.kept THEN candidates ELSE candidates \ {journal.bundle}
    BY <1>5 DEF RecoverDiscard, At
  <2>2. Pending(journal, canonical, backup, candidates, L) /\ TreeIn(canonical, L)
    BY <1>0, <2>1 DEF PhaseOK, Recovering
  <2>3. Settled(canonical, candidates', L) /\ candidates' \subseteq Bundles
    BY <1>0, <2>1, <2>2 DEF Pending, Settled
  <2>4. PhaseOK(promoter', journal', canonical, replacement', backup, candidates', L)
    <3>1. /\ promoter' \in Promoters /\ promoter'.at = "assess"
          /\ promoter'.bundle = promoter.bundle /\ promoter'.made = promoter.made
      BY <1>0, <2>1, PromoterMoves
    <3> QED BY <1>0, <2>1, <2>3, <3>1 DEF PhaseOK, Recovering, Swapping, InTry
  <2> QED BY <1>0, <2>1, <2>3, <2>4, CheckoutStep DEF L
<1> QED BY <1>1, <1>2, <1>3, <1>4, <1>5

(* Up to the journal: the bundle was never imported, so its lock candidate  *)
(* was not kept by an earlier promotion either.                             *)
LEMMA AssessKeepsInv ==
  ASSUME PromotionInv, Assess \/ AssessFails \/ Prepare \/ Done \/ PromoterCrash
  PROVE  PromotionInv'
<1> DEFINE L == ToSet(importLedger)
<1>0. /\ StagedOK(canonical, rpArchive) /\ StagedOK(replacement, rpArchive)
      /\ StagedOK(backup, rpArchive) /\ StagedOK(NoTree, rpArchive)
      /\ ImportLedgerOK(importLedger) /\ candidates \subseteq Bundles
      /\ PhaseOK(promoter, journal, canonical, replacement, backup, candidates, L)
      /\ promoter \in Promoters
  BY DEF PromotionInv, PhaseOK, StagedOK
<1>1. CASE Assess
  <2> DEFINE b == promoter.bundle
  <2>1. /\ promoter.at = "assess" /\ backup' = NoTree /\ Assessed(b)
        /\ replacement' = [canonical EXCEPT !.evidence = @ \cup {b}]
        /\ promoter' = [promoter EXCEPT !.at = "prepare", !.kept = b \in candidates]
        /\ UNCHANGED <<rpHost, canonical, journal, importLedger, candidates>>
    BY <1>1 DEF Assess
  <2>2. /\ b \in Bundles /\ ~promoter.made /\ journal = <<>>
        /\ Settled(canonical, candidates, L)
    BY <1>0, <2>1 DEF PhaseOK
  <2>3. canonical # NoTree /\ canonical \in Trees /\ b \notin L
    BY <1>0, <2>1 DEF Assessed, StagedBundle, LedgerContains, StagedOK, L
  <2>4. b \notin candidates
    BY <2>2, <2>3 DEF Settled
  <2> HIDE DEF b, L
  <2>5. /\ replacement' \in Trees /\ replacement'.staged = canonical.staged
        /\ replacement'.evidence = canonical.evidence \cup {b}
    BY <2>1, <2>2, <2>3 DEF Trees
  <2>6. TreeIn(replacement', L \cup {b})
    BY <2>2, <2>3, <2>5 DEF TreeIn, Settled
  <2>7. StagedOK(replacement', rpArchive)
    BY <1>0, <2>3, <2>5 DEF StagedOK
  <2>8. /\ promoter' \in Promoters /\ promoter'.at = "prepare" /\ promoter'.bundle = b
        /\ ~promoter'.made /\ ~promoter'.kept
    <3>1. (b \in candidates) = FALSE
      BY <2>4
    <3>2. promoter' = [promoter EXCEPT !.at = "prepare", !.kept = FALSE]
      BY <2>1, <3>1
    <3> QED BY <1>0, <2>2, <3>2 DEF Promoters, b
  <2>9. PhaseOK(promoter', journal, canonical, replacement', backup', candidates, L)
    BY <2>1, <2>2, <2>3, <2>6, <2>8 DEF PhaseOK, Settled, Recovering, Swapping, InTry
  <2> QED BY <1>0, <2>1, <2>7, <2>9, CheckoutStep DEF L
<1>2. ASSUME promoter' = IdlePromoter,
             UNCHANGED <<rpHost, rpTrees, importLedger, candidates>>,
             (journal' = <<>> /\ Settled(canonical, candidates, L))
                \/ Pending(journal', canonical, backup, candidates, L)
      PROVE  PromotionInv'
  <2>1. PhaseOK(promoter', journal', canonical, replacement, backup, candidates, L)
    BY <1>2, IdlePromoterFacts DEF PhaseOK, Recovering, Swapping, InTry
  <2> QED BY <1>0, <1>2, <2>1, CheckoutStep DEF rpTrees
<1> HIDE DEF L
<1>3. CASE AssessFails
  <2>1. /\ promoter.at = "assess" /\ promoter' = IdlePromoter
        /\ UNCHANGED <<rpHost, rpTrees, journal, importLedger, candidates>>
    BY <1>3 DEF AssessFails
  <2>2. journal = <<>> /\ Settled(canonical, candidates, L)
    BY <1>0, <2>1 DEF PhaseOK
  <2> QED BY <1>2, <2>1, <2>2
<1>4. CASE Prepare
  <2>1. /\ promoter.at = "prepare"
        /\ journal' = [status |-> "PREPARED", bundle |-> promoter.bundle, kept |-> promoter.kept]
        /\ promoter' = [promoter EXCEPT !.at = "backup"]
        /\ UNCHANGED <<rpHost, rpTrees, importLedger, candidates>>
    BY <1>4 DEF Prepare, Journalled, At
  <2>2. /\ promoter.bundle \in Bundles /\ ~promoter.kept /\ ~promoter.made
        /\ Settled(canonical, candidates, L) /\ promoter.bundle \notin L
        /\ TreeIn(replacement, L \cup {promoter.bundle}) /\ backup = NoTree
    BY <1>0, <2>1 DEF PhaseOK
  <2>3. promoter.kept = FALSE
    BY <1>0, <2>2 DEF Promoters
  <2>4. /\ journal' # <<>> /\ journal' \in Journals /\ ~journal'.kept
        /\ journal'.bundle = promoter.bundle /\ journal'.status = "PREPARED"
    BY <2>1, <2>2, <2>3, JournalIsWritten DEF OpenStatuses
  <2>5. /\ promoter' \in Promoters /\ promoter'.at = "backup"
        /\ promoter'.bundle = promoter.bundle /\ promoter'.made = promoter.made
        /\ promoter'.kept = promoter.kept
    BY <1>0, <2>1, PromoterMoves DEF Swapping, InTry
  <2>6. Pending(journal', canonical, backup, candidates, L)
    BY <2>2, <2>4 DEF Pending, Settled, TreeIn, FinalStatuses
  <2>7. PhaseOK(promoter', journal', canonical, replacement, backup, candidates, L)
    BY <2>2, <2>4, <2>5, <2>6 DEF PhaseOK, Settled, Recovering, Swapping, InTry, FinalStatuses
  <2> QED BY <1>0, <2>1, <2>7, CheckoutStep DEF rpTrees, L
<1>5. CASE Done
  <2>1. /\ promoter.at = "done" /\ promoter' = IdlePromoter /\ journal' = <<>>
        /\ UNCHANGED <<rpHost, rpTrees, importLedger, candidates>>
    BY <1>5 DEF Done
  <2>2. Settled(canonical, candidates, L)
    BY <1>0, <2>1 DEF PhaseOK
  <2> QED BY <1>2, <2>1, <2>2
<1>6. CASE PromoterCrash
  <2>1. /\ promoter.at # "idle" /\ promoter' = IdlePromoter
        /\ UNCHANGED <<rpHost, rpTrees, journal, importLedger, candidates>>
    BY <1>6 DEF PromoterCrash
  <2>2. (journal = <<>> /\ Settled(canonical, candidates, L))
           \/ Pending(journal, canonical, backup, candidates, L)
    BY <1>0, <2>1 DEF PhaseOK, Promoters
  <2> QED BY <1>2, <2>1, <2>2
<1> QED BY <1>1, <1>3, <1>4, <1>5, <1>6

(* What holds of a swap under way wherever it stands. *)
SwapFacts(p, j, c, k, cand, L) ==
    /\ p \in Promoters /\ p.bundle \in Bundles /\ ~p.kept /\ j.bundle = p.bundle
    /\ Pending(j, c, k, cand, L)

LEMMA SwapPhase ==
  ASSUME NEW p, NEW j, NEW c, NEW r, NEW k, NEW cand, NEW L,
         PhaseOK(p, j, c, r, k, cand, L), p.at \in Swapping
  PROVE  SwapFacts(p, j, c, k, cand, L)
BY DEF PhaseOK, SwapFacts, Swapping, InTry

(* The three renames and the copy of the locks. *)
LEMMA SwapKeepsInv ==
  ASSUME PromotionInv, SwapOut \/ SwapIn \/ PostVerify \/ AppendImportLedger
  PROVE  PromotionInv'
<1> DEFINE L == ToSet(importLedger)
           b == promoter.bundle
<1>0. /\ StagedOK(canonical, rpArchive) /\ StagedOK(replacement, rpArchive)
      /\ StagedOK(backup, rpArchive) /\ StagedOK(NoTree, rpArchive)
      /\ ImportLedgerOK(importLedger) /\ candidates \subseteq Bundles
      /\ PhaseOK(promoter, journal, canonical, replacement, backup, candidates, L)
  BY DEF PromotionInv, StagedOK
<1>1. SwapFacts(promoter, journal, canonical, backup, candidates, L)
  BY <1>0, SwapPhase DEF SwapOut, SwapIn, PostVerify, AppendImportLedger, Swapping, InTry
<1>2. CASE SwapOut
  <2>1. /\ promoter.at = "backup" /\ promoter' = [promoter EXCEPT !.at = "swap"]
        /\ backup' = canonical /\ canonical' = NoTree
        /\ UNCHANGED <<rpHost, replacement, journal, importLedger, candidates>>
    BY <1>2 DEF SwapOut, At
  <2> HIDE DEF L
  <2>2. /\ TreeIn(canonical, L) /\ TreeIn(replacement, L \cup {b}) /\ b \notin L
        /\ ~promoter.made /\ candidates \subseteq L /\ journal.status \notin FinalStatuses
    BY <1>0, <2>1 DEF PhaseOK, InTry
  <2>3. Pending(journal, canonical', backup', candidates, L)
    BY <1>1, <2>1, <2>2 DEF SwapFacts, Pending, Settled, TreeIn
  <2>4. /\ promoter' \in Promoters /\ promoter'.at = "swap"
        /\ promoter'.bundle = b /\ promoter'.made = promoter.made /\ promoter'.kept = promoter.kept
    BY <1>1, <2>1, PromoterMoves DEF SwapFacts, Swapping, InTry
  <2>5. PhaseOK(promoter', journal, canonical', replacement, backup', candidates, L)
    BY <1>1, <2>1, <2>2, <2>3, <2>4 DEF PhaseOK, SwapFacts, Recovering, Swapping, InTry
  <2> QED BY <1>0, <2>1, <2>5, CheckoutStep DEF L
<1>3. CASE SwapIn
  <2>1. /\ promoter.at = "swap" /\ promoter' = [promoter EXCEPT !.at = "swapped"]
        /\ canonical' = replacement /\ replacement' = NoTree
        /\ UNCHANGED <<rpHost, backup, journal, importLedger, candidates>>
    BY <1>3 DEF SwapIn, At
  <2> HIDE DEF L
  <2>2. /\ TreeIn(replacement, L \cup {b}) /\ b \notin L /\ canonical = NoTree
        /\ ~promoter.made /\ candidates \subseteq L /\ journal.status \notin FinalStatuses
    BY <1>0, <2>1 DEF PhaseOK, InTry
  <2>3. Pending(journal, canonical', backup, candidates, L)
    BY <1>1, <2>1, <2>2 DEF SwapFacts, Pending, Settled, TreeIn
  <2>4. /\ promoter' \in Promoters /\ promoter'.at = "swapped"
        /\ promoter'.bundle = b /\ promoter'.made = promoter.made /\ promoter'.kept = promoter.kept
    BY <1>1, <2>1, PromoterMoves DEF SwapFacts, Swapping, InTry
  <2>5. PhaseOK(promoter', journal, canonical', replacement', backup, candidates, L)
    BY <1>1, <2>1, <2>2, <2>3, <2>4 DEF PhaseOK, SwapFacts, Recovering, Swapping, InTry
  <2> QED BY <1>0, <2>1, <2>5, CheckoutStep DEF L
<1>4. CASE PostVerify
  <2>1. /\ promoter.at = "verify"
        /\ promoter' = [promoter EXCEPT !.at = "verified", !.made = b \in LockBundles]
        /\ candidates' = candidates \cup ({b} \cap LockBundles)
        /\ UNCHANGED <<rpHost, rpTrees, journal, importLedger>>
    BY <1>4 DEF PostVerify, CopyLockCandidates
  <2> HIDE DEF L
  <2>2. b \notin L /\ candidates \subseteq L /\ journal.status \notin FinalStatuses
    BY <1>0, <2>1 DEF PhaseOK, InTry
  <2>3. /\ promoter' \in Promoters /\ promoter'.at = "verified" /\ promoter'.bundle = b
        /\ promoter'.kept = promoter.kept /\ promoter'.made = (b \in LockBundles)
    <3> DEFINE m == b \in LockBundles
    <3>1. m \in BOOLEAN
      <4>1. CASE b \in LockBundles
        <5>1. m = TRUE
          BY <4>1
        <5> QED BY <5>1
      <4>2. CASE b \notin LockBundles
        <5>1. m = FALSE
          BY <4>2
        <5> QED BY <5>1
      <4> QED BY <4>1, <4>2
    <3>2. promoter \in Promoters /\ promoter' = [promoter EXCEPT !.at = "verified", !.made = m]
      BY <1>1, <2>1 DEF SwapFacts
    <3>3. m = (b \in LockBundles)
      OBVIOUS
    <3> HIDE DEF m
    <3>4. /\ promoter' \in Promoters /\ promoter'.at = "verified" /\ promoter'.bundle = b
          /\ promoter'.kept = promoter.kept /\ promoter'.made = m
      BY <3>1, <3>2 DEF Promoters, Swapping, InTry
    <3> QED BY <3>3, <3>4
  <2>4. promoter'.made \/ candidates' \subseteq L
    BY <2>1, <2>2, <2>3
  <2>5. Pending(journal, canonical, backup, candidates', L)
    BY <1>1, <2>1, <2>2 DEF SwapFacts, Pending, Settled
  <2>6. PhaseOK(promoter', journal, canonical, replacement, backup, candidates', L)
    BY <1>1, <2>1, <2>2, <2>3, <2>4, <2>5 DEF PhaseOK, SwapFacts, Recovering, Swapping, InTry
  <2>7. candidates' \subseteq Bundles
    BY <1>0, <1>1, <2>1 DEF SwapFacts
  <2> QED BY <1>0, <2>1, <2>6, <2>7, CheckoutStep DEF rpTrees, L
<1>5. CASE AppendImportLedger
  <2>1. /\ promoter.at = "append" /\ promoter' = [promoter EXCEPT !.at = "appended"]
        /\ importLedger' = Append(importLedger, b)
        /\ UNCHANGED <<rpHost, rpTrees, journal, candidates>>
    BY <1>5 DEF AppendImportLedger, At
  <2>2. b \notin L /\ b \in Bundles /\ journal.status \notin FinalStatuses
    BY <1>0, <1>1, <2>1 DEF PhaseOK, SwapFacts, InTry
  <2>3. ImportLedgerOK(importLedger') /\ ToSet(importLedger') = L \cup {b}
    BY <1>0, <2>1, <2>2, ImportedSet
  <2>4. /\ promoter' \in Promoters /\ promoter'.at = "appended"
        /\ promoter'.bundle = b /\ promoter'.made = promoter.made /\ promoter'.kept = promoter.kept
    BY <1>1, <2>1, PromoterMoves DEF SwapFacts, Swapping, InTry
  <2> HIDE DEF L
  <2>5. Pending(journal, canonical, backup, candidates, L \cup {b})
    BY <1>1 DEF SwapFacts, Pending, Settled, TreeIn
  <2>6. PhaseOK(promoter', journal, canonical, replacement, backup, candidates, L \cup {b})
    BY <1>1, <2>2, <2>4, <2>5 DEF PhaseOK, SwapFacts, Recovering, Swapping, InTry
  <2> QED BY <1>0, <2>1, <2>3, <2>6, CheckoutStep DEF rpTrees
<1> QED BY <1>2, <1>3, <1>4, <1>5

(* The journal is written before and after the steps it names. *)
LEMMA JournalKeepsInv ==
  ASSUME PromotionInv, Swapped \/ PostVerified \/ LedgerCommitted \/ Commit \/ RolledBack
  PROVE  PromotionInv'
<1> DEFINE L == ToSet(importLedger)
           b == promoter.bundle
<1>0. /\ StagedOK(canonical, rpArchive) /\ StagedOK(replacement, rpArchive)
      /\ StagedOK(backup, rpArchive) /\ StagedOK(NoTree, rpArchive)
      /\ ImportLedgerOK(importLedger) /\ candidates \subseteq Bundles
      /\ PhaseOK(promoter, journal, canonical, replacement, backup, candidates, L)
  BY DEF PromotionInv, StagedOK
<1>1. SwapFacts(promoter, journal, canonical, backup, candidates, L)
  BY <1>0, SwapPhase
     DEF Swapped, PostVerified, LedgerCommitted, Commit, RolledBack, Swapping, InTry
<1>2. promoter.kept = FALSE /\ b \in Bundles /\ promoter \in Promoters
  BY <1>1 DEF SwapFacts, Promoters
<1> HIDE DEF L
<1>3. ASSUME NEW status \in OpenStatuses \cup FinalStatuses, NEW step \in Swapping,
             Journalled(status), At(step),
             UNCHANGED <<rpHost, canonical, replacement, importLedger, candidates>>,
             backup' \in {NoTree, backup},
             status \in FinalStatuses => Settled(canonical, candidates, L),
             step \in {"verify", "append", "commit", "done"},
             step = "verify" => b \notin L /\ ~promoter.made /\ candidates \subseteq L,
             step = "append" => b \notin L /\ (promoter.made \/ candidates \subseteq L),
             step = "commit" => b \in L,
             step = "done" => Settled(canonical, candidates, L),
             step # "done" => status \notin FinalStatuses
      PROVE  PromotionInv'
  <2>1. /\ journal' # <<>> /\ journal' \in Journals /\ ~journal'.kept
        /\ journal'.bundle = b /\ journal'.status = status
    BY <1>2, <1>3, JournalIsWritten DEF Journalled
  <2>2. /\ promoter' \in Promoters /\ promoter'.at = step
        /\ promoter'.bundle = b /\ promoter'.made = promoter.made /\ promoter'.kept = promoter.kept
    BY <1>2, <1>3, PromoterMoves DEF At
  <2>3. TreeIn(backup', L)
    BY <1>1, <1>3 DEF SwapFacts, Pending, TreeIn
  <2>4. Pending(journal', canonical, backup', candidates, L)
    BY <1>1, <1>3, <2>1, <2>3 DEF SwapFacts, Pending
  <2>5. PhaseOK(promoter', journal', canonical, replacement, backup', candidates, L)
    BY <1>2, <1>3, <2>1, <2>2, <2>4 DEF PhaseOK, Recovering, Swapping, InTry
  <2>6. StagedOK(backup', rpArchive)
    BY <1>0, <1>3
  <2> QED BY <1>0, <1>3, <2>5, <2>6, CheckoutStep DEF L
<1>4. CASE Swapped
  <2>1. promoter.at = "swapped" /\ Journalled("CANONICAL_SWAPPED") /\ At("verify")
        /\ UNCHANGED <<rpHost, canonical, replacement, importLedger, candidates>> /\ backup' = backup
    BY <1>4 DEF Swapped, rpTrees
  <2>2. b \notin L /\ ~promoter.made /\ candidates \subseteq L
    BY <1>0, <2>1 DEF PhaseOK
  <2> QED BY <1>3, <2>1, <2>2 DEF OpenStatuses, FinalStatuses, Swapping, InTry
<1>5. CASE PostVerified
  <2>1. promoter.at = "verified" /\ Journalled("POST_VERIFIED") /\ At("append")
        /\ UNCHANGED <<rpHost, canonical, replacement, importLedger, candidates>> /\ backup' = backup
    BY <1>5 DEF PostVerified, rpTrees
  <2>2. b \notin L /\ (promoter.made \/ candidates \subseteq L)
    BY <1>0, <2>1 DEF PhaseOK
  <2> QED BY <1>3, <2>1, <2>2 DEF OpenStatuses, FinalStatuses, Swapping, InTry
<1>6. CASE LedgerCommitted
  <2>1. promoter.at = "appended" /\ Journalled("LEDGER_COMMITTED") /\ At("commit")
        /\ UNCHANGED <<rpHost, canonical, replacement, importLedger, candidates>> /\ backup' = backup
    BY <1>6 DEF LedgerCommitted, rpTrees
  <2>2. b \in L
    BY <1>0, <2>1 DEF PhaseOK
  <2> QED BY <1>3, <2>1, <2>2 DEF OpenStatuses, FinalStatuses, Swapping, InTry
<1>7. CASE Commit
  <2>1. promoter.at = "commit" /\ Journalled("COMMITTED") /\ At("done")
        /\ UNCHANGED <<rpHost, canonical, replacement, importLedger, candidates>> /\ backup' = NoTree
    BY <1>7 DEF Commit
  <2>2. b \in L
    BY <1>0, <2>1 DEF PhaseOK
  <2>3. Settled(canonical, candidates, L)
    BY <1>1, <2>2 DEF SwapFacts, Pending, Settled, TreeIn
  <2> QED BY <1>3, <2>1, <2>3 DEF OpenStatuses, FinalStatuses, Swapping, InTry
<1>8. CASE RolledBack
  <2>1. promoter.at = "rolled" /\ Journalled("ROLLED_BACK") /\ At("done")
        /\ UNCHANGED <<rpHost, canonical, replacement, importLedger, candidates>> /\ backup' = backup
    BY <1>8 DEF RolledBack, rpTrees
  <2>2. Settled(canonical, candidates, L)
    BY <1>0, <2>1 DEF PhaseOK
  <2> QED BY <1>3, <2>1, <2>2 DEF OpenStatuses, FinalStatuses, Swapping, InTry
<1> QED BY <1>4, <1>5, <1>6, <1>7, <1>8

(* The handler of a step that raised. *)
LEMMA RollbackKeepsInv ==
  ASSUME PromotionInv, SwapRaises \/ Rollback
  PROVE  PromotionInv'
<1> DEFINE L == ToSet(importLedger)
           b == promoter.bundle
<1>0. /\ StagedOK(canonical, rpArchive) /\ StagedOK(replacement, rpArchive)
      /\ StagedOK(backup, rpArchive) /\ StagedOK(NoTree, rpArchive)
      /\ ImportLedgerOK(importLedger) /\ candidates \subseteq Bundles
      /\ PhaseOK(promoter, journal, canonical, replacement, backup, candidates, L)
  BY DEF PromotionInv, StagedOK
<1>1. SwapFacts(promoter, journal, canonical, backup, candidates, L)
  BY <1>0, SwapPhase DEF SwapRaises, Rollback, Swapping, InTry
<1> HIDE DEF L
<1>2. CASE SwapRaises
  <2>1. /\ promoter.at \in InTry /\ promoter' = [promoter EXCEPT !.at = "rollback"]
        /\ canonical' = NoTree
        /\ UNCHANGED <<rpHost, replacement, backup, journal, importLedger, candidates>>
    BY <1>2 DEF SwapRaises, At
  <2>2. promoter.made \/ candidates \subseteq L
    <3>1. promoter.at = "appended" => b \in L
      BY <1>0 DEF PhaseOK
    <3>2. promoter.at = "appended" => candidates \subseteq L
      BY <1>1, <3>1 DEF SwapFacts, Pending
    <3> QED BY <1>0, <2>1, <3>2 DEF PhaseOK, InTry
  <2>3. Pending(journal, canonical', backup, candidates, L)
    BY <1>1, <2>1 DEF SwapFacts, Pending, Settled, TreeIn
  <2>4. /\ promoter' \in Promoters /\ promoter'.at = "rollback"
        /\ promoter'.bundle = b /\ promoter'.made = promoter.made /\ promoter'.kept = promoter.kept
    BY <1>1, <2>1, PromoterMoves DEF SwapFacts, Swapping
  <2>5. PhaseOK(promoter', journal, canonical', replacement, backup, candidates, L)
    BY <1>1, <2>1, <2>2, <2>3, <2>4 DEF PhaseOK, SwapFacts, Recovering, Swapping, InTry
  <2> QED BY <1>0, <2>1, <2>5, CheckoutStep DEF L
<1>3. CASE Rollback
  <2>1. /\ promoter.at = "rollback" /\ promoter' = [promoter EXCEPT !.at = "rolled"]
        /\ replacement' = NoTree
        /\ \/ canonical' = canonical /\ backup' = backup
           \/ canonical' = backup /\ backup' = NoTree
        /\ candidates' = IF promoter.made /\ ~promoter.kept THEN candidates \ {b} ELSE candidates
        /\ UNCHANGED <<rpHost, journal, importLedger>>
    BY <1>3 DEF Rollback, At
  <2>2. canonical = NoTree /\ (promoter.made \/ candidates \subseteq L)
    BY <1>0, <2>1 DEF PhaseOK
  <2>3. TreeIn(canonical', L) /\ TreeIn(backup', L)
    BY <1>1, <2>1, <2>2 DEF SwapFacts, Pending, TreeIn
  <2>4. candidates' \subseteq L
    BY <1>1, <2>1, <2>2 DEF SwapFacts, Pending
  <2>5. Settled(canonical', candidates', L)
    BY <2>3, <2>4 DEF Settled
  <2>6. Pending(journal, canonical', backup', candidates', L)
    BY <1>1, <2>3, <2>4, <2>5 DEF SwapFacts, Pending, TreeIn
  <2>7. /\ promoter' \in Promoters /\ promoter'.at = "rolled"
        /\ promoter'.bundle = b /\ promoter'.made = promoter.made /\ promoter'.kept = promoter.kept
    BY <1>1, <2>1, PromoterMoves DEF SwapFacts, Swapping
  <2>8. PhaseOK(promoter', journal, canonical', replacement', backup', candidates', L)
    BY <1>1, <2>1, <2>5, <2>6, <2>7 DEF PhaseOK, SwapFacts, Recovering, Swapping, InTry
  <2>9. StagedOK(canonical', rpArchive) /\ StagedOK(backup', rpArchive) /\ candidates' \subseteq Bundles
    BY <1>0, <2>1
  <2> QED BY <1>0, <2>1, <2>8, <2>9, CheckoutStep DEF L
<1> QED BY <1>2, <1>3

LEMMA PromotionInvNext == PromotionInv /\ [PromotionNext]_promotionVars => PromotionInv'
<1> SUFFICES ASSUME PromotionInv, [PromotionNext]_promotionVars PROVE PromotionInv'
  OBVIOUS
<1>1. CASE UNCHANGED promotionVars
  BY <1>1 DEF promotionVars, rpHost, rpTrees, PromotionInv
<1>2. ASSUME NEW v \in Versions, EvidenceRewritten(v) PROVE PromotionInv'
  BY <1>2, ReturnHostKeepsInv
<1>3. ASSUME NEW b \in Bundles, BuildRows(b) \/ Stage(b) \/ StageAnew(b) \/ Promote(b)
      PROVE  PromotionInv'
  BY <1>3, ReturnHostKeepsInv, StageKeepsInv, RecoveryKeepsInv
<1>4. CASE BuildArchive
  BY <1>4, ReturnHostKeepsInv
<1>5. CASE RecoverFinalize \/ RecoverRemove \/ RecoverRestore \/ RecoverDiscard
  BY <1>5, RecoveryKeepsInv
<1>6. CASE Assess \/ AssessFails \/ Prepare \/ Done \/ PromoterCrash
  BY <1>6, AssessKeepsInv
<1>7. CASE SwapOut \/ SwapIn \/ PostVerify \/ AppendImportLedger
  BY <1>7, SwapKeepsInv
<1>8. CASE Swapped \/ PostVerified \/ LedgerCommitted \/ Commit \/ RolledBack
  BY <1>8, JournalKeepsInv
<1>9. CASE SwapRaises \/ Rollback
  BY <1>9, RollbackKeepsInv
<1> QED BY <1>1, <1>2, <1>3, <1>4, <1>5, <1>6, <1>7, <1>8, <1>9 DEF PromotionNext

(* Whichever step of a promotion or of its recovery raises or dies, and     *)
(* however often, at rest no evidence and no lock candidate is in the       *)
(* checkout without its entry in the import ledger, no bundle is imported   *)
(* twice, and what is staged is what its manifest hashed                    *)
(* (acceptance_return_promotion.py, acceptance_return_bundle.py).           *)
THEOREM PromotionStaysAccountedFor == PromotionSpec => []PromotionIsAccountedFor
<1>1. PromotionInv => PromotionIsAccountedFor
  <2> SUFFICES ASSUME PromotionInv PROVE PromotionIsAccountedFor
    OBVIOUS
  <2>1. ImportedOnce
    BY DEF PromotionInv, ImportLedgerOK, ImportedOnce
  <2>2. StagedIsWhatWasHashed
    BY DEF PromotionInv, StagedOK, VerifyArchive, StagedIsWhatWasHashed
  <2>3. OnlyLedgeredEvidence
    <3>1. AtRest => Settled(canonical, candidates, ToSet(importLedger))
      BY DEF PromotionInv, PhaseOK, AtRest, Pending
    <3> QED BY <2>1, <3>1
            DEF OnlyLedgeredEvidence, Settled, TreeIn, LedgerContains, LedgerValid, ImportedOnce
  <2> QED BY <2>1, <2>2, <2>3 DEF PromotionIsAccountedFor
<1> QED BY <1>1, PromotionInvInit, PromotionInvNext, PTL DEF PromotionSpec
-----------------------------------------------------------------------------
(* Release packages.                                                        *)

WorkFiles == Sources \cup Evidence \cup {"provenance"}
Readings == WorkFiles \X Nat
PackStates == [cmd : {"none", "source", "evidence", "distribution"},
               at : {"idle", "collect", "hash", "write", "verify", "bundle", "provenance", "conclude"},
               todo : SUBSET WorkFiles, sums : [files : SUBSET Readings],
               zip : [files : SUBSET Readings], commit : Nat, named : Nat,
               returned : BOOLEAN]

PackagingTypes ==
    /\ work \in [WorkFiles -> Nat] /\ head \in Nat /\ edits \in Nat /\ pack \in PackStates
    /\ DOMAIN out = {"source", "evidence", "sums", "bundle", "provenance"}

(* A distribution is being built, nothing was edited, and HEAD has been the *)
(* commit of the binding all the time.                                      *)
Steady == edits = 0 /\ pack.cmd = "distribution" /\ pack.commit = head /\ ~pack.returned

SourcePhase == pack.todo \subseteq Sources /\ \A r \in pack.sums.files : r[1] \in Sources
EvidencePhase == pack.todo \subseteq Evidence /\ \A r \in pack.sums.files : r[1] \in Evidence
SourceBuilt == \A r \in out.source.files : r[2] = head
EvidenceBuilt == <<"release", head>> \in out.evidence.files

(* What the build has read so far is HEAD's.                                *)
DistributionOK ==
    /\ work.release = head
    /\ pack.at = "collect" => EvidencePhase /\ SourceBuilt /\ "release" \in pack.todo
    /\ pack.at = "hash" =>
         \/ SourcePhase
         \/ /\ EvidencePhase /\ SourceBuilt
            /\ "release" \in pack.todo \/ <<"release", head>> \in pack.sums.files
    /\ pack.at = "write" =>
         \/ SourcePhase /\ \A r \in pack.zip.files : r[2] = head
         \/ /\ EvidencePhase /\ SourceBuilt /\ pack.sums.files # {}
            /\ "release" \in pack.todo \/ <<"release", head>> \in pack.zip.files
    /\ pack.at = "verify" =>
         \/ SourcePhase /\ SourceBuilt
         \/ EvidencePhase /\ SourceBuilt /\ EvidenceBuilt /\ pack.sums.files # {}
    /\ pack.at = "bundle" => SourceBuilt /\ EvidenceBuilt
    /\ pack.at \in {"provenance", "conclude"} => OfOneCommit(out.bundle)

PackagingInv ==
    /\ PackagingTypes
    /\ edits = 0 => \A f \in Sources : work[f] = head
    /\ pack.cmd = "source" => SourcePhase
    /\ pack.at \in {"bundle", "provenance", "conclude"} => pack.cmd = "distribution"
    /\ pack.at \in {"provenance", "conclude"} => out.bundle.commit = pack.commit
    /\ pack.at = "conclude" =>
         out.provenance = [files |-> {out.bundle}, release |-> out.provenance.release,
                            verified |-> FALSE, returned |-> FALSE]
    /\ Steady => DistributionOK
    /\ DistributionIsOneCommit

LEMMA NoPackIsAtRest == NoPack \in PackStates /\ NoPack.at = "idle" /\ NoPack.cmd = "none"
  <1>1. None \in [files : SUBSET Readings]
    BY DEF None
  <1> QED BY <1>1 DEF NoPack, PackStates

LEMMA PackagingInitInv == PackagingInit => PackagingInv
  <1> SUFFICES ASSUME PackagingInit PROVE PackagingInv
    OBVIOUS
  <1>1. PackagingTypes
    BY NoPackIsAtRest DEF PackagingInit, PackagingTypes, WorkFiles
  <1>2. DistributionIsOneCommit
    BY DEF PackagingInit, DistributionIsOneCommit
  <1>3. \A f \in Sources : work[f] = head
    BY DEF PackagingInit
  <1>4. pack.cmd = "none" /\ pack.at = "idle"
    BY NoPackIsAtRest DEF PackagingInit
  <1> QED BY <1>1, <1>2, <1>3, <1>4 DEF PackagingInv, Steady

(* The command ends; what it leaves in the output directory is no           *)
(* distribution's.                                                          *)
LEMMA PackEnds ==
  ASSUME PackagingInv, pack' = NoPack, UNCHANGED <<work, head, edits>>,
         DOMAIN out' = DOMAIN out, out'.provenance = out.provenance
  PROVE  PackagingInv'
  <1>1. pack'.cmd = "none" /\ pack'.at = "idle" /\ pack' \in PackStates
    BY NoPackIsAtRest
  <1>2. PackagingTypes' /\ DistributionIsOneCommit'
    BY <1>1 DEF PackagingInv, PackagingTypes, DistributionIsOneCommit
  <1>3. edits' = 0 => \A f \in Sources : work'[f] = head'
    BY DEF PackagingInv
  <1> QED BY <1>1, <1>2, <1>3 DEF PackagingInv, Steady

(* A step within the build: what is left to show.                           *)
LEMMA PackGoesOn ==
  ASSUME PackagingInv, UNCHANGED <<work, head, edits>>, pack' \in PackStates,
         pack'.cmd = pack.cmd, pack'.commit = pack.commit, pack'.returned = pack.returned,
         DOMAIN out' = DOMAIN out, out'.provenance = out.provenance,
         pack'.at \in {"bundle", "provenance", "conclude"} => pack'.cmd = "distribution",
         pack'.at = "provenance" => out'.bundle.commit = pack.commit,
         pack'.at # "conclude", pack.cmd = "source" /\ SourcePhase => SourcePhase',
         Steady /\ DistributionOK => DistributionOK'
  PROVE  PackagingInv'
  <1>1. PackagingTypes' /\ DistributionIsOneCommit'
    BY DEF PackagingInv, PackagingTypes, DistributionIsOneCommit
  <1>2. edits' = 0 => \A f \in Sources : work'[f] = head'
    BY DEF PackagingInv
  <1>3. Steady' => DistributionOK'
    BY DEF PackagingInv, Steady
  <1>5. pack'.cmd = "source" => SourcePhase'
    BY DEF PackagingInv
  <1> QED BY <1>1, <1>2, <1>3, <1>5 DEF PackagingInv

LEMMA StartPackageInv ==
  ASSUME PackagingInv, NEW cmd \in {"source", "evidence", "distribution"}, StartPackage(cmd)
  PROVE  PackagingInv'
  <1>1. PackagingTypes /\ UNCHANGED <<work, head, out, edits>> /\ (cmd = "distribution" => ReleaseBound)
    BY DEF PackagingInv, StartPackage
  <1>2. pack' = [NoPack EXCEPT !.cmd = cmd, !.commit = head,
                   !.at = IF cmd = "evidence" THEN "collect" ELSE "hash",
                   !.todo = IF cmd = "evidence" THEN Evidence ELSE Sources]
    BY DEF StartPackage
  <1>3. /\ pack' \in PackStates /\ pack'.cmd = cmd /\ pack'.commit = head
        /\ pack'.at = (IF cmd = "evidence" THEN "collect" ELSE "hash")
        /\ pack'.todo = (IF cmd = "evidence" THEN Evidence ELSE Sources)
        /\ pack'.sums.files = {}
    <2>1. NoPack \in PackStates /\ NoPack.sums.files = {}
      BY NoPackIsAtRest DEF NoPack, None
    <2>2. head \in Nat /\ Evidence \in SUBSET WorkFiles /\ Sources \in SUBSET WorkFiles
      BY <1>1 DEF PackagingTypes, WorkFiles
    <2> QED BY <1>2, <2>1, <2>2 DEF PackStates
  <1>4. PackagingTypes' /\ DistributionIsOneCommit'
    BY <1>1, <1>3 DEF PackagingInv, PackagingTypes, DistributionIsOneCommit
  <1>5. Steady' => DistributionOK'
    <2> SUFFICES ASSUME Steady' PROVE DistributionOK'
      OBVIOUS
    <2>1. cmd = "distribution" /\ work'.release = head' /\ pack'.at = "hash"
      BY <1>1, <1>3 DEF Steady, ReleaseBound
    <2>2. SourcePhase'
      BY <1>3, <2>1 DEF SourcePhase
    <2> QED BY <2>1, <2>2 DEF DistributionOK
  <1>6. edits' = 0 => \A f \in Sources : work'[f] = head'
    BY <1>1 DEF PackagingInv
  <1>7. pack'.cmd = "source" => SourcePhase'
    BY <1>3 DEF SourcePhase
  <1> QED BY <1>3, <1>4, <1>5, <1>6, <1>7 DEF PackagingInv

LEMMA CollectFilesInv == ASSUME PackagingInv, CollectFiles PROVE PackagingInv'
  <1>1. UNCHANGED <<work, head, out, edits>> /\ pack \in PackStates /\ pack.at = "collect"
    BY DEF CollectFiles, PackagingInv, PackagingTypes
  <1>2. CASE pack' = NoPack
    BY <1>1, <1>2, PackEnds
  <1>3. CASE pack' = [pack EXCEPT !.at = "hash"]
    <2>1. /\ pack' \in PackStates /\ pack'.cmd = pack.cmd /\ pack'.commit = pack.commit /\ pack'.returned = pack.returned /\ pack'.at = "hash"
          /\ pack'.todo = pack.todo /\ pack'.sums = pack.sums
      BY <1>1, <1>3 DEF PackStates
    <2>2. ASSUME DistributionOK PROVE DistributionOK'
      BY <1>1, <2>1, <2>2 DEF DistributionOK, EvidencePhase, SourceBuilt
    <2>3. ASSUME SourcePhase PROVE SourcePhase'
      BY <2>1, <2>3 DEF SourcePhase
    <2> QED BY <1>1, <2>1, <2>2, <2>3, PackGoesOn
  <1> QED BY <1>2, <1>3 DEF CollectFiles

LEMMA DigestFileInv == ASSUME PackagingInv, DigestFile PROVE PackagingInv'
  <1>1. PackagingTypes /\ UNCHANGED <<work, head, out, edits>> /\ pack \in PackStates /\ pack.at = "hash"
    BY DEF DigestFile, PackagingInv, PackagingTypes
  <1>2. PICK f \in pack.todo :
          pack' = [pack EXCEPT !.todo = @ \ {f}, !.sums.files = @ \cup {<<f, work[f]>>}]
    BY DEF DigestFile
  <1>3. f \in WorkFiles /\ work[f] \in Nat /\ <<f, work[f]>> \in Readings /\ pack.sums \in [files : SUBSET Readings]
        /\ pack.todo \in SUBSET WorkFiles
    BY <1>1, <1>2 DEF PackStates, PackagingTypes, Readings
  <1>4. /\ pack'.cmd = pack.cmd /\ pack'.commit = pack.commit /\ pack'.returned = pack.returned /\ pack'.at = "hash"
        /\ pack'.todo = pack.todo \ {f} /\ pack'.sums.files = pack.sums.files \cup {<<f, work[f]>>}
        /\ pack' \in PackStates
    BY <1>1, <1>2, <1>3 DEF PackStates
  <1>6. <<f, work[f]>>[1] = f
    OBVIOUS
  <1>7. ASSUME SourcePhase PROVE SourcePhase'
    BY <1>2, <1>4, <1>6, <1>7 DEF SourcePhase
  <1>5. ASSUME Steady, DistributionOK PROVE DistributionOK'
    <2>2. CASE SourcePhase
      <3>1. SourcePhase'
        BY <1>7, <2>2
      <3> QED BY <1>1, <1>4, <1>5, <3>1 DEF DistributionOK
    <2>3. CASE EvidencePhase /\ SourceBuilt /\ ("release" \in pack.todo \/ <<"release", head>> \in pack.sums.files)
      <3>1. EvidencePhase'
        BY <1>2, <1>4, <1>6, <2>3 DEF EvidencePhase
      <3>2. SourceBuilt'
        BY <1>1, <2>3 DEF SourceBuilt
      <3>3. "release" \in pack'.todo \/ <<"release", head'>> \in pack'.sums.files
        <4>1. work["release"] = head
          BY <1>5 DEF DistributionOK
        <4>2. f = "release" => <<"release", head>> \in pack'.sums.files
          BY <1>4, <4>1
        <4> QED BY <1>1, <1>4, <2>3, <4>2
      <3> QED BY <1>1, <1>4, <1>5, <3>1, <3>2, <3>3 DEF DistributionOK
    <2> QED BY <1>1, <1>5, <2>2, <2>3 DEF DistributionOK
  <1> QED BY <1>1, <1>4, <1>5, <1>7, PackGoesOn

(* Which archive the build is at.                                           *)
LEMMA RoleOfPhase ==
  /\ Role \in {"source", "evidence"}
  /\ SourcePhase => Role = "source"
  /\ EvidencePhase /\ pack.sums.files # {} => Role = "evidence"
  BY PackagingAssumption DEF Role, SourcePhase, EvidencePhase

LEMMA BeginArchiveInv == ASSUME PackagingInv, BeginArchive PROVE PackagingInv'
  <1>1. /\ PackagingTypes /\ UNCHANGED <<work, head, edits>> /\ pack \in PackStates /\ pack.at = "hash"
        /\ pack.todo = {} /\ out' = [out EXCEPT ![Role] = None]
        /\ pack' = [pack EXCEPT !.at = "write", !.zip = None, !.named = head, !.todo = {r[1] : r \in pack.sums.files}]
    BY DEF BeginArchive, PackagingInv, PackagingTypes
  <1>2. /\ {r[1] : r \in pack.sums.files} \in SUBSET WorkFiles /\ None \in [files : SUBSET Readings]
        /\ head \in Nat
    BY <1>1 DEF PackStates, Readings, None, PackagingTypes
  <1>3. /\ pack'.cmd = pack.cmd /\ pack'.commit = pack.commit /\ pack'.returned = pack.returned /\ pack'.at = "write" /\ pack'.sums = pack.sums
        /\ pack'.zip.files = {} /\ pack'.todo = {r[1] : r \in pack.sums.files} /\ pack' \in PackStates
    <2>1. None.files = {}
      BY DEF None
    <2> QED BY <1>1, <1>2, <2>1 DEF PackStates
  <1>4. DOMAIN out' = DOMAIN out /\ out'.provenance = out.provenance
        /\ (Role = "evidence" => out'.source = out.source)
    BY <1>1, RoleOfPhase DEF PackagingTypes
  <1>6. ASSUME SourcePhase PROVE SourcePhase'
    BY <1>3, <1>6 DEF SourcePhase
  <1>5. ASSUME Steady, DistributionOK PROVE DistributionOK'
    <2>1. CASE SourcePhase
      <3>1. SourcePhase' /\ \A r \in pack'.zip.files : r[2] = head'
        BY <1>3, <1>6, <2>1
      <3> QED BY <1>1, <1>3, <1>5, <3>1 DEF DistributionOK
    <2>2. CASE EvidencePhase /\ SourceBuilt /\ <<"release", head>> \in pack.sums.files
      <3>1. EvidencePhase'
        BY <1>3, <2>2 DEF EvidencePhase
      <3>2. Role = "evidence"
        BY <2>2, RoleOfPhase
      <3>3. SourceBuilt'
        BY <1>1, <1>4, <2>2, <3>2 DEF SourceBuilt
      <3>4. "release" \in pack'.todo /\ pack'.sums.files # {}
        <4>1. <<"release", head>>[1] = "release"
          OBVIOUS
        <4> QED BY <1>3, <2>2, <4>1
      <3> QED BY <1>1, <1>3, <1>5, <3>1, <3>3, <3>4 DEF DistributionOK
    <2> QED BY <1>1, <1>5, <2>1, <2>2 DEF DistributionOK
  <1> QED BY <1>1, <1>3, <1>4, <1>5, <1>6, PackGoesOn

LEMMA PackFileInv == ASSUME PackagingInv, PackFile PROVE PackagingInv'
  <1>1. PackagingTypes /\ UNCHANGED <<work, head, out, edits>> /\ pack \in PackStates /\ pack.at = "write"
    BY DEF PackFile, PackagingInv, PackagingTypes
  <1>2. PICK f \in pack.todo :
          pack' = [pack EXCEPT !.todo = @ \ {f}, !.zip.files = @ \cup {<<f, work[f]>>}]
    BY DEF PackFile
  <1>3. f \in WorkFiles /\ work[f] \in Nat /\ <<f, work[f]>> \in Readings /\ pack.zip \in [files : SUBSET Readings]
        /\ pack.todo \in SUBSET WorkFiles
    BY <1>1, <1>2 DEF PackStates, PackagingTypes, Readings
  <1>4. /\ pack'.cmd = pack.cmd /\ pack'.commit = pack.commit /\ pack'.returned = pack.returned /\ pack'.at = "write" /\ pack'.sums = pack.sums
        /\ pack'.todo = pack.todo \ {f} /\ pack'.zip.files = pack.zip.files \cup {<<f, work[f]>>}
        /\ pack' \in PackStates
    BY <1>1, <1>2, <1>3 DEF PackStates
  <1>6. ASSUME SourcePhase PROVE SourcePhase'
    BY <1>4, <1>6 DEF SourcePhase
  <1>5. ASSUME Steady, DistributionOK PROVE DistributionOK'
    <2>1. CASE SourcePhase /\ \A r \in pack.zip.files : r[2] = head
      <3>1. SourcePhase'
        BY <1>6, <2>1
      <3>2. work[f] = head
        BY <1>2, <1>5, <2>1 DEF SourcePhase, PackagingInv, Steady
      <3>3. <<f, work[f]>>[2] = head
        BY <3>2
      <3>4. \A r \in pack'.zip.files : r[2] = head'
        BY <1>1, <1>4, <2>1, <3>3
      <3> QED BY <1>1, <1>4, <1>5, <3>1, <3>4 DEF DistributionOK
    <2>2. CASE /\ EvidencePhase /\ SourceBuilt /\ pack.sums.files # {}
               /\ "release" \in pack.todo \/ <<"release", head>> \in pack.zip.files
      <3>1. EvidencePhase'
        BY <1>4, <2>2 DEF EvidencePhase
      <3>2. SourceBuilt'
        BY <1>1, <2>2 DEF SourceBuilt
      <3>3. "release" \in pack'.todo \/ <<"release", head'>> \in pack'.zip.files
        <4>1. work["release"] = head
          BY <1>5 DEF DistributionOK
        <4>2. f = "release" => <<"release", head>> \in pack'.zip.files
          BY <1>4, <4>1
        <4> QED BY <1>1, <1>4, <2>2, <4>2
      <3> QED BY <1>1, <1>4, <1>5, <2>2, <3>1, <3>2, <3>3 DEF DistributionOK
    <2> QED BY <1>1, <1>5, <2>1, <2>2 DEF DistributionOK
  <1> QED BY <1>1, <1>4, <1>5, <1>6, PackGoesOn

LEMMA CloseArchiveInv == ASSUME PackagingInv, CloseArchive PROVE PackagingInv'
  <1> DEFINE a == Archive(pack.sums.files, pack.zip.files, pack.named)
  <1>1. /\ PackagingTypes /\ UNCHANGED <<work, head, edits>> /\ pack \in PackStates /\ pack.at = "write"
        /\ pack.todo = {} /\ out' = [out EXCEPT ![Role] = a] /\ pack' = [pack EXCEPT !.at = "verify"]
    BY DEF CloseArchive, PackagingInv, PackagingTypes
  <1>2. a.files = pack.zip.files
    BY DEF Archive
  <1> HIDE DEF a
  <1>3. /\ pack'.cmd = pack.cmd /\ pack'.commit = pack.commit /\ pack'.returned = pack.returned /\ pack'.at = "verify" /\ pack'.sums = pack.sums
        /\ pack'.todo = pack.todo /\ pack' \in PackStates
    BY <1>1 DEF PackStates
  <1>4. /\ DOMAIN out' = DOMAIN out /\ out'.provenance = out.provenance
        /\ Role = "source" => out'.source = a
        /\ Role = "evidence" => out'.source = out.source /\ out'.evidence = a
    BY <1>1, RoleOfPhase DEF PackagingTypes
  <1>6. ASSUME SourcePhase PROVE SourcePhase'
    BY <1>3, <1>6 DEF SourcePhase
  <1>5. ASSUME Steady, DistributionOK PROVE DistributionOK'
    <2>1. CASE SourcePhase /\ \A r \in pack.zip.files : r[2] = head
      <3>1. SourcePhase'
        BY <1>6, <2>1
      <3>2. SourceBuilt'
        BY <1>1, <1>2, <1>4, <2>1, RoleOfPhase DEF SourceBuilt
      <3> QED BY <1>1, <1>3, <1>5, <3>1, <3>2 DEF DistributionOK
    <2>2. CASE /\ EvidencePhase /\ SourceBuilt /\ pack.sums.files # {}
               /\ <<"release", head>> \in pack.zip.files
      <3>1. EvidencePhase'
        BY <1>3, <2>2 DEF EvidencePhase
      <3>2. out'.source = out.source /\ out'.evidence = a
        BY <1>4, <2>2, RoleOfPhase
      <3>3. SourceBuilt' /\ EvidenceBuilt'
        BY <1>1, <1>2, <2>2, <3>2 DEF SourceBuilt, EvidenceBuilt
      <3> QED BY <1>1, <1>3, <1>5, <2>2, <3>1, <3>3 DEF DistributionOK
    <2> QED BY <1>1, <1>5, <2>1, <2>2 DEF DistributionOK
  <1> QED BY <1>1, <1>3, <1>4, <1>5, <1>6, PackGoesOn

LEMMA VerifyBuiltInv == ASSUME PackagingInv, VerifyBuilt PROVE PackagingInv'
  <1> DEFINE ok == IF Role = "source" THEN ArchiveVerified(out.source) ELSE EvidenceVerified(out.evidence)
             collecting == [pack EXCEPT !.at = "collect", !.todo = Evidence, !.sums = None]
             bundling == [pack EXCEPT !.at = "bundle"]
  <1>1. PackagingTypes /\ UNCHANGED <<work, head, edits>> /\ pack \in PackStates /\ pack.at = "verify"
    BY DEF VerifyBuilt, PackagingInv, PackagingTypes
  <1>2. /\ pack' = CASE ~ok \/ pack.cmd # "distribution" -> NoPack
                     [] ok /\ pack.cmd = "distribution" /\ Role = "source" -> collecting
                     [] OTHER -> bundling
        /\ out' = IF ok /\ pack.cmd = "source" THEN [out EXCEPT !.sums = out.source] ELSE out
    BY DEF VerifyBuilt
  <1>3. DOMAIN out' = DOMAIN out /\ out'.provenance = out.provenance /\ (pack.cmd = "distribution" => out' = out)
    BY <1>1, <1>2 DEF PackagingTypes
  <1>4. CASE pack' = NoPack
    BY <1>1, <1>3, <1>4, PackEnds
  <1>5. CASE pack.cmd = "distribution" /\ Role = "source" /\ pack' = collecting
    <2>1. None \in [files : SUBSET Readings] /\ None.files = {} /\ Evidence \in SUBSET WorkFiles
      BY DEF None, WorkFiles
    <2>2. /\ pack' \in PackStates /\ pack'.cmd = pack.cmd /\ pack'.commit = pack.commit /\ pack'.returned = pack.returned /\ pack'.at = "collect"
          /\ pack'.todo = Evidence /\ pack'.sums.files = {}
      BY <1>1, <1>5, <2>1 DEF PackStates
    <2>3. ASSUME Steady, DistributionOK PROVE DistributionOK'
      <3>1. SourceBuilt'
        BY <1>1, <1>3, <1>5, <2>3 DEF DistributionOK, SourceBuilt
      <3>2. EvidencePhase' /\ "release" \in pack'.todo
        BY <2>2 DEF EvidencePhase, Evidence
      <3> QED BY <1>1, <2>2, <2>3, <3>1, <3>2 DEF DistributionOK
    <2> QED BY <1>1, <1>3, <1>5, <2>2, <2>3, PackGoesOn
  <1>6. CASE pack.cmd = "distribution" /\ Role # "source" /\ pack' = bundling
    <2>1. /\ pack' \in PackStates /\ pack'.cmd = pack.cmd /\ pack'.commit = pack.commit /\ pack'.returned = pack.returned /\ pack'.at = "bundle"
      BY <1>1, <1>6 DEF PackStates
    <2>2. ASSUME Steady, DistributionOK PROVE DistributionOK'
      <3>1. SourceBuilt /\ EvidenceBuilt
        BY <1>1, <1>6, <2>2, RoleOfPhase DEF DistributionOK
      <3>2. SourceBuilt' /\ EvidenceBuilt'
        BY <1>1, <1>3, <1>6, <3>1 DEF SourceBuilt, EvidenceBuilt
      <3> QED BY <1>1, <2>1, <2>2, <3>2 DEF DistributionOK
    <2> QED BY <1>1, <1>3, <1>6, <2>1, <2>2, PackGoesOn
  <1> HIDE DEF ok, collecting, bundling
  <1>7. pack' = NoPack \/ (pack.cmd = "distribution" /\ Role = "source" /\ pack' = collecting)
        \/ (pack.cmd = "distribution" /\ Role # "source" /\ pack' = bundling)
    BY <1>2
  <1> QED BY <1>4, <1>5, <1>6, <1>7

LEMMA BuildBundleInv == ASSUME PackagingInv, BuildBundle PROVE PackagingInv'
  <1> DEFINE b == [files |-> {out.source, out.evidence}, source |-> out.source,
                   evidence |-> out.evidence, commit |-> pack.commit]
  <1>1. PackagingTypes /\ UNCHANGED <<work, head, edits>> /\ pack \in PackStates /\ pack.at = "bundle"
    BY DEF BuildBundle, PackagingInv, PackagingTypes
  <1>2. CASE pack' = NoPack /\ out' = out
    BY <1>1, <1>2, PackEnds
  <1>3. CASE out' = [out EXCEPT !.bundle = b] /\ pack' = [pack EXCEPT !.at = "provenance"]
    <2>1. b.source = out.source /\ b.evidence = out.evidence /\ b.commit = pack.commit
      OBVIOUS
    <2> HIDE DEF b
    <2>2. DOMAIN out' = DOMAIN out /\ out'.provenance = out.provenance /\ out'.bundle = b
      BY <1>1, <1>3 DEF PackagingTypes
    <2>3. pack' \in PackStates /\ pack'.cmd = pack.cmd /\ pack'.commit = pack.commit /\ pack'.returned = pack.returned /\ pack'.at = "provenance"
      BY <1>1, <1>3 DEF PackStates
    <2>4. pack.cmd = "distribution"
      BY <1>1 DEF PackagingInv
    <2>5. ASSUME Steady, DistributionOK PROVE DistributionOK'
      <3>1. OfOneCommit(b)
        BY <1>1, <2>1, <2>5 DEF DistributionOK, Steady, OfOneCommit, SourceBuilt, EvidenceBuilt
      <3> QED BY <1>1, <2>2, <2>3, <2>5, <3>1 DEF DistributionOK
    <2> QED BY <1>1, <2>1, <2>2, <2>3, <2>4, <2>5, PackGoesOn
  <1> QED BY <1>2, <1>3 DEF BuildBundle

LEMMA BuildProvenanceInv == ASSUME PackagingInv, BuildProvenance PROVE PackagingInv'
  <1> DEFINE p == [files |-> {out.bundle}, release |-> work.release, verified |-> FALSE, returned |-> FALSE]
  <1>1. /\ PackagingTypes /\ UNCHANGED <<work, head, edits>> /\ pack \in PackStates /\ pack.at = "provenance"
        /\ out' = [out EXCEPT !.provenance = p] /\ pack' = [pack EXCEPT !.at = "conclude"]
    BY DEF BuildProvenance, PackagingInv, PackagingTypes
  <1>2. pack' \in PackStates /\ pack'.cmd = pack.cmd /\ pack'.commit = pack.commit /\ pack'.at = "conclude"
        /\ pack'.returned = pack.returned
    BY <1>1 DEF PackStates
  <1>3. DOMAIN out' = DOMAIN out /\ out'.provenance = p /\ out'.bundle = out.bundle
    BY <1>1 DEF PackagingTypes
  <1>4. ~out'.provenance.verified
        /\ out'.provenance = [files |-> {out'.bundle}, release |-> out'.provenance.release,
                               verified |-> FALSE, returned |-> FALSE]
    BY <1>3
  <1> HIDE DEF p
  <1>5. PackagingTypes'
    BY <1>1, <1>2, <1>3 DEF PackagingTypes
  <1>6. DistributionIsOneCommit'
    BY <1>4 DEF DistributionIsOneCommit
  <1>7. Steady' => DistributionOK'
    BY <1>1, <1>2, <1>3 DEF PackagingInv, Steady, DistributionOK
  <1>8. /\ pack'.cmd = "distribution" /\ out'.bundle.commit = pack'.commit
        /\ edits' = 0 => \A f \in Sources : work'[f] = head'
    BY <1>1, <1>2, <1>3 DEF PackagingInv
  <1> QED BY <1>2, <1>4, <1>5, <1>6, <1>7, <1>8 DEF PackagingInv

LEMMA VerifyProvenanceInv == ASSUME PackagingInv, VerifyProvenance PROVE PackagingInv'
  <1> DEFINE v == /\ out.provenance.release = work.release
                  /\ out.provenance.files = {out.bundle}
                  /\ out.bundle.commit = head
  <1>1. /\ PackagingTypes /\ UNCHANGED <<work, head, edits>> /\ pack.at = "conclude"
        /\ out' = [out EXCEPT !.provenance.returned = pack.returned, !.provenance.verified = v]
        /\ pack' = NoPack
    BY DEF VerifyProvenance, PackagingInv
  <1>2. out.provenance = [files |-> {out.bundle}, release |-> out.provenance.release,
                          verified |-> FALSE, returned |-> FALSE]
    BY <1>1 DEF PackagingInv
  <1>3. /\ DOMAIN out' = DOMAIN out /\ out'.provenance.files = {out.bundle}
        /\ out'.provenance.verified = v /\ out'.provenance.returned = pack.returned
    <2> DEFINE old == out.provenance
               back == pack.returned
               bundles == {out.bundle}
               new == out'.provenance
    <2>0. old = [files |-> bundles, release |-> old.release, verified |-> FALSE, returned |-> FALSE]
      BY <1>2
    <2> HIDE DEF v
    <2>1. DOMAIN out' = DOMAIN out /\ new = [old EXCEPT !.returned = back, !.verified = v]
      BY <1>1 DEF PackagingTypes
    <2> HIDE DEF old, back, bundles, new
    <2>2. PICK r : old = [files |-> bundles, release |-> r, verified |-> FALSE, returned |-> FALSE]
      BY <2>0
    <2>3. new = [files |-> bundles, release |-> r, verified |-> v, returned |-> back]
      BY <2>1, <2>2
    <2>4. new.files = bundles /\ new.verified = v /\ new.returned = back
      BY <2>3
    <2> QED BY <2>1, <2>4 DEF old, back, bundles, new
  <1>4. ASSUME edits = 0, out.bundle.commit = head, ~pack.returned PROVE OfOneCommit(out.bundle)
    <2>1. Steady
      BY <1>1, <1>4 DEF PackagingInv, Steady
    <2> QED BY <1>1, <2>1 DEF PackagingInv, DistributionOK
  <1>5. DistributionIsOneCommit'
    <2> SUFFICES ASSUME edits = 0, out'.provenance.verified, ~out'.provenance.returned,
                        NEW b \in out'.provenance.files PROVE OfOneCommit(b)
      BY <1>1 DEF DistributionIsOneCommit, OfOneCommit
    <2> QED BY <1>3, <1>4
  <1> HIDE DEF v
  <1>6. pack'.cmd = "none" /\ pack'.at = "idle" /\ pack' \in PackStates
    BY <1>1, NoPackIsAtRest
  <1>7. PackagingTypes'
    BY <1>1, <1>3, <1>6 DEF PackagingTypes
  <1>8. edits' = 0 => \A f \in Sources : work'[f] = head'
    BY <1>1 DEF PackagingInv
  <1> QED BY <1>5, <1>6, <1>7, <1>8 DEF PackagingInv, Steady

(* A checkout: the build that goes on is no longer steady, whether HEAD     *)
(* leaves its commit or comes back to it.                                   *)
LEMMA CheckoutInv == ASSUME PackagingInv, Checkout PROVE PackagingInv'
  <1>1. PackagingTypes /\ UNCHANGED <<out, edits>>
    BY DEF PackagingInv, Checkout
  <1>2. PICK c \in 1..MaxCommit :
          /\ head' = c /\ work' = [f \in DOMAIN work |-> IF f \in Sources THEN c ELSE work[f]]
          /\ pack' = [pack EXCEPT !.returned = @ \/ c = pack.commit]
    BY DEF Checkout
  <1>3. /\ pack' \in PackStates /\ pack'.cmd = pack.cmd /\ pack'.at = pack.at /\ pack'.todo = pack.todo
        /\ pack'.sums = pack.sums /\ pack'.commit = pack.commit
        /\ pack'.returned = (pack.returned \/ c = pack.commit)
    <2> DEFINE back == pack.returned \/ c = pack.commit
    <2>1. pack \in PackStates /\ pack.returned \in BOOLEAN /\ back \in BOOLEAN
      BY <1>1 DEF PackagingTypes, PackStates
    <2>2. pack' = [pack EXCEPT !.returned = back]
      BY <1>2
    <2> HIDE DEF back
    <2>3. /\ pack' \in PackStates /\ pack'.cmd = pack.cmd /\ pack'.at = pack.at /\ pack'.todo = pack.todo
          /\ pack'.sums = pack.sums /\ pack'.commit = pack.commit /\ pack'.returned = back
      BY <2>1, <2>2 DEF PackStates
    <2> QED BY <2>3 DEF back
  <1>4. PackagingTypes' /\ \A f \in Sources : work'[f] = head'
    BY <1>1, <1>2, <1>3 DEF PackagingTypes, WorkFiles
  <1>5. ~Steady'
    BY <1>2, <1>3 DEF Steady
  <1>6. DistributionIsOneCommit'
    BY <1>1 DEF PackagingInv, DistributionIsOneCommit, OfOneCommit
  <1>7. pack'.cmd = "source" => SourcePhase'
    BY <1>3 DEF PackagingInv, SourcePhase
  <1> QED BY <1>1, <1>3, <1>4, <1>5, <1>6, <1>7 DEF PackagingInv

LEMMA TreeChangesInv == ASSUME PackagingInv, Regenerate \/ EditFile PROVE PackagingInv'
  <1>1. PackagingTypes /\ UNCHANGED <<out, pack>>
    BY DEF PackagingInv, Regenerate, EditFile
  <1>5. pack'.cmd = "source" => SourcePhase'
    BY <1>1 DEF PackagingInv, SourcePhase
  <1>3. CASE Regenerate
    <2>1. /\ head' = head /\ edits' = edits
          /\ work' = [work EXCEPT !.release = head, !.provenance =
                        IF \A f \in Sources : work[f] = head THEN head ELSE Edited]
      BY <1>3 DEF Regenerate
    <2>2. work' \in [WorkFiles -> Nat] /\ work'["release"] = head /\ \A f \in Sources : work'[f] = work[f]
      BY <1>1, <2>1, PackagingAssumption DEF PackagingTypes, WorkFiles, Evidence, Edited
    <2>3. PackagingTypes' /\ DistributionIsOneCommit'
      BY <1>1, <2>1, <2>2 DEF PackagingInv, PackagingTypes, DistributionIsOneCommit
    <2>4. Steady' => DistributionOK'
      BY <1>1, <2>1, <2>2 DEF PackagingInv, Steady, DistributionOK, SourcePhase, EvidencePhase, SourceBuilt, EvidenceBuilt
    <2> QED BY <1>1, <1>5, <2>1, <2>2, <2>3, <2>4 DEF PackagingInv
  <1>4. CASE EditFile
    <2>1. head' = head /\ edits' = edits + 1 /\ edits \in Nat
      BY <1>1, <1>4 DEF EditFile, PackagingTypes
    <2>2. work' \in [WorkFiles -> Nat]
      BY <1>1, <1>4 DEF EditFile, PackagingTypes, WorkFiles, Edited, Missing
    <2>3. edits' # 0 /\ edits' \in Nat
      BY <2>1
    <2>4. PackagingTypes' /\ DistributionIsOneCommit'
      BY <1>1, <2>1, <2>2, <2>3 DEF PackagingTypes, DistributionIsOneCommit
    <2> QED BY <1>1, <1>5, <2>1, <2>3, <2>4 DEF PackagingInv, Steady
  <1> QED BY <1>3, <1>4

(* package_distribution.py, package_release.py and extract_source_package.py:*)
(* for any sources and any number of commits, checkouts, builds and         *)
(* extractions, a distribution whose provenance verified is of one commit   *)
(* unless HEAD left that commit and came back during the build, a published *)
(* checksum is of an archive that agrees with its manifest, and a tree      *)
(* extracted as verified is a whole package.                                *)
THEOREM PackagesStayCoherent == PackagingSpec => []PackagesAreCoherent
  <1> DEFINE Coherent == PackagingInv /\ ChecksumIsOfVerified /\ VerifiedTreeIsWhole
  <1>1. PackagingInit => Coherent
    BY PackagingInitInv DEF PackagingInit, ChecksumIsOfVerified, VerifiedTreeIsWhole
  <1>2. Coherent /\ [PackagingNext]_packageVars => Coherent'
    <2> SUFFICES ASSUME Coherent, [PackagingNext]_packageVars PROVE Coherent'
      OBVIOUS
    <2> DEFINE Building == \/ \E cmd \in {"source", "evidence", "distribution"} : StartPackage(cmd)
                           \/ CollectFiles \/ DigestFile \/ BeginArchive \/ PackFile \/ ArchiveRaises
                           \/ CloseArchive \/ VerifyBuilt \/ BuildBundle \/ BuildProvenance
                           \/ VerifyProvenance \/ PackageDies
               Extracting == \/ StartExtract \/ OpenPackage \/ ExtractMember \/ PublishTree \/ ExtractFails
    <2>1. ASSUME ArchiveRaises PROVE PackagingInv'
      <3>1. /\ out' = [out EXCEPT ![Role] = Archive({}, pack.zip.files, 0)] /\ pack' = NoPack
            /\ UNCHANGED <<work, head, edits>> /\ PackagingTypes
        BY <2>1 DEF ArchiveRaises, PackagingInv
      <3>2. DOMAIN out' = DOMAIN out /\ out'.provenance = out.provenance
        BY <3>1, RoleOfPhase DEF PackagingTypes
      <3> QED BY <3>1, <3>2, PackEnds
    <2>2. ASSUME PackageDies PROVE PackagingInv'
      BY <2>2, PackEnds DEF PackageDies
    <2>3. ASSUME UNCHANGED <<work, head, out, pack, edits>> PROVE PackagingInv'
      BY <2>3 DEF PackagingInv, PackagingTypes, Steady, DistributionOK, SourcePhase, EvidencePhase,
                  SourceBuilt, EvidenceBuilt, DistributionIsOneCommit
    <2>4. PackagingInv'
      <3>1. CASE Building
        BY <2>1, <2>2, <3>1, StartPackageInv, CollectFilesInv, DigestFileInv, BeginArchiveInv, PackFileInv,
           CloseArchiveInv, VerifyBuiltInv, BuildBundleInv, BuildProvenanceInv, VerifyProvenanceInv
      <3>2. CASE Extracting
        BY <2>3, <3>2 DEF StartExtract, OpenPackage, ExtractMember, PublishTree, ExtractFails
      <3>3. CASE Checkout \/ Regenerate \/ EditFile
        BY <3>3, CheckoutInv, TreeChangesInv
      <3>4. CASE UNCHANGED packageVars
        BY <2>3, <3>4 DEF packageVars
      <3> QED BY <3>1, <3>2, <3>3, <3>4 DEF PackagingNext
    <2>5. out'.sums = out.sums \/ (out'.sums = out.source /\ ArchiveVerified(out.source))
      <3>1. PackagingTypes
        BY DEF PackagingInv
      <3>2. CASE BeginArchive \/ ArchiveRaises \/ CloseArchive
        <4>1. \E a : out' = [out EXCEPT ![Role] = a]
          BY <3>2 DEF BeginArchive, ArchiveRaises, CloseArchive
        <4> QED BY <3>1, <4>1, RoleOfPhase DEF PackagingTypes
      <3>3. CASE VerifyBuilt
        <4>1. CASE out' = out
          BY <4>1
        <4>2. CASE /\ IF Role = "source" THEN ArchiveVerified(out.source) ELSE EvidenceVerified(out.evidence)
                   /\ pack.cmd = "source" /\ out' = [out EXCEPT !.sums = out.source]
          <5>1. Role = "source"
            BY <3>1, <4>2, RoleOfPhase DEF PackagingInv
          <5> QED BY <3>1, <4>2, <5>1 DEF PackagingTypes
        <4> QED BY <3>3, <4>1, <4>2 DEF VerifyBuilt
      <3>4. CASE BuildBundle \/ BuildProvenance \/ VerifyProvenance
        BY <3>1, <3>4 DEF BuildBundle, BuildProvenance, VerifyProvenance, PackagingTypes
      <3>5. CASE out' = out
        BY <3>5
      <3> QED BY <3>2, <3>3, <3>4, <3>5 DEF PackagingNext, packageVars, StartPackage, CollectFiles, DigestFile,
                 PackFile, PackageDies, StartExtract, OpenPackage, ExtractMember, PublishTree, ExtractFails,
                 Checkout, Regenerate, EditFile
    <2>6. ChecksumIsOfVerified'
      BY <2>5 DEF ChecksumIsOfVerified, ArchiveVerified
    <2>7. VerifiedTreeIsWhole'
      <3>1. CASE dest' = dest
        BY <3>1 DEF VerifiedTreeIsWhole
      <3>2. CASE PublishTree
        BY <3>2 DEF PublishTree, VerifiedTreeIsWhole, IdentityVerified
      <3> QED BY <3>1, <3>2 DEF PackagingNext, packageVars, StartPackage, CollectFiles, DigestFile, BeginArchive,
                 PackFile, ArchiveRaises, CloseArchive, VerifyBuilt, BuildBundle, BuildProvenance, VerifyProvenance,
                 PackageDies, StartExtract, OpenPackage, ExtractMember, ExtractFails, Checkout, Regenerate, EditFile
    <2> QED BY <2>4, <2>6, <2>7
  <1>3. Coherent => PackagesAreCoherent
    BY DEF PackagingInv, PackagesAreCoherent
  <1> HIDE DEF Coherent
  <1> QED BY <1>1, <1>2, <1>3, PTL DEF PackagingSpec
-----------------------------------------------------------------------------
(* The TESTNET scenario.                                                    *)

LEMMA Division ==
  ASSUME NEW a \in Nat, NEW m \in Nat \ {0}
  PROVE  /\ a \div m \in Nat /\ (a \div m) * m \in Nat
         /\ (a \div m) * m <= a /\ a < (a \div m) * m + m
  OBVIOUS

LEMMA Multiple ==
  ASSUME NEW k \in Nat, NEW m \in Nat \ {0}
  PROVE  (k * m) % m = 0
  OBVIOUS

LEMMA ProductGrows ==
  ASSUME NEW a \in Nat, NEW b \in Nat, NEW c \in Nat \ {0}
  PROVE  a * c \in Nat /\ (a <= b => a * c <= b * c) /\ (a * c < b * c => a < b)
  OBVIOUS

LEMMA ProductsCommute ==
  ASSUME NEW a \in Nat, NEW b \in Nat, NEW c \in Nat
  PROVE  (a * b) * c = a * (c * b) /\ c * b \in Nat
  OBVIOUS

(* _step_quantize, both ways.                                               *)
LEMMA SteppedDown ==
  ASSUME NEW n \in Nat, NEW d \in Nat \ {0}, NEW step \in Nat \ {0}
  PROVE  /\ StepDown(n, d, step) \in Nat /\ StepDown(n, d, step) % step = 0
         /\ StepDown(n, d, step) * d <= n
  <1> DEFINE k == n \div (d * step)
  <1>1. d * step \in Nat \ {0}
    OBVIOUS
  <1>2. k \in Nat /\ k * (d * step) <= n
    BY <1>1, Division
  <1>3. StepDown(n, d, step) = k * step
    BY DEF StepDown
  <1> HIDE DEF k
  <1>4. (k * step) % step = 0 /\ k * step \in Nat
    BY <1>2, Multiple
  <1>5. (k * step) * d = k * (d * step)
    BY <1>2, ProductsCommute
  <1> QED BY <1>2, <1>3, <1>4, <1>5

LEMMA SteppedUp ==
  ASSUME NEW n \in Nat, NEW d \in Nat \ {0}, NEW step \in Nat \ {0}
  PROVE  /\ StepUp(n, d, step) \in Nat /\ StepUp(n, d, step) % step = 0
         /\ StepUp(n, d, step) * d >= n
  <1> DEFINE m == d * step
             a == n + d * step - 1
             k == a \div m
  <1>1. m \in Nat \ {0} /\ a \in Nat /\ a = n + m - 1
    OBVIOUS
  <1>2. StepUp(n, d, step) = k * step
    BY DEF StepUp
  <1> HIDE DEF a
  <1>3. k \in Nat /\ a < k * m + m /\ k * m \in Nat
    <2> HIDE DEF m
    <2> QED BY <1>1, Division
  <1> HIDE DEF k
  <1>4. (k * step) % step = 0 /\ k * step \in Nat
    BY <1>3, Multiple
  <1>5. (k * step) * d = k * m
    BY <1>3, ProductsCommute
  <1> HIDE DEF m
  <1>6. k * m >= n
    BY <1>1, <1>3
  <1> QED BY <1>2, <1>4, <1>5, <1>6

LEMMA LeastOfTwo ==
  ASSUME NEW a \in Int, NEW b \in Int
  PROVE  Min({a, b}) \in {a, b} /\ Min({a, b}) <= a /\ Min({a, b}) <= b
  <1>1. \E x \in {a, b} : \A y \in {a, b} : x <= y
    OBVIOUS
  <1> QED BY <1>1 DEF Min

LEMMA GreatestOfTwo ==
  ASSUME NEW a \in Int, NEW b \in Int
  PROVE  Max({a, b}) \in {a, b} /\ Max({a, b}) >= a /\ Max({a, b}) >= b
  <1>1. \E x \in {a, b} : \A y \in {a, b} : x >= y
    OBVIOUS
  <1> QED BY <1>1 DEF Max

(* Within the exchange's filters and a cap of the operator.                 *)
Fits(f, cap, qty, price) ==
    /\ qty * price <= cap /\ (f.maxNotional > 0 => qty * price <= f.maxNotional)
    /\ qty * price >= f.minNotional
    /\ f.minQty <= qty /\ qty <= f.maxQty /\ qty % f.step = 0

(* _bounded_quantity_for_price returns a quantity within every filter, or   *)
(* raises.  The code's "minimum_quantity < min_qty" never holds there: the  *)
(* quantity that was too small to meet the notional was min_qty already.    *)
LEMMA BoundedFits ==
  ASSUME NEW f \in Filters, NEW price \in Nat \ {0}, NEW cap \in Nat, NEW u \in Nat,
         NEW qty, qty = BoundedQuantity(f, price, cap, u), qty # 0
  PROVE  qty \in Nat /\ qty * price \in Nat /\ Fits(f, cap, qty, price)
  <1> DEFINE c == EffectiveNotionalCap(f, cap)
             budget == c * u
             target == Max({f.minNotional * 110, price * f.minQty * 100})
             down == StepDown(budget, 100 * price, f.step)
             most == StepDown(f.maxQty, 1, f.step)
             q == Min({down, most})
             up == StepUp(f.minNotional, price, f.step)
             least == Max({up, f.minQty})
  <1>1. /\ f.step \in Nat \ {0} /\ f.minQty \in Nat /\ f.maxQty \in Nat
        /\ f.minNotional \in Nat /\ f.maxNotional \in Nat
    BY DEF Filters
  <1>2. c \in Nat /\ c <= cap /\ (f.maxNotional > 0 => c <= f.maxNotional)
    <2>1. /\ f.maxNotional > 0 => c = Min({cap, f.maxNotional})
          /\ ~(f.maxNotional > 0) => c = cap
      BY DEF EffectiveNotionalCap
    <2>2. Min({cap, f.maxNotional}) \in {cap, f.maxNotional} /\ Min({cap, f.maxNotional}) <= cap
          /\ Min({cap, f.maxNotional}) <= f.maxNotional
      <3>1. cap \in Int /\ f.maxNotional \in Int
        BY <1>1
      <3> QED BY <3>1, LeastOfTwo
    <2> HIDE DEF c
    <2> QED BY <1>1, <2>1, <2>2
  <1>3. qty = IF target > budget \/ q < f.minQty THEN 0
              ELSE IF q * price >= f.minNotional THEN IF q * price > c THEN 0 ELSE q
              ELSE IF least > f.maxQty \/ least * price > c THEN 0 ELSE least
    BY DEF BoundedQuantity
  <1>4. down \in Nat /\ down % f.step = 0
    <2>1. budget \in Nat /\ 100 * price \in Nat \ {0}
      BY <1>2
    <2> QED BY <1>1, <2>1, SteppedDown
  <1>5. most \in Nat /\ most % f.step = 0 /\ most <= f.maxQty
    <2>1. most \in Nat /\ most % f.step = 0 /\ most * 1 <= f.maxQty
      <3>1. f.maxQty \in Nat /\ 1 \in Nat \ {0} /\ f.step \in Nat \ {0}
        BY <1>1
      <3> QED BY <3>1, SteppedDown
    <2> HIDE DEF most
    <2> QED BY <2>1
  <1>6. up \in Nat /\ up % f.step = 0 /\ up * price >= f.minNotional
    BY <1>1, SteppedUp
  <1> HIDE DEF c, budget, target, down, most, up
  <1>7. q \in Nat /\ q % f.step = 0 /\ q <= f.maxQty
    <2>1. q \in {down, most} /\ q <= most
      <3>1. down \in Int /\ most \in Int
        BY <1>4, <1>5
      <3> QED BY <3>1, LeastOfTwo
    <2> HIDE DEF q
    <2> QED BY <1>1, <1>4, <1>5, <2>1
  <1>8. least \in {up, f.minQty} /\ least \in Nat /\ least >= f.minQty /\ least >= up
    <2>1. up \in Int /\ f.minQty \in Int
      BY <1>1, <1>6
    <2>2. least \in {up, f.minQty} /\ least >= f.minQty /\ least >= up
      BY <2>1, GreatestOfTwo
    <2> HIDE DEF least
    <2> QED BY <1>1, <1>6, <2>2
  <1> HIDE DEF q, least
  <1>9. CASE qty = q /\ q >= f.minQty /\ q * price >= f.minNotional /\ q * price <= c
    <2>1. q * price \in Nat
      BY <1>7, ProductGrows
    <2> QED BY <1>1, <1>2, <1>7, <1>9, <2>1 DEF Fits
  <1>10. CASE /\ qty = least /\ q >= f.minQty /\ q * price < f.minNotional
              /\ least <= f.maxQty /\ least * price <= c
    <2>1. q < up
      <3>1. q * price \in Nat /\ up * price \in Nat
        BY <1>6, <1>7, ProductGrows
      <3>2. q * price < up * price
        BY <1>1, <1>6, <1>10, <3>1
      <3> QED BY <1>6, <1>7, <3>2, ProductGrows
    <2>2. least = up
      BY <1>1, <1>6, <1>7, <1>8, <1>10, <2>1
    <2>3. least * price \in Nat
      BY <1>8, ProductGrows
    <2> QED BY <1>1, <1>2, <1>6, <1>8, <1>10, <2>2, <2>3 DEF Fits
  <1>11. q * price \in Nat /\ least * price \in Nat
    BY <1>7, <1>8, ProductGrows
  <1> QED BY <1>1, <1>2, <1>3, <1>7, <1>8, <1>9, <1>10, <1>11

(* The spendable cap, and the price of the resting order.                   *)
LEMMA SpendableIsBounded ==
  ASSUME NEW f \in Filters
  PROVE  SpendableCap(f) \in Nat /\ SpendableCap(f) <= MaxNotional /\ SpendableCap(f) * 100 <= f.free * 90
  <1> DEFINE x == (f.free * 90) \div 100
  <1>1. f.free \in Nat /\ MaxNotional \in Nat
    BY ScenarioAssumption DEF Filters
  <1>2. x \in Nat /\ x * 100 <= f.free * 90
    BY <1>1
  <1>3. SpendableCap(f) = IF f.free > 0 THEN Min({MaxNotional, x}) ELSE 0
    BY DEF SpendableCap
  <1> HIDE DEF x
  <1>4. Min({MaxNotional, x}) \in {MaxNotional, x} /\ Min({MaxNotional, x}) <= MaxNotional /\ Min({MaxNotional, x}) <= x
    <2>1. MaxNotional \in Int /\ x \in Int
      BY <1>1, <1>2
    <2> QED BY <2>1, LeastOfTwo
  <1> QED BY <1>1, <1>2, <1>3, <1>4

LEMMA LimitPriceIsPositive ==
  ASSUME NEW t \in Nat \ {0} PROVE LimitPrice(t) \in Nat \ {0}
  <1>1. LimitPrice(t) = ((t * 150 + 100 * 1 - 1) \div (100 * 1)) * 1
    BY DEF LimitPrice, StepUp
  <1> QED BY <1>1

ScenFields == {"at", "mode", "s", "cap", "ticker", "qty", "probe", "limitOk", "seen"}
Orders == [qty : Nat, price : Nat, filled : Nat, state : {"NONE", "OPEN", "FILLED", "CANCELLED"}]

(* A sell that was sent fits, and is open only while something is left.     *)
Sent(order, f) ==
    order # NoOrder =>
        /\ order \in Orders /\ f \in Filters
        /\ Fits(f, SpendableCap(f), order.qty, order.price)
        /\ order.state = "OPEN" => order.filled < order.qty

(* A probe of the size _bounded_quantity_for_price gives at its price.      *)
Sized(probe, f) ==
    /\ {"price", "qty"} \subseteq DOMAIN probe
    /\ probe.price \in Nat \ {0} /\ probe.qty # 0
    /\ probe.qty = BoundedQuantity(f, probe.price, SpendableCap(f), 85)

(* What was last seen of the probe has since grown at most.                 *)
SeenOK ==
    /\ scen.seen \in Orders /\ placed.probe \in Orders
    /\ scen.seen.qty = placed.probe.qty /\ scen.seen.filled <= placed.probe.filled
    /\ \A order \in {scen.seen, placed.probe} :
          /\ order.state \in {"OPEN", "FILLED"}
          /\ order.state = "FILLED" => order.filled = order.qty

Sizing == {"size", "preflight"}
Selling == {"buy", "limit", "cancel", "recheck", "probe"}
Waiting == {"poll", "settle"}

(* The candidate and the cap are kept, and the probe has its size, from the *)
(* preflight or, when it was chosen automatically, from the start.          *)
ChoiceOK ==
    /\ scen.at \in Sizing \cup Selling \cup Waiting => scen.s \in DOMAIN Listed /\ scen.cap = SpendableCap(Listed[scen.s])
    /\ scen.at \in Sizing /\ scen.mode = "explicit" => scen.probe.price \in PartialPrices
    /\ scen.at \in Sizing => scen.mode \in {"auto", "autoprice", "explicit", "none"}
    /\ scen.at \in Selling \/ (scen.at \in Sizing /\ scen.mode = "auto") => Sized(scen.probe, Listed[scen.s])
    /\ scen.at \in {"preflight", "buy", "limit"} => scen.ticker \in Tickers

(* How far the scenario is says what lies at the exchange.                  *)
ProgressOK ==
    /\ scen.at \in {"start", "buy", "limit"} \cup Sizing => placed.limit = NoOrder
    /\ scen.at \in {"start"} \cup Sizing \cup Selling => placed.probe = NoOrder
    /\ scen.at \in {"recheck", "probe"} \cup Waiting => placed.limit.state = "CANCELLED"
    /\ scen.at \in {"limit", "cancel", "recheck", "probe"} \cup Waiting => placed.market.filled >= scen.qty
    /\ scen.at \in Waiting => SeenOK

ScenarioInv ==
    /\ DOMAIN scen = ScenFields
    /\ scen.at \in {"start", "passed", "failed", "raised"} \cup Sizing \cup Selling \cup Waiting
    /\ DOMAIN placed = {"market", "limit", "probe"} /\ placed.market.state # "OPEN"
    /\ Sent(placed.limit, Listed[scen.s]) /\ Sent(placed.probe, Listed[scen.s])
    /\ quotes.book \in Books /\ quotes.ticker \in Tickers
    /\ ChoiceOK /\ ProgressOK /\ NothingLeftOpen /\ PassIsEarned

LEMMA ScenarioInitInv == ScenarioInit => ScenarioInv
  <1> SUFFICES ASSUME ScenarioInit PROVE ScenarioInv
    OBVIOUS
  <1>1. DOMAIN scen = ScenFields /\ scen.at = "start"
    BY DEF ScenarioInit, NoScenario, ScenFields
  <1>2. /\ DOMAIN placed = {"market", "limit", "probe"} /\ placed.market = NoOrder
        /\ placed.limit = NoOrder /\ placed.probe = NoOrder /\ NoOrder.state = "NONE"
    BY DEF ScenarioInit, NoOrder
  <1>3. quotes.book \in Books /\ quotes.ticker \in Tickers
    BY DEF ScenarioInit
  <1>4. ChoiceOK /\ ProgressOK
    BY <1>1, <1>2 DEF ChoiceOK, ProgressOK, Sizing, Selling, Waiting
  <1>5. NothingLeftOpen /\ PassIsEarned
    BY <1>1 DEF NothingLeftOpen, PassIsEarned
  <1> QED BY <1>1, <1>2, <1>3, <1>4, <1>5 DEF ScenarioInv, Sent

(* Wherever the scenario raises, the orders stay as they are.               *)
LEMMA RaisedInv ==
  ASSUME ScenarioInv, scen' = Raised, UNCHANGED quotes,
         DOMAIN placed' = DOMAIN placed, placed'.market = placed.market,
         Sent(placed'.limit, Listed[scen.s]), Sent(placed'.probe, Listed[scen.s])
  PROVE  ScenarioInv'
  <1>1. DOMAIN scen' = ScenFields /\ scen'.at = "raised" /\ scen'.s = scen.s
    BY DEF ScenarioInv, Raised, ScenFields
  <1>2. ChoiceOK' /\ ProgressOK' /\ NothingLeftOpen' /\ PassIsEarned'
    BY <1>1 DEF ChoiceOK, ProgressOK, NothingLeftOpen, PassIsEarned, Sizing, Selling, Waiting
  <1> QED BY <1>1, <1>2 DEF ScenarioInv

LEMMA AutoProbeIsSized ==
  ASSUME NEW f, NEW book \in Books, NEW acquired,
         AutoProbe(f, SpendableCap(f), book, acquired) # NoProbe
  PROVE  Sized(AutoProbe(f, SpendableCap(f), book, acquired), f)
  <1> DEFINE price == book[1][1]
             qty == BoundedQuantity(f, price, SpendableCap(f), 85)
             executable == ExecutableBids(book, price)
             probe == [price |-> price, qty |-> qty, executable |-> executable]
  <1>1. book # <<>> /\ qty # 0 /\ AutoProbe(f, SpendableCap(f), book, acquired) = probe
    BY DEF AutoProbe
  <1>2. book \in Seq((Nat \ {0}) \X Nat)
    BY ScenarioAssumption
  <1>3. price \in Nat \ {0}
    <2>1. book[1] \in (Nat \ {0}) \X Nat
      BY <1>1, <1>2
    <2> QED BY <2>1
  <1>4. probe.price = price /\ probe.qty = qty /\ {"price", "qty"} \subseteq DOMAIN probe
    OBVIOUS
  <1> HIDE DEF price, executable, probe
  <1> QED BY <1>1, <1>3, <1>4 DEF Sized

LEMMA ListedFilters == \A s \in DOMAIN Listed : Listed[s] \in Filters
  BY ScenarioAssumption

(* A step before anything is sent.                                          *)
LEMMA NothingSent ==
  ASSUME ScenarioInv, scen.at \in {"start"} \cup Sizing, UNCHANGED <<placed, quotes>>,
         DOMAIN scen' = ScenFields, scen'.at \in Sizing \cup {"buy", "failed"}, ChoiceOK'
  PROVE  ScenarioInv'
  <1>1. placed'.limit = NoOrder /\ placed'.probe = NoOrder /\ NoOrder.state # "OPEN"
    BY DEF ScenarioInv, ProgressOK, NoOrder
  <1>2. ProgressOK' /\ PassIsEarned'
    BY <1>1 DEF ProgressOK, PassIsEarned, Sizing, Waiting, Selling
  <1>3. NothingLeftOpen'
    BY <1>1 DEF NothingLeftOpen, ScenarioInv
  <1>4. Sent(placed'.limit, Listed[scen'.s]) /\ Sent(placed'.probe, Listed[scen'.s])
    BY <1>1 DEF Sent
  <1> QED BY <1>2, <1>3, <1>4 DEF ScenarioInv, Sizing, Selling

LEMMA SelectAutoTargetInv == ASSUME ScenarioInv, SelectAutoTarget PROVE ScenarioInv'
  <1>1. scen.at = "start" /\ UNCHANGED <<placed, quotes>> /\ quotes.book \in Books
        /\ Sent(placed.limit, Listed[scen.s]) /\ Sent(placed.probe, Listed[scen.s])
    BY DEF SelectAutoTarget, ScenarioInv
  <1>2. CASE scen' = Raised
    BY <1>1, <1>2, RaisedInv
  <1>3. ASSUME NEW s \in AutoTargets,
               scen' = [NoScenario EXCEPT !.at = "size", !.mode = "auto", !.s = s,
                          !.cap = SpendableCap(Listed[s]),
                          !.probe = AutoProbe(Listed[s], SpendableCap(Listed[s]), quotes.book, Unlimited)]
        PROVE  ScenarioInv'
    <2> DEFINE probe == AutoProbe(Listed[s], SpendableCap(Listed[s]), quotes.book, Unlimited)
    <2>1. s \in DOMAIN Listed /\ probe # NoProbe
      BY DEF AutoTargets
    <2>2. Sized(probe, Listed[s])
      BY <1>1, <2>1, AutoProbeIsSized
    <2> HIDE DEF probe
    <2>3. /\ DOMAIN scen' = ScenFields /\ scen'.at = "size" /\ scen'.mode = "auto" /\ scen'.s = s
          /\ scen'.cap = SpendableCap(Listed[s]) /\ scen'.probe = probe
      BY <1>3 DEF NoScenario, ScenFields, probe
    <2>4. ChoiceOK'
      BY <2>1, <2>2, <2>3 DEF ChoiceOK, Sizing, Selling, Waiting
    <2> QED BY <1>1, <2>3, <2>4, NothingSent DEF Sizing
  <1> QED BY <1>2, <1>3 DEF SelectAutoTarget

LEMMA ExplicitSymbolInv == ASSUME ScenarioInv, ExplicitSymbol PROVE ScenarioInv'
  <1>1. scen.at = "start" /\ UNCHANGED <<placed, quotes>>
        /\ Sent(placed.limit, Listed[scen.s]) /\ Sent(placed.probe, Listed[scen.s])
    BY DEF ExplicitSymbol, ScenarioInv
  <1>2. PICK s \in DOMAIN Listed, price \in PartialPrices \cup {0, -1} :
         scen' = IF SpendableCap(Listed[s]) = 0 THEN Raised
                 ELSE [NoScenario EXCEPT !.at = "size", !.s = s,
                         !.mode = CASE price = -1 -> "autoprice"
                                    [] price = 0 -> "none"
                                    [] OTHER -> "explicit",
                         !.cap = SpendableCap(Listed[s]),
                         !.probe = [NoProbe EXCEPT !.price = price]]
    BY DEF ExplicitSymbol
  <1>3. CASE scen' = Raised
    BY <1>1, <1>3, RaisedInv
  <1>4. CASE scen' # Raised
    <2> DEFINE mode == CASE price = -1 -> "autoprice" [] price = 0 -> "none" [] OTHER -> "explicit"
               probe == [NoProbe EXCEPT !.price = price]
    <2>1. mode \in {"autoprice", "none", "explicit"} /\ (mode = "explicit" => price \in PartialPrices)
      BY <1>2
    <2>2. probe.price = price
      BY DEF NoProbe
    <2>3. scen' = [NoScenario EXCEPT !.at = "size", !.s = s, !.mode = mode,
                     !.cap = SpendableCap(Listed[s]), !.probe = probe]
      BY <1>2, <1>4
    <2> HIDE DEF mode, probe
    <2>4. /\ DOMAIN scen' = ScenFields /\ scen'.at = "size" /\ scen'.mode = mode /\ scen'.s = s
          /\ scen'.cap = SpendableCap(Listed[s]) /\ scen'.probe = probe
      BY <2>3 DEF NoScenario, ScenFields
    <2>5. ChoiceOK'
      BY <1>2, <2>1, <2>2, <2>4 DEF ChoiceOK, Sizing, Selling, Waiting
    <2> QED BY <1>1, <2>4, <2>5, NothingSent DEF Sizing
  <1> QED BY <1>3, <1>4

LEMMA SizeAcquisitionInv == ASSUME ScenarioInv, SizeAcquisition PROVE ScenarioInv'
  <1>1. scen.at = "size" /\ UNCHANGED <<placed, quotes>> /\ quotes.ticker \in Tickers /\ DOMAIN scen = ScenFields
        /\ Sent(placed.limit, Listed[scen.s]) /\ Sent(placed.probe, Listed[scen.s])
    BY DEF SizeAcquisition, ScenarioInv
  <1>2. CASE scen' = Raised
    BY <1>1, <1>2, RaisedInv
  <1>3. ASSUME NEW q, scen' = [scen EXCEPT !.at = "preflight", !.qty = q, !.ticker = quotes.ticker]
        PROVE  ScenarioInv'
    <2>1. /\ DOMAIN scen' = ScenFields /\ scen'.at = "preflight" /\ scen'.mode = scen.mode /\ scen'.s = scen.s
          /\ scen'.cap = scen.cap /\ scen'.probe = scen.probe /\ scen'.ticker = quotes.ticker
      BY <1>1, <1>3 DEF ScenFields
    <2>2. ChoiceOK'
      BY <1>1, <2>1 DEF ChoiceOK, Sizing, Selling, Waiting, ScenarioInv
    <2> QED BY <1>1, <2>1, <2>2, NothingSent DEF Sizing
  <1> QED BY <1>2, <1>3 DEF SizeAcquisition

LEMMA ProbePreflightInv == ASSUME ScenarioInv, ProbePreflight PROVE ScenarioInv'
  <1> DEFINE f == Listed[scen.s]
             qty == BoundedQuantity(f, scen.probe.price, scen.cap, 85)
             executable == ExecutableBids(quotes.book, scen.probe.price)
             asked == [price |-> scen.probe.price, qty |-> qty, executable |-> executable]
             probe == CASE scen.mode = "auto" -> scen.probe
                        [] scen.mode = "autoprice" -> AutoProbe(f, scen.cap, quotes.book, scen.qty)
                        [] OTHER -> IF qty = 0 \/ executable <= 0 \/ executable >= qty THEN NoProbe ELSE asked
  <1>1. scen.at = "preflight" /\ UNCHANGED <<placed, quotes>> /\ DOMAIN scen = ScenFields /\ quotes.book \in Books
        /\ Sent(placed.limit, Listed[scen.s]) /\ Sent(placed.probe, Listed[scen.s])
    BY DEF ProbePreflight, ScenarioInv
  <1>2. scen' = IF scen.mode = "none" THEN [scen EXCEPT !.at = "failed"]
                ELSE IF probe = NoProbe \/ probe.qty > scen.qty THEN Raised
                ELSE [scen EXCEPT !.at = "buy", !.probe = probe]
    BY DEF ProbePreflight
  <1>3. /\ scen.s \in DOMAIN Listed /\ scen.cap = SpendableCap(f)
        /\ scen.mode \in {"auto", "autoprice", "explicit", "none"} /\ scen.ticker \in Tickers
        /\ scen.mode = "explicit" => scen.probe.price \in Nat \ {0}
        /\ scen.mode = "auto" => Sized(scen.probe, f)
    BY <1>1, ScenarioAssumption DEF ScenarioInv, ChoiceOK, Sizing
  <1>4. ASSUME scen.mode # "none", probe # NoProbe PROVE Sized(probe, f)
    <2>1. CASE scen.mode = "auto"
      BY <1>3, <2>1
    <2>2. CASE scen.mode = "autoprice"
      BY <1>1, <1>3, <1>4, <2>2, AutoProbeIsSized
    <2>3. CASE scen.mode = "explicit"
      <3>1. qty # 0 /\ probe = asked
        BY <1>4, <2>3
      <3>2. asked.price = scen.probe.price /\ asked.qty = qty /\ {"price", "qty"} \subseteq DOMAIN asked
        OBVIOUS
      <3> HIDE DEF asked, probe
      <3> QED BY <1>3, <2>3, <3>1, <3>2 DEF Sized
    <2> QED BY <1>3, <1>4, <2>1, <2>2, <2>3
  <1> HIDE DEF probe
  <1>5. CASE scen' = Raised
    BY <1>1, <1>5, RaisedInv
  <1>6. CASE scen' = [scen EXCEPT !.at = "failed"]
    <2>1. DOMAIN scen' = ScenFields /\ scen'.at = "failed"
      BY <1>1, <1>6 DEF ScenFields
    <2>2. ChoiceOK'
      BY <2>1 DEF ChoiceOK, Sizing, Selling, Waiting
    <2> QED BY <1>1, <2>1, <2>2, NothingSent DEF Sizing
  <1>7. CASE scen.mode # "none" /\ probe # NoProbe /\ scen' = [scen EXCEPT !.at = "buy", !.probe = probe]
    <2>1. /\ DOMAIN scen' = ScenFields /\ scen'.at = "buy" /\ scen'.s = scen.s /\ scen'.cap = scen.cap
          /\ scen'.probe = probe /\ scen'.ticker = scen.ticker
      BY <1>1, <1>7 DEF ScenFields
    <2>2. ChoiceOK'
      BY <1>3, <1>4, <1>7, <2>1 DEF ChoiceOK, Sizing, Selling, Waiting
    <2> QED BY <1>1, <2>1, <2>2, NothingSent DEF Sizing
  <1> QED BY <1>2, <1>5, <1>6, <1>7

LEMMA MarketBuyInv == ASSUME ScenarioInv, MarketBuy PROVE ScenarioInv'
  <1>1. scen.at = "buy" /\ UNCHANGED quotes /\ DOMAIN scen = ScenFields
        /\ DOMAIN placed = {"market", "limit", "probe"}
        /\ placed.limit = NoOrder /\ placed.probe = NoOrder /\ NoOrder.state # "OPEN"
    BY DEF MarketBuy, ScenarioInv, ProgressOK, Selling, NoOrder
  <1>2. PICK n \in 0..scen.qty :
         /\ placed' = [placed EXCEPT !.market =
                         [qty |-> scen.qty, price |-> 0, filled |-> n,
                          state |-> IF n = scen.qty THEN "FILLED" ELSE "CANCELLED"]]
         /\ scen' = [scen EXCEPT !.at = IF n >= scen.qty THEN "limit" ELSE "failed"]
    BY DEF MarketBuy
  <1>3. /\ DOMAIN placed' = DOMAIN placed /\ placed'.limit = placed.limit /\ placed'.probe = placed.probe
        /\ placed'.market.filled = n /\ placed'.market.state # "OPEN"
    BY <1>1, <1>2
  <1>4. /\ DOMAIN scen' = ScenFields /\ scen'.at = IF n >= scen.qty THEN "limit" ELSE "failed"
        /\ scen'.s = scen.s /\ scen'.cap = scen.cap /\ scen'.probe = scen.probe
        /\ scen'.ticker = scen.ticker /\ scen'.qty = scen.qty
    BY <1>1, <1>2 DEF ScenFields
  <1>5. ChoiceOK'
    BY <1>1, <1>4 DEF ChoiceOK, ScenarioInv, Sizing, Selling, Waiting
  <1>6. ProgressOK' /\ PassIsEarned'
    BY <1>1, <1>3, <1>4 DEF ProgressOK, PassIsEarned, Sizing, Selling, Waiting
  <1>7. NothingLeftOpen'
    BY <1>1, <1>3 DEF NothingLeftOpen
  <1> QED BY <1>1, <1>3, <1>4, <1>5, <1>6, <1>7 DEF ScenarioInv, Sent, Selling

(* What SellOrder computes fits, and so does what the exchange fills of it. *)
LEMMA SellOrderFits ==
  ASSUME ScenarioInv, NEW o \in {"limit", "probe"}, scen.at = o, SellOrder(o).qty # 0
  PROVE  /\ Sent(SellOrder(o), Listed[scen.s]) /\ SellOrder(o) \in Orders
         /\ SellOrder(o).state = "OPEN" /\ SellOrder(o).filled = 0
  <1> DEFINE f == Listed[scen.s]
             q == SellOrder(o).qty
             p == SellOrder(o).price
  <1>1. scen.s \in DOMAIN Listed /\ scen.cap = SpendableCap(f)
    BY DEF ScenarioInv, ChoiceOK, Selling
  <1>2. f \in Filters
    BY <1>1, ListedFilters
  <1>3. p \in Nat \ {0} /\ q = BoundedQuantity(f, p, SpendableCap(f), 85)
    <2>1. CASE o = "limit"
      <3>1. scen.ticker \in Nat \ {0}
        BY <2>1, ScenarioAssumption DEF ScenarioInv, ChoiceOK
      <3>2. p = LimitPrice(scen.ticker) /\ q = BoundedQuantity(f, p, scen.cap, 85)
        BY <2>1 DEF SellOrder
      <3> HIDE DEF p, q
      <3> QED BY <1>1, <3>1, <3>2, LimitPriceIsPositive
    <2>2. CASE o = "probe"
      <3>1. Sized(scen.probe, f)
        BY <2>2 DEF ScenarioInv, ChoiceOK, Selling
      <3>2. p = scen.probe.price /\ q = scen.probe.qty
        BY <2>2 DEF SellOrder
      <3> HIDE DEF p, q
      <3> QED BY <3>1, <3>2 DEF Sized
    <2> QED BY <2>1, <2>2
  <1>4. SellOrder(o) = [qty |-> q, price |-> p, filled |-> 0, state |-> "OPEN"] /\ q # 0
    BY DEF SellOrder
  <1>5. SpendableCap(f) \in Nat
    BY <1>2, SpendableIsBounded
  <1> HIDE DEF f, p, q
  <1>6. q \in Nat /\ Fits(f, SpendableCap(f), q, p)
    BY <1>2, <1>3, <1>4, <1>5, BoundedFits
  <1> QED BY <1>2, <1>3, <1>4, <1>6 DEF Sent, Orders, f

LEMMA FillingFits ==
  ASSUME NEW order \in Orders, NEW f \in Filters, Fits(f, SpendableCap(f), order.qty, order.price),
         NEW n \in 0..order.qty
  PROVE  /\ Filling(order, n) \in Orders /\ Sent(Filling(order, n), f)
         /\ Filling(order, n).qty = order.qty /\ Filling(order, n).filled = n
         /\ Filling(order, n).state \in {"OPEN", "FILLED"}
         /\ Filling(order, n).state = "FILLED" => n = order.qty
  <1>1. /\ Filling(order, n).qty = order.qty /\ Filling(order, n).price = order.price
        /\ Filling(order, n).filled = n
        /\ Filling(order, n).state = IF n = order.qty THEN "FILLED" ELSE "OPEN"
    BY DEF Filling, Orders
  <1>2. order.qty \in Nat /\ n \in Nat
    BY DEF Orders
  <1>3. Filling(order, n) \in Orders
    <2>1. ASSUME NEW reached \in {"FILLED", "OPEN"}
          PROVE  [order EXCEPT !.filled = n, !.state = reached] \in Orders
      BY <1>2 DEF Orders
    <2> QED BY <2>1 DEF Filling
  <1> QED BY <1>1, <1>2, <1>3 DEF Sent

LEMMA LimitSellInv == ASSUME ScenarioInv, LimitSell PROVE ScenarioInv'
  <1> DEFINE order == SellOrder("limit")
  <1>1. /\ scen.at = "limit" /\ UNCHANGED quotes /\ DOMAIN scen = ScenFields
        /\ DOMAIN placed = {"market", "limit", "probe"} /\ placed.probe = NoOrder
        /\ Sent(placed.limit, Listed[scen.s]) /\ Sent(placed.probe, Listed[scen.s])
    BY DEF LimitSell, ScenarioInv, ProgressOK, Selling
  <1>2. CASE order.qty = 0
    <2>1. scen' = Raised /\ UNCHANGED placed
      BY <1>2 DEF LimitSell
    <2> QED BY <1>1, <2>1, RaisedInv
  <1>3. CASE order.qty # 0
    <2>1. PICK n \in 0..order.qty :
            /\ placed' = [placed EXCEPT !.limit = Filling(order, n)]
            /\ scen' = [scen EXCEPT !.at = "cancel", !.limitOk = n < order.qty]
      BY <1>3 DEF LimitSell
    <2>2. order \in Orders /\ Sent(order, Listed[scen.s]) /\ order # NoOrder
      BY <1>1, <1>3, SellOrderFits DEF NoOrder
    <2> HIDE DEF order
    <2>3. Sent(Filling(order, n), Listed[scen.s])
      BY <2>2, FillingFits DEF Sent
    <2>4. /\ DOMAIN placed' = DOMAIN placed /\ placed'.limit = Filling(order, n)
          /\ placed'.probe = placed.probe /\ placed'.market = placed.market
      BY <1>1, <2>1
    <2>5. /\ DOMAIN scen' = ScenFields /\ scen'.at = "cancel" /\ scen'.s = scen.s
          /\ scen'.cap = scen.cap /\ scen'.probe = scen.probe /\ scen'.qty = scen.qty
      BY <1>1, <2>1 DEF ScenFields
    <2>6. ChoiceOK'
      BY <1>1, <2>5 DEF ChoiceOK, ScenarioInv, Sizing, Selling, Waiting
    <2>7. ProgressOK'
      BY <1>1, <2>4, <2>5 DEF ProgressOK, ScenarioInv, Sizing, Selling, Waiting
    <2>8. NothingLeftOpen' /\ PassIsEarned'
      BY <2>5 DEF NothingLeftOpen, PassIsEarned
    <2> QED BY <1>1, <2>3, <2>4, <2>5, <2>6, <2>7, <2>8 DEF ScenarioInv, Selling
  <1> QED BY <1>2, <1>3

(* A cancelled order fits as it did when it was sent.                       *)
LEMMA CancelledFits ==
  ASSUME NEW order, NEW f, Sent(order, f), order.state = "OPEN",
         NEW done, done = [order EXCEPT !.state = "CANCELLED"]
  PROVE  /\ Sent(done, f) /\ done \in Orders /\ done.state = "CANCELLED"
         /\ done.qty = order.qty /\ done.filled = order.filled /\ order.filled < order.qty
  <1>1. order # NoOrder
    BY DEF NoOrder
  <1>2. /\ order \in Orders /\ f \in Filters /\ Fits(f, SpendableCap(f), order.qty, order.price)
        /\ order.filled < order.qty
    BY <1>1 DEF Sent
  <1>3. /\ done \in Orders /\ done.state = "CANCELLED" /\ done.qty = order.qty
        /\ done.price = order.price /\ done.filled = order.filled
    BY <1>2 DEF Orders
  <1> QED BY <1>2, <1>3 DEF Sent

LEMMA CancelLimitInv == ASSUME ScenarioInv, CancelLimit PROVE ScenarioInv'
  <1>1. /\ scen.at = "cancel" /\ UNCHANGED quotes /\ DOMAIN scen = ScenFields
        /\ DOMAIN placed = {"market", "limit", "probe"} /\ placed.probe = NoOrder
        /\ Sent(placed.limit, Listed[scen.s]) /\ Sent(placed.probe, Listed[scen.s])
    BY DEF CancelLimit, ScenarioInv, ProgressOK, Selling
  <1>2. CASE placed.limit.state # "OPEN"
    <2>1. scen' = Raised /\ UNCHANGED placed
      BY <1>2 DEF CancelLimit
    <2> QED BY <1>1, <2>1, RaisedInv
  <1>3. CASE placed.limit.state = "OPEN"
    <2> DEFINE done == [placed.limit EXCEPT !.state = "CANCELLED"]
    <2>1. placed' = [placed EXCEPT !.limit = done] /\ scen' = [scen EXCEPT !.at = "recheck"]
      BY <1>3 DEF CancelLimit
    <2>2. Sent(done, Listed[scen.s]) /\ done.state = "CANCELLED"
      BY <1>1, <1>3, CancelledFits
    <2> HIDE DEF done
    <2>3. /\ DOMAIN placed' = DOMAIN placed /\ placed'.limit = done
          /\ placed'.probe = placed.probe /\ placed'.market = placed.market
      BY <1>1, <2>1
    <2>4. /\ DOMAIN scen' = ScenFields /\ scen'.at = "recheck" /\ scen'.s = scen.s
          /\ scen'.cap = scen.cap /\ scen'.probe = scen.probe /\ scen'.qty = scen.qty
      BY <1>1, <2>1 DEF ScenFields
    <2>5. ChoiceOK'
      BY <1>1, <2>4 DEF ChoiceOK, ScenarioInv, Sizing, Selling, Waiting
    <2>6. ProgressOK'
      BY <1>1, <2>2, <2>3, <2>4 DEF ProgressOK, ScenarioInv, Sizing, Selling, Waiting
    <2>7. NothingLeftOpen' /\ PassIsEarned'
      BY <2>4 DEF NothingLeftOpen, PassIsEarned
    <2> QED BY <1>1, <2>2, <2>3, <2>4, <2>5, <2>6, <2>7 DEF ScenarioInv, Selling
  <1> QED BY <1>2, <1>3

LEMMA RecheckProbeInv == ASSUME ScenarioInv, RecheckProbe PROVE ScenarioInv'
  <1> DEFINE f == Listed[scen.s]
             executable == ExecutableBids(quotes.book, scen.probe.price)
             again == [scen.probe EXCEPT !.executable = executable]
             probe == IF scen.mode \in {"auto", "autoprice"}
                        THEN AutoProbe(f, scen.cap, quotes.book, placed.market.filled)
                      ELSE IF executable <= 0 \/ executable >= scen.probe.qty
                              \/ scen.probe.qty > placed.market.filled THEN NoProbe
                      ELSE again
  <1>1. /\ scen.at = "recheck" /\ UNCHANGED <<placed, quotes>> /\ DOMAIN scen = ScenFields
        /\ quotes.book \in Books /\ DOMAIN placed = {"market", "limit", "probe"}
        /\ placed.market.state # "OPEN" /\ placed.limit.state = "CANCELLED" /\ placed.probe = NoOrder
        /\ scen.cap = SpendableCap(f) /\ Sized(scen.probe, f)
    BY DEF RecheckProbe, ScenarioInv, ProgressOK, ChoiceOK, Selling
  <1>2. scen' = [scen EXCEPT !.at = IF probe = NoProbe THEN "failed" ELSE "probe", !.probe = probe]
    BY DEF RecheckProbe
  <1>3. ASSUME probe # NoProbe PROVE Sized(probe, f)
    <2>1. CASE scen.mode \in {"auto", "autoprice"}
      BY <1>1, <1>3, <2>1, AutoProbeIsSized
    <2>2. CASE scen.mode \notin {"auto", "autoprice"}
      <3>1. probe = again
        BY <1>3, <2>2
      <3>2. again.price = scen.probe.price /\ again.qty = scen.probe.qty /\ DOMAIN again = DOMAIN scen.probe
        BY <1>1 DEF Sized
      <3> HIDE DEF again, probe
      <3> QED BY <1>1, <3>1, <3>2 DEF Sized
    <2> QED BY <2>1, <2>2
  <1> HIDE DEF probe
  <1>4. /\ DOMAIN scen' = ScenFields /\ scen'.at = (IF probe = NoProbe THEN "failed" ELSE "probe")
        /\ scen'.s = scen.s /\ scen'.cap = scen.cap /\ scen'.probe = probe /\ scen'.qty = scen.qty
    BY <1>1, <1>2 DEF ScenFields
  <1>5. ChoiceOK'
    BY <1>1, <1>3, <1>4 DEF ChoiceOK, ScenarioInv, Sizing, Selling, Waiting
  <1>6. ProgressOK' /\ PassIsEarned'
    BY <1>1, <1>4 DEF ProgressOK, PassIsEarned, ScenarioInv, Sizing, Selling, Waiting
  <1>7. NothingLeftOpen'
    BY <1>1 DEF NothingLeftOpen, NoOrder
  <1> QED BY <1>1, <1>4, <1>5, <1>6, <1>7 DEF ScenarioInv, Selling

LEMMA SubmitProbeInv == ASSUME ScenarioInv, SubmitProbe PROVE ScenarioInv'
  <1> DEFINE order == SellOrder("probe")
  <1>1. /\ scen.at = "probe" /\ UNCHANGED quotes /\ DOMAIN scen = ScenFields
        /\ DOMAIN placed = {"market", "limit", "probe"} /\ Sized(scen.probe, Listed[scen.s])
        /\ Sent(placed.limit, Listed[scen.s])
    BY DEF SubmitProbe, ScenarioInv, ChoiceOK, Selling
  <1>2. order.qty = scen.probe.qty /\ order.qty # 0
    BY <1>1 DEF SellOrder, Sized
  <1>3. PICK n \in 0..order.qty :
          /\ placed' = [placed EXCEPT !.probe = Filling(order, n)]
          /\ scen' = [scen EXCEPT !.at = "poll", !.seen = placed'.probe]
    BY <1>2 DEF SubmitProbe
  <1>4. order \in Orders /\ Sent(order, Listed[scen.s]) /\ order # NoOrder
    BY <1>1, <1>2, SellOrderFits DEF NoOrder
  <1> HIDE DEF order
  <1> DEFINE sent == Filling(order, n)
  <1>5. /\ sent \in Orders /\ Sent(sent, Listed[scen.s]) /\ sent.state \in {"OPEN", "FILLED"}
        /\ sent.state = "FILLED" => sent.filled = sent.qty
    BY <1>4, FillingFits DEF Sent
  <1>6. /\ DOMAIN placed' = DOMAIN placed /\ placed'.probe = sent
        /\ placed'.limit = placed.limit /\ placed'.market = placed.market
    BY <1>1, <1>3
  <1>7. /\ DOMAIN scen' = ScenFields /\ scen'.at = "poll" /\ scen'.s = scen.s
        /\ scen'.cap = scen.cap /\ scen'.qty = scen.qty /\ scen'.seen = placed'.probe
    BY <1>1, <1>3 DEF ScenFields
  <1> HIDE DEF sent
  <1>8. ChoiceOK'
    BY <1>1, <1>7 DEF ChoiceOK, ScenarioInv, Sizing, Selling, Waiting
  <1>9. SeenOK'
    <2>1. sent.filled \in Nat
      BY <1>5 DEF Orders
    <2> QED BY <1>5, <1>6, <1>7, <2>1 DEF SeenOK
  <1>10. ProgressOK'
    BY <1>1, <1>6, <1>7, <1>9 DEF ProgressOK, ScenarioInv, Sizing, Selling, Waiting
  <1>11. NothingLeftOpen' /\ PassIsEarned'
    BY <1>7 DEF NothingLeftOpen, PassIsEarned
  <1> QED BY <1>1, <1>5, <1>6, <1>7, <1>8, <1>10, <1>11 DEF ScenarioInv, Waiting

LEMMA PollInv == ASSUME ScenarioInv, PollProbe \/ PollDeadline PROVE ScenarioInv'
  <1>1. /\ scen.at = "poll" /\ UNCHANGED <<placed, quotes>> /\ DOMAIN scen = ScenFields /\ SeenOK
    BY DEF PollProbe, PollDeadline, ScenarioInv, ProgressOK, Waiting
  <1>2. /\ DOMAIN scen' = ScenFields /\ scen'.at \in Waiting /\ scen'.s = scen.s
        /\ scen'.cap = scen.cap /\ scen'.qty = scen.qty /\ scen'.seen \in {scen.seen, placed.probe}
    BY <1>1 DEF PollProbe, PollDeadline, ScenFields, Waiting
  <1>3. SeenOK'
    <2>1. placed.probe.filled \in Nat
      BY <1>1 DEF SeenOK, Orders
    <2> QED BY <1>1, <1>2, <2>1 DEF SeenOK
  <1>4. ChoiceOK'
    BY <1>1, <1>2 DEF ChoiceOK, ScenarioInv, Sizing, Selling, Waiting
  <1>5. ProgressOK'
    BY <1>1, <1>2, <1>3 DEF ProgressOK, ScenarioInv, Sizing, Selling, Waiting
  <1>6. NothingLeftOpen' /\ PassIsEarned'
    BY <1>2 DEF NothingLeftOpen, PassIsEarned, Waiting
  <1> QED BY <1>1, <1>2, <1>4, <1>5, <1>6 DEF ScenarioInv

(* What was seen FILLED is filled at the exchange and cannot pass; what is  *)
(* cancelled now has kept at least the fill that was seen.                  *)
LEMMA SettleProbeInv == ASSUME ScenarioInv, SettleProbe PROVE ScenarioInv'
  <1> DEFINE over == scen.seen.state \in {"FILLED", "CANCELLED"}
             partialOk == scen.seen.filled > 0 /\ scen.seen.filled < scen.seen.qty
             pass == scen.limitOk /\ partialOk
             done == [placed.probe EXCEPT !.state = "CANCELLED"]
  <1>1. /\ scen.at = "settle" /\ UNCHANGED quotes /\ DOMAIN scen = ScenFields /\ SeenOK
        /\ DOMAIN placed = {"market", "limit", "probe"} /\ placed.market.state # "OPEN"
        /\ Sent(placed.limit, Listed[scen.s]) /\ Sent(placed.probe, Listed[scen.s])
        /\ placed.limit.state = "CANCELLED" /\ placed.market.filled >= scen.qty
    BY DEF SettleProbe, ScenarioInv, ProgressOK, Waiting
  <1>2. CASE ~over /\ placed.probe.state # "OPEN"
    <2>1. scen' = Raised /\ UNCHANGED placed
      BY <1>2 DEF SettleProbe
    <2> QED BY <1>1, <2>1, RaisedInv
  <1>3. CASE over \/ placed.probe.state = "OPEN"
    <2>1. /\ placed' = IF over THEN placed ELSE [placed EXCEPT !.probe = done]
          /\ scen' = Verdict(pass)
      BY <1>3 DEF SettleProbe
    <2>2. /\ DOMAIN scen' = ScenFields /\ scen'.at = (IF pass THEN "passed" ELSE "failed")
          /\ scen'.s = scen.s /\ scen'.qty = scen.qty
      BY <1>1, <2>1 DEF Verdict, ScenFields
    <2>3. /\ DOMAIN placed' = DOMAIN placed /\ placed'.limit = placed.limit
          /\ placed'.market = placed.market /\ placed'.probe = IF over THEN placed.probe ELSE done
      BY <1>1, <2>1
    <2>4. /\ scen.seen.filled \in Nat /\ scen.seen.qty \in Nat
          /\ placed.probe.filled \in Nat /\ placed.probe.qty \in Nat
      BY <1>1 DEF SeenOK, Orders
    <2>5. /\ Sent(placed'.probe, Listed[scen.s]) /\ placed'.probe.state # "OPEN"
          /\ pass => /\ placed'.probe.state = "CANCELLED"
                     /\ 0 < placed'.probe.filled /\ placed'.probe.filled < placed'.probe.qty
      <3>1. CASE over
        <4>1. scen.seen.filled = scen.seen.qty
          BY <1>1, <3>1 DEF SeenOK
        <4>2. placed.probe.filled >= placed.probe.qty
          BY <1>1, <2>4, <4>1 DEF SeenOK
        <4>3. placed.probe.state # "OPEN"
          BY <1>1, <2>4, <4>2 DEF Sent, NoOrder
        <4>4. ~pass
          BY <2>4, <4>1
        <4> QED BY <1>1, <2>3, <3>1, <4>3, <4>4
      <3>2. CASE ~over
        <4>1. /\ Sent(done, Listed[scen.s]) /\ done.state = "CANCELLED"
              /\ done.qty = placed.probe.qty /\ done.filled = placed.probe.filled
              /\ placed.probe.filled < placed.probe.qty
          BY <1>1, <1>3, <3>2, CancelledFits
        <4>2. placed'.probe = done
          BY <2>3, <3>2
        <4>3. pass => 0 < placed.probe.filled
          BY <1>1, <2>4 DEF SeenOK
        <4> HIDE DEF done, pass
        <4> QED BY <4>1, <4>2, <4>3
      <3> QED BY <3>1, <3>2
    <2> HIDE DEF pass
    <2>6. ChoiceOK' /\ ProgressOK'
      BY <2>2 DEF ChoiceOK, ProgressOK, Sizing, Selling, Waiting
    <2>7. NothingLeftOpen'
      BY <1>1, <2>3, <2>5 DEF NothingLeftOpen
    <2>8. PassIsEarned'
      BY <1>1, <2>2, <2>3, <2>5 DEF PassIsEarned
    <2> QED BY <1>1, <2>2, <2>3, <2>5, <2>6, <2>7, <2>8 DEF ScenarioInv
  <1> QED BY <1>2, <1>3

LEMMA AnswerLostInv ==
  ASSUME ScenarioInv, NEW o \in {"limit", "probe"}, AnswerLost(o) PROVE ScenarioInv'
  <1>1. /\ scen.at = o /\ SellOrder(o).qty # 0 /\ scen' = Raised /\ UNCHANGED quotes
        /\ placed' = [placed EXCEPT ![o] = SellOrder(o)] /\ DOMAIN placed = {"market", "limit", "probe"}
        /\ Sent(placed.limit, Listed[scen.s]) /\ Sent(placed.probe, Listed[scen.s])
    BY DEF AnswerLost, ScenarioInv
  <1>2. Sent(SellOrder(o), Listed[scen.s])
    BY <1>1, SellOrderFits
  <1>3. /\ DOMAIN placed' = DOMAIN placed /\ placed'.market = placed.market
        /\ placed'.limit \in {placed.limit, SellOrder(o)}
        /\ placed'.probe \in {placed.probe, SellOrder(o)}
    BY <1>1
  <1> QED BY <1>1, <1>2, <1>3, RaisedInv

LEMMA FillOpenOrderInv == ASSUME ScenarioInv, FillOpenOrder PROVE ScenarioInv'
  <1>1. PICK o \in {"limit", "probe"} :
          /\ placed[o].state = "OPEN"
          /\ \E n \in placed[o].filled + 1 .. placed[o].qty :
               placed' = [placed EXCEPT ![o] = Filling(placed[o], n)]
    BY DEF FillOpenOrder, ScenarioInv
  <1>2. PICK n \in placed[o].filled + 1 .. placed[o].qty :
          placed' = [placed EXCEPT ![o] = Filling(placed[o], n)]
    BY <1>1
  <1> DEFINE old == placed[o]
             new == Filling(old, n)
  <1>3. /\ DOMAIN placed = {"market", "limit", "probe"} /\ UNCHANGED <<scen, quotes>>
        /\ Sent(placed.limit, Listed[scen.s]) /\ Sent(placed.probe, Listed[scen.s])
    BY DEF ScenarioInv, FillOpenOrder
  <1>4. /\ old \in Orders /\ Listed[scen.s] \in Filters /\ old # NoOrder
        /\ Fits(Listed[scen.s], SpendableCap(Listed[scen.s]), old.qty, old.price)
    BY <1>1, <1>3 DEF Sent, NoOrder
  <1>5. n \in 0..old.qty /\ old.filled < n /\ old.filled \in Nat /\ n \in Nat
    BY <1>4 DEF Orders
  <1>6. /\ DOMAIN placed' = DOMAIN placed /\ placed'[o] = new /\ placed'.market = placed.market
        /\ o = "limit" => placed'.probe = placed.probe
        /\ o = "probe" => placed'.limit = placed.limit
    BY <1>2, <1>3
  <1> HIDE DEF old
  <1>7. /\ new \in Orders /\ Sent(new, Listed[scen.s]) /\ new.qty = old.qty /\ new.filled = n
        /\ new.state \in {"OPEN", "FILLED"} /\ (new.state = "FILLED" => new.filled = new.qty)
    BY <1>4, <1>5, FillingFits
  <1> HIDE DEF new
  <1>8. scen.at \notin {"passed", "failed"}
    BY <1>1, <1>3 DEF ScenarioInv, NothingLeftOpen
  <1>9. ChoiceOK' /\ NothingLeftOpen' /\ PassIsEarned'
    BY <1>3, <1>8 DEF ChoiceOK, ScenarioInv, NothingLeftOpen, PassIsEarned
  <1>10. scen.at \in Waiting => SeenOK'
    <2> SUFFICES ASSUME scen.at \in Waiting PROVE SeenOK'
      OBVIOUS
    <2>1. SeenOK /\ o = "probe"
      BY <1>1 DEF ScenarioInv, ProgressOK
    <2>2. old = placed.probe /\ scen.seen.filled \in Nat
      BY <2>1 DEF old, SeenOK, Orders
    <2> QED BY <1>3, <1>5, <1>6, <1>7, <2>1, <2>2 DEF SeenOK
  <1>11. ProgressOK'
    BY <1>1, <1>3, <1>6, <1>10 DEF ProgressOK, ScenarioInv, NoOrder
  <1> QED BY <1>3, <1>6, <1>7, <1>9, <1>11 DEF ScenarioInv

LEMMA ScenarioInvNext == ScenarioInv /\ [ScenarioNext]_scenarioVars => ScenarioInv'
  <1> SUFFICES ASSUME ScenarioInv, [ScenarioNext]_scenarioVars PROVE ScenarioInv'
    OBVIOUS
  <1>1. CASE CallRaises
    <2>1. /\ scen' = Raised /\ UNCHANGED <<placed, quotes>>
          /\ Sent(placed.limit, Listed[scen.s]) /\ Sent(placed.probe, Listed[scen.s])
      BY <1>1 DEF CallRaises, ScenarioInv
    <2> QED BY <2>1, RaisedInv
  <1>2. CASE QuotesMove
    <2>1. UNCHANGED <<scen, placed>> /\ quotes'.book \in Books /\ quotes'.ticker \in Tickers
      BY <1>2 DEF QuotesMove
    <2>2. ChoiceOK' /\ ProgressOK' /\ NothingLeftOpen' /\ PassIsEarned'
      BY <2>1 DEF ScenarioInv, ChoiceOK, ProgressOK, SeenOK, NothingLeftOpen, PassIsEarned
    <2> QED BY <2>1, <2>2 DEF ScenarioInv
  <1>3. CASE UNCHANGED scenarioVars
    <2>1. UNCHANGED <<scen, placed, quotes>>
      BY <1>3 DEF scenarioVars
    <2>2. ChoiceOK' /\ ProgressOK' /\ NothingLeftOpen' /\ PassIsEarned'
      BY <2>1 DEF ScenarioInv, ChoiceOK, ProgressOK, SeenOK, NothingLeftOpen, PassIsEarned
    <2> QED BY <2>1, <2>2 DEF ScenarioInv
  <1> QED BY <1>1, <1>2, <1>3, SelectAutoTargetInv, ExplicitSymbolInv, SizeAcquisitionInv,
             ProbePreflightInv, MarketBuyInv, LimitSellInv, CancelLimitInv, RecheckProbeInv,
             SubmitProbeInv, PollInv, SettleProbeInv, AnswerLostInv, FillOpenOrderInv DEF ScenarioNext

(* A sell that fits the spendable cap is within the operator's cap and 90%  *)
(* of the free balance.                                                     *)
LEMMA SentWithinCaps ==
  ASSUME NEW f, NEW order, Sent(order, f), order # NoOrder
  PROVE  LET notional == order.qty * order.price
         IN /\ notional <= MaxNotional /\ notional * 100 <= f.free * 90
            /\ f.maxNotional > 0 => notional <= f.maxNotional
            /\ notional >= f.minNotional
            /\ f.minQty <= order.qty /\ order.qty <= f.maxQty
            /\ order.qty % f.step = 0
  <1> DEFINE notional == order.qty * order.price
             cap == SpendableCap(f)
  <1>1. /\ order.qty \in Nat /\ order.price \in Nat /\ f \in Filters
        /\ Fits(f, cap, order.qty, order.price)
    BY DEF Sent, Orders
  <1>2. cap \in Nat /\ cap <= MaxNotional /\ cap * 100 <= f.free * 90
    BY <1>1, SpendableIsBounded
  <1>3. f.free \in Nat /\ MaxNotional \in Nat
    BY <1>1, ScenarioAssumption DEF Filters
  <1>4. notional \in Nat /\ notional <= cap
    BY <1>1 DEF Fits
  <1>5. notional <= MaxNotional /\ notional * 100 <= f.free * 90
    <2> HIDE DEF notional, cap
    <2> QED BY <1>2, <1>3, <1>4
  <1> QED BY <1>1, <1>5 DEF Fits

(* binance_testnet_acceptance.py, for every list of candidates and every    *)
(* movement of book and ticker: the sells stay within the operator's cap,   *)
(* the free balance and the exchange's filters, a scenario that returns     *)
(* leaves no order open, and one that passes has earned it.                 *)
THEOREM ScenarioStaysClean == ScenarioSpec => []ScenarioIsClean
  <1>1. ScenarioInv => ScenarioIsClean
    <2>1. ScenarioInv => SellsStayWithinCaps
      <3> SUFFICES ASSUME ScenarioInv, NEW o \in {"limit", "probe"}, placed[o] # NoOrder
                   PROVE  LET order == placed[o]  f == Listed[scen.s]
                              notional == order.qty * order.price
                          IN /\ notional <= MaxNotional /\ notional * 100 <= f.free * 90
                             /\ f.maxNotional > 0 => notional <= f.maxNotional
                             /\ notional >= f.minNotional
                             /\ f.minQty <= order.qty /\ order.qty <= f.maxQty
                             /\ order.qty % f.step = 0
        BY DEF SellsStayWithinCaps
      <3>1. Sent(placed[o], Listed[scen.s])
        BY DEF ScenarioInv
      <3> QED BY <3>1, SentWithinCaps
    <2> QED BY <2>1 DEF ScenarioInv, ScenarioIsClean
  <1> QED BY <1>1, ScenarioInitInv, ScenarioInvNext, PTL DEF ScenarioSpec

-----------------------------------------------------------------------------
(* The campaign journal.                                                    *)

JournalRecords ==
    [binding : Bindings, at : Nat, sequence : Nat, kind : JournalKinds \cup {"header"},
     id : SampleIds \cup {"none"}, whole : BOOLEAN, previous : Nat, hash : Nat]

LEMMA LeastElement ==
  ASSUME NEW T, T \subseteq Nat, T # {}
  PROVE  \E x \in T : \A y \in T : x <= y
  <1>1. \E x \in T : \A y \in T : ~(<<y, x>> \in OpToRel(<, Nat))
    BY WFMin, NatLessThanWellFounded
  <1>2. PICK x \in T : \A y \in T : ~(<<y, x>> \in OpToRel(<, Nat))
    BY <1>1
  <1>3. ASSUME NEW y \in T PROVE x <= y
    <2>1. x \in Nat /\ y \in Nat
      OBVIOUS
    <2>2. ~(y < x)
      BY <1>2, <2>1 DEF OpToRel
    <2> QED BY <2>1, <2>2
  <1> QED BY <1>3

LEMMA FirstAndLast ==
  ASSUME NEW n \in Nat, NEW T, T \subseteq 1..n, T # {}
  PROVE  /\ Min(T) \in T /\ \A y \in T : Min(T) <= y
         /\ Max(T) \in T /\ \A y \in T : y <= Max(T)
  <1>1. \E x \in T : \A y \in T : x <= y
    <2>1. T \subseteq Nat
      OBVIOUS
    <2> QED BY <2>1, LeastElement
  <1>2. \E x \in T : \A y \in T : x >= y
    <2> DEFINE U == {n - x : x \in T}
    <2>1. \A x \in T : x \in 1..n /\ n - x \in Nat
      OBVIOUS
    <2>2. U \subseteq Nat /\ U # {}
      BY <2>1
    <2>3. PICK u \in U : \A v \in U : u <= v
      BY <2>2, LeastElement
    <2>4. PICK x \in T : u = n - x
      OBVIOUS
    <2>5. ASSUME NEW y \in T PROVE x >= y
      <3>1. n - y \in U /\ x \in Int /\ y \in Int
        BY <2>1
      <3>2. n - x <= n - y
        BY <2>3, <2>4, <3>1
      <3> QED BY <3>1, <3>2
    <2> QED BY <2>5
  <1> QED BY <1>1, <1>2 DEF Min, Max

(* What load_journal accepted: the records are in the order of their times. *)
Loaded(s) ==
    /\ s \in Seq(JournalRecords) /\ s # <<>>
    /\ \A i \in 2..Len(s) : s[i - 1].at <= s[i].at

LEMMA RecordsHaveTimes ==
  ASSUME NEW s, Loaded(s)
  PROVE  Len(s) \in Nat \ {0} /\ \A k \in 1..Len(s) : s[k] \in JournalRecords /\ s[k].at \in Nat
  <1>1. s \in Seq(JournalRecords) /\ s # <<>>
    BY DEF Loaded
  <1>2. Len(s) \in Nat \ {0} /\ \A k \in 1..Len(s) : s[k] \in JournalRecords
    BY <1>1
  <1>3. \A row \in JournalRecords : row.at \in Nat
    BY DEF JournalRecords
  <1> QED BY <1>2, <1>3

LEMMA TimesRise ==
  ASSUME NEW s, Loaded(s), NEW i \in 1..Len(s), NEW j \in 1..Len(s), i <= j
  PROVE  s[i].at <= s[j].at
  <1> DEFINE T == {k \in i..Len(s) : ~(s[i].at <= s[k].at)}
  <1>1. Len(s) \in Nat /\ \A k \in 1..Len(s) : s[k].at \in Nat
    BY RecordsHaveTimes
  <1>2. ASSUME T # {} PROVE FALSE
    <2>1. PICK k \in T : \A m \in T : k <= m
      <3>1. T \subseteq Nat
        BY <1>1
      <3> HIDE DEF T
      <3> QED BY <1>2, <3>1, LeastElement
    <2>2. k \in i..Len(s) /\ ~(s[i].at <= s[k].at)
      OBVIOUS
    <2>3. k # i
      BY <1>1, <2>2
    <2>4. k - 1 \in i..Len(s) /\ k \in 2..Len(s) /\ k - 1 \in 1..Len(s) /\ k \in 1..Len(s)
      BY <1>1, <2>2, <2>3
    <2>5. s[i].at <= s[k - 1].at
      BY <2>1, <2>4
    <2>6. s[k - 1].at <= s[k].at
      BY <2>4 DEF Loaded
    <2> QED BY <1>1, <2>2, <2>4, <2>5, <2>6
  <1> QED BY <1>1, <1>2

(* derive_metrics over a journal and over a beginning of it.                *)
LEMMA MetricsGrow ==
  ASSUME NEW s, NEW t, Loaded(s), Loaded(t), Begins(s, t)
  PROVE  /\ s[1].binding = t[1].binding
         /\ DeriveMetrics(s).days <= DeriveMetrics(t).days
         /\ DeriveMetrics(s).samples <= DeriveMetrics(t).samples
         /\ DeriveMetrics(s).passed => DeriveMetrics(t).passed
  <1>1. /\ Len(s) \in Nat \ {0} /\ Len(t) \in Nat \ {0} /\ Len(s) <= Len(t)
        /\ \A i \in 1..Len(s) : s[i] = t[i]
    BY DEF Loaded, Begins
  <1>2. Samples(s) \subseteq Samples(t) /\ Samples(s) \subseteq 1..Len(s) /\ Samples(t) \subseteq 1..Len(t)
    BY <1>1 DEF Samples
  <1>3. s[1].binding = t[1].binding
    BY <1>1
  <1>4. Passes(s) \subseteq Passes(t)
    BY <1>1 DEF Passes
  <1>5. Cardinality(Ids(s)) <= Cardinality(Ids(t))
    <2>1. IsFiniteSet(Samples(t))
      <3>1. IsFiniteSet(1..Len(t))
        BY <1>1, FS_Interval
      <3> QED BY <1>2, <3>1, FS_Subset
    <2> DEFINE g == [i \in Samples(t) |-> t[i].id]
    <2>2. g \in Surjection(Samples(t), Ids(t))
      BY DEF Surjection, Ids
    <2>3. IsFiniteSet(Ids(t))
      BY <2>1, <2>2, FS_Surjection
    <2>4. Ids(s) \subseteq Ids(t)
      BY <1>1, <1>2 DEF Ids
    <2> QED BY <2>3, <2>4, FS_Subset
  <1>6. ElapsedDays(s) <= ElapsedDays(t)
    <2>1. ASSUME NEW x, Loaded(x), Samples(x) # {}
          PROVE  /\ Min(Samples(x)) \in Samples(x) /\ Max(Samples(x)) \in Samples(x)
                 /\ \A i \in Samples(x) : Min(Samples(x)) <= i /\ i <= Max(Samples(x))
                 /\ \A i \in Samples(x) : i \in 1..Len(x) /\ x[i].at \in Nat
      <3>1. Len(x) \in Nat /\ Samples(x) \subseteq 1..Len(x) /\ \A i \in 1..Len(x) : x[i].at \in Nat
        BY <2>1, RecordsHaveTimes DEF Samples
      <3> QED BY <2>1, <3>1, FirstAndLast
    <2>2. ASSUME NEW x, Loaded(x), Samples(x) # {}
          PROVE  /\ x[Max(Samples(x))].at - x[Min(Samples(x))].at \in Int
                 /\ ElapsedDays(x) = Max({0, x[Max(Samples(x))].at - x[Min(Samples(x))].at})
      BY <2>1, <2>2 DEF ElapsedDays
    <2>3. CASE Samples(s) = {}
      <3>1. ElapsedDays(s) = 0
        BY <2>3 DEF ElapsedDays
      <3>2. CASE Samples(t) = {}
        BY <3>1, <3>2 DEF ElapsedDays
      <3>3. CASE Samples(t) # {}
        <4> DEFINE d == t[Max(Samples(t))].at - t[Min(Samples(t))].at
        <4>1. d \in Int /\ ElapsedDays(t) = Max({0, d})
          BY <2>2, <3>3
        <4> HIDE DEF d
        <4>2. Max({0, d}) >= 0
          BY <4>1, GreatestOfTwo
        <4> QED BY <3>1, <4>1, <4>2
      <3> QED BY <3>2, <3>3
    <2>4. CASE Samples(s) # {}
      <3> DEFINE a == Min(Samples(s))
                 b == Max(Samples(s))
                 c == Min(Samples(t))
                 e == Max(Samples(t))
                 x == s[b].at - s[a].at
                 y == t[e].at - t[c].at
      <3>1. Samples(t) # {}
        BY <1>2, <2>4
      <3>2. /\ x \in Int /\ ElapsedDays(s) = Max({0, x})
            /\ y \in Int /\ ElapsedDays(t) = Max({0, y})
        BY <2>2, <2>4, <3>1
      <3>3. /\ a \in Samples(s) /\ b \in Samples(s) /\ c \in Samples(t) /\ e \in Samples(t)
            /\ s[a].at \in Nat /\ s[b].at \in Nat /\ t[c].at \in Nat /\ t[e].at \in Nat
        BY <2>1, <2>4, <3>1
      <3>4. /\ s[a] = t[a] /\ s[b] = t[b] /\ a \in 1..Len(t) /\ b \in 1..Len(t)
            /\ c \in 1..Len(t) /\ e \in 1..Len(t)
        BY <1>1, <1>2, <3>3
      <3>5. c <= a /\ b <= e
        BY <1>2, <2>1, <3>1, <3>3
      <3>6. t[c].at <= t[a].at /\ t[b].at <= t[e].at
        <4> HIDE DEF a, b, c, e
        <4> QED BY <3>4, <3>5, TimesRise
      <3>7. x <= y
        <4> HIDE DEF a, b, c, e
        <4> QED BY <3>3, <3>4, <3>6
      <3> HIDE DEF x, y
      <3>8. /\ Max({0, x}) \in {0, x} /\ Max({0, y}) \in {0, y}
            /\ Max({0, y}) >= 0 /\ Max({0, y}) >= y
        BY <3>2, GreatestOfTwo
      <3> QED BY <3>2, <3>7, <3>8
    <2> QED BY <2>3, <2>4
  <1> QED BY <1>3, <1>4, <1>5, <1>6 DEF DeriveMetrics

RecorderStates ==
    [pc : {"idle", "append", "hash", "write"}, kind : JournalKinds \cup {"none"},
     id : SampleIds \cup {"none"}, at : Nat, rows : Seq(JournalRecords),
     bytes : Seq(JournalRecords), next : 1..4]

(* What a recorder loaded, and the file it then hashed, are beginnings of   *)
(* the file: it is never truncated or rewritten.                            *)
RecorderOK(r, file) ==
    /\ r \in RecorderStates
    /\ r.pc = "append" => r.kind \in JournalKinds
    /\ r.pc # "idle" => Loaded(r.rows) /\ Begins(r.rows, file)
    /\ r.pc = "write" => Begins(r.rows, r.bytes) /\ Begins(r.bytes, file)

DerivedOK(d, file) ==
    d.made => Loaded(d.rows) /\ d.bytes \in Seq(JournalRecords) /\ Begins(d.rows, d.bytes) /\ Begins(d.bytes, file)

(* A record that was cut off stays, so only a file of whole ones can still  *)
(* be loaded, and then nothing was swallowed.                               *)
NothingSwallowed ==
    (\A i \in 1..Len(journalFile) : journalFile[i].whole) =>
        \A h \in returned : \E i \in 1..Len(journalFile) : journalFile[i].hash = h

JournalInv ==
    /\ journalFile \in Seq(JournalRecords) /\ wallClock \in Nat /\ recordsMade \in Nat
    /\ DOMAIN recorder = Recorders /\ \A p \in Recorders : RecorderOK(recorder[p], journalFile)
    /\ DOMAIN derived = DerivedKinds /\ \A k \in DerivedKinds : DerivedOK(derived[k], journalFile)
    /\ NothingSwallowed

LEMMA IdleRecorderOK == \A file : RecorderOK(IdleRecorder, file)
  <1>1. /\ IdleRecorder.pc = "idle" /\ IdleRecorder \in RecorderStates
    BY DEF IdleRecorder, RecorderStates
  <1> QED BY <1>1 DEF RecorderOK

LEMMA JournalInitInv == JournalInit => JournalInv
  <1> SUFFICES ASSUME JournalInit PROVE JournalInv
    OBVIOUS
  <1>1. /\ journalFile \in Seq(JournalRecords) /\ wallClock \in Nat /\ recordsMade \in Nat
        /\ returned = {}
    BY DEF JournalInit
  <1>2. DOMAIN recorder = Recorders /\ \A p \in Recorders : RecorderOK(recorder[p], journalFile)
    BY IdleRecorderOK DEF JournalInit
  <1>3. DOMAIN derived = DerivedKinds /\ \A k \in DerivedKinds : DerivedOK(derived[k], journalFile)
    BY DEF JournalInit, NotDerived, DerivedOK
  <1> QED BY <1>1, <1>2, <1>3 DEF JournalInv, NothingSwallowed

LEMMA LoadedWhenRead ==
  ASSUME JournalInv, LoadJournal(journalFile, wallClock)
  PROVE  Loaded(journalFile) /\ Begins(journalFile, journalFile)
  <1>1. journalFile \in Seq(JournalRecords) /\ journalFile # <<>>
    BY DEF JournalInv, LoadJournal
  <1>2. Loaded(journalFile)
    <2>1. ASSUME NEW i \in 2..Len(journalFile) PROVE journalFile[i - 1].at <= journalFile[i].at
      <3>1. i \in 1..Len(journalFile) /\ i - 1 \in 1..Len(journalFile) /\ i > 1
        BY <1>1
      <3>2. journalFile[i].at >= journalFile[i - 1].at
        BY <3>1 DEF LoadJournal, Checked
      <3>3. journalFile[i].at \in Nat /\ journalFile[i - 1].at \in Nat
        <4>1. journalFile[i] \in JournalRecords /\ journalFile[i - 1] \in JournalRecords
          BY <1>1, <3>1
        <4> QED BY <4>1 DEF JournalRecords
      <3> QED BY <3>2, <3>3
    <2> QED BY <1>1, <2>1 DEF Loaded
  <1>3. Begins(journalFile, journalFile)
    BY <1>1 DEF Begins
  <1> QED BY <1>2, <1>3

(* The file only grows, and what began it still does.                       *)
LEMMA FileGrows ==
  ASSUME NEW file \in Seq(JournalRecords), NEW row \in JournalRecords, NEW grown,
         grown \in {file, Append(file, row)}
  PROVE  /\ grown \in Seq(JournalRecords)
         /\ \A r : RecorderOK(r, file) => RecorderOK(r, grown)
         /\ \A d : DerivedOK(d, file) => DerivedOK(d, grown)
  <1>1. /\ grown \in Seq(JournalRecords) /\ Len(file) \in Nat /\ Len(grown) \in Nat
        /\ Len(file) <= Len(grown) /\ \A i \in 1..Len(file) : grown[i] = file[i]
    OBVIOUS
  <1>2. ASSUME NEW T, NEW s \in Seq(T), Begins(s, file) PROVE Begins(s, grown)
    BY <1>1, <1>2 DEF Begins
  <1>3. ASSUME NEW r, RecorderOK(r, file) PROVE RecorderOK(r, grown)
    <2>1. r.rows \in Seq(JournalRecords) /\ r.bytes \in Seq(JournalRecords)
      BY <1>3 DEF RecorderOK, RecorderStates
    <2> QED BY <1>2, <1>3, <2>1 DEF RecorderOK
  <1>4. ASSUME NEW d, DerivedOK(d, file) PROVE DerivedOK(d, grown)
    BY <1>2, <1>4 DEF DerivedOK, Loaded
  <1> QED BY <1>1, <1>3, <1>4

LEMMA RecorderMoves ==
  ASSUME JournalInv, NEW p \in Recorders, NEW r, RecorderOK(r, journalFile),
         recorder' = [recorder EXCEPT ![p] = r],
         UNCHANGED <<journalFile, wallClock, recordsMade, returned>>,
         DOMAIN derived' = DerivedKinds, \A k \in DerivedKinds : DerivedOK(derived'[k], journalFile)
  PROVE  JournalInv'
  <1>1. DOMAIN recorder' = Recorders /\ \A q \in Recorders : RecorderOK(recorder'[q], journalFile)
    BY DEF JournalInv
  <1>2. NothingSwallowed'
    BY DEF JournalInv, NothingSwallowed
  <1> QED BY <1>1, <1>2 DEF JournalInv

LEMMA ReadingInv ==
  ASSUME JournalInv, NEW p \in Recorders,
         BuildLoad(p) \/ \E kind \in JournalKinds, id \in SampleIds : AppendLoad(p, kind, id)
  PROVE  JournalInv'
  <1>1. /\ LoadJournal(journalFile, wallClock) /\ UNCHANGED <<journalFile, wallClock, derived, recordsMade, returned>>
        /\ journalFile \in Seq(JournalRecords) /\ wallClock \in Nat
        /\ DOMAIN derived = DerivedKinds /\ \A k \in DerivedKinds : DerivedOK(derived[k], journalFile)
    BY DEF AppendLoad, BuildLoad, JournalInv
  <1>2. Loaded(journalFile) /\ Begins(journalFile, journalFile)
    BY <1>1, LoadedWhenRead
  <1>3. IdleRecorder \in RecorderStates
    BY IdleRecorderOK DEF RecorderOK
  <1>4. PICK r : /\ recorder' = [recorder EXCEPT ![p] = r] /\ r.rows = journalFile /\ r \in RecorderStates
                 /\ r.pc \in {"append", "hash"} /\ (r.pc = "append" => r.kind \in JournalKinds)
    <2>1. ASSUME NEW kind \in JournalKinds, NEW id \in SampleIds, AppendLoad(p, kind, id)
          PROVE  \E r : /\ recorder' = [recorder EXCEPT ![p] = r] /\ r.rows = journalFile
                        /\ r \in RecorderStates /\ r.pc \in {"append", "hash"}
                        /\ r.pc = "append" => r.kind \in JournalKinds
      <3> DEFINE r == [IdleRecorder EXCEPT !.pc = "append", !.kind = kind, !.id = id, !.at = wallClock,
                                           !.rows = journalFile]
      <3>1. recorder' = [recorder EXCEPT ![p] = r]
        BY <2>1 DEF AppendLoad
      <3>2. r.rows = journalFile /\ r.pc = "append" /\ r.kind = kind /\ r \in RecorderStates
        BY <1>1, <1>3 DEF RecorderStates
      <3> QED BY <3>1, <3>2
    <2>2. CASE BuildLoad(p)
      <3> DEFINE r == [IdleRecorder EXCEPT !.pc = "hash", !.rows = journalFile]
      <3>1. recorder' = [recorder EXCEPT ![p] = r]
        BY <2>2 DEF BuildLoad
      <3>2. r.rows = journalFile /\ r.pc = "hash" /\ r \in RecorderStates
        BY <1>1, <1>3 DEF RecorderStates
      <3> QED BY <3>1, <3>2
    <2> QED BY <2>1, <2>2
  <1>5. RecorderOK(r, journalFile)
    BY <1>2, <1>4 DEF RecorderOK
  <1> QED BY <1>1, <1>4, <1>5, RecorderMoves

LEMMA BuildHashInv == ASSUME JournalInv, NEW p \in Recorders, BuildHash(p) PROVE JournalInv'
  <1> DEFINE r == [recorder[p] EXCEPT !.pc = "write", !.bytes = journalFile]
  <1>1. /\ recorder[p].pc = "hash" /\ UNCHANGED <<journalFile, wallClock, derived, recordsMade, returned>>
        /\ journalFile \in Seq(JournalRecords) /\ RecorderOK(recorder[p], journalFile) /\ p \in DOMAIN recorder
        /\ DOMAIN derived = DerivedKinds /\ \A k \in DerivedKinds : DerivedOK(derived[k], journalFile)
    BY DEF BuildHash, JournalInv
  <1>2. recorder' = [recorder EXCEPT ![p] = r]
    BY <1>1 DEF BuildHash
  <1>3. /\ r \in RecorderStates /\ r.pc = "write" /\ r.bytes = journalFile /\ r.rows = recorder[p].rows
        /\ Loaded(r.rows) /\ Begins(r.rows, journalFile)
    BY <1>1 DEF RecorderOK, RecorderStates
  <1>4. Begins(journalFile, journalFile)
    BY <1>1 DEF Begins
  <1> HIDE DEF r
  <1>5. RecorderOK(r, journalFile)
    BY <1>3, <1>4 DEF RecorderOK
  <1> QED BY <1>1, <1>2, <1>5, RecorderMoves

LEMMA WriteReceiptsInv == ASSUME JournalInv, NEW p \in Recorders, WriteReceipts(p) PROVE JournalInv'
  <1> DEFINE r == recorder[p]
             doc == [made |-> TRUE, rows |-> r.rows, bytes |-> r.bytes]
             later == IF r.next = 4 THEN IdleRecorder ELSE [r EXCEPT !.next = @ + 1]
  <1>1. /\ r.pc = "write" /\ UNCHANGED <<journalFile, wallClock, recordsMade, returned>>
        /\ RecorderOK(r, journalFile) /\ p \in DOMAIN recorder
        /\ DOMAIN derived = DerivedKinds /\ \A k \in DerivedKinds : DerivedOK(derived[k], journalFile)
    BY DEF WriteReceipts, JournalInv
  <1>2. /\ recorder' = [recorder EXCEPT ![p] = later]
        /\ derived' = [derived EXCEPT ![DerivedOrder[r.next]] = doc]
    BY DEF WriteReceipts, DerivedOrder
  <1>3. DerivedOK(doc, journalFile)
    BY <1>1 DEF DerivedOK, RecorderOK, RecorderStates
  <1>4. DOMAIN derived' = DerivedKinds /\ \A k \in DerivedKinds : DerivedOK(derived'[k], journalFile)
    <2> HIDE DEF doc
    <2> QED BY <1>1, <1>2, <1>3
  <1>5. RecorderOK(later, journalFile)
    <2>1. CASE r.next = 4
      BY <2>1, IdleRecorderOK
    <2>2. CASE r.next # 4
      <3>1. r \in RecorderStates /\ r.next + 1 \in 1..4
        BY <1>1, <2>2 DEF RecorderOK, RecorderStates
      <3>2. /\ later \in RecorderStates /\ later.pc = r.pc /\ later.kind = r.kind
            /\ later.rows = r.rows /\ later.bytes = r.bytes
        BY <2>2, <3>1 DEF RecorderStates
      <3> HIDE DEF later, r
      <3> QED BY <1>1, <3>2 DEF RecorderOK
    <2> QED BY <2>1, <2>2
  <1> HIDE DEF later
  <1> QED BY <1>1, <1>2, <1>4, <1>5, RecorderMoves

LEMMA RecorderStopsInv == ASSUME JournalInv, NEW p \in Recorders, RecorderStops(p) PROVE JournalInv'
  <1>1. /\ recorder' = [recorder EXCEPT ![p] = IdleRecorder]
        /\ UNCHANGED <<journalFile, wallClock, derived, recordsMade, returned>>
        /\ DOMAIN derived = DerivedKinds /\ \A k \in DerivedKinds : DerivedOK(derived[k], journalFile)
    BY DEF RecorderStops, JournalInv
  <1> QED BY <1>1, IdleRecorderOK, RecorderMoves

(* A record is written after the last one, or is swallowed by a line that   *)
(* was cut off, which then still is there.                                  *)
LEMMA RecordWritten ==
  ASSUME JournalInv, NEW row \in JournalRecords, NEW p \in Recorders,
         journalFile' \in {journalFile, Append(journalFile, row)},
         recordsMade' = recordsMade + 1, UNCHANGED <<wallClock, derived>>,
         recorder' \in {recorder, [recorder EXCEPT ![p] = IdleRecorder]},
         NothingSwallowed'
  PROVE  JournalInv'
  <1>1. /\ journalFile' \in Seq(JournalRecords)
        /\ \A r : RecorderOK(r, journalFile) => RecorderOK(r, journalFile')
        /\ \A d : DerivedOK(d, journalFile) => DerivedOK(d, journalFile')
    BY FileGrows DEF JournalInv
  <1>2. DOMAIN recorder' = Recorders /\ \A q \in Recorders : RecorderOK(recorder'[q], journalFile')
    BY <1>1, IdleRecorderOK DEF JournalInv
  <1>3. \A k \in DerivedKinds : DerivedOK(derived[k], journalFile')
    BY <1>1 DEF JournalInv
  <1> QED BY <1>1, <1>2, <1>3 DEF JournalInv

LEMMA InitializeJournalInv ==
  ASSUME JournalInv, NEW p \in Recorders, NEW b, NEW whole \in BOOLEAN, InitializeJournal(p, b, whole)
  PROVE  JournalInv'
  <1> DEFINE row == JournalRow(b, wallClock, <<>>, "header", "none", whole)
  <1>1. /\ journalFile = <<>> /\ b \in Bindings /\ journalFile' = <<row>> /\ recordsMade' = recordsMade + 1
        /\ UNCHANGED <<wallClock, recorder, derived, returned>> /\ wallClock \in Nat /\ recordsMade \in Nat
    BY DEF InitializeJournal, ValidBinding, JournalInv
  <1>2. row \in JournalRecords
    BY <1>1 DEF JournalRow, JournalRecords
  <1> HIDE DEF row
  <1>3. journalFile' = Append(journalFile, row)
    BY <1>1
  <1>4. returned = {}
    BY <1>1 DEF JournalInv, NothingSwallowed
  <1>5. NothingSwallowed'
    BY <1>1, <1>4 DEF NothingSwallowed
  <1> QED BY <1>1, <1>2, <1>3, <1>5, RecordWritten

LEMMA AppendWriteInv ==
  ASSUME JournalInv, NEW p \in Recorders, NEW whole \in BOOLEAN, AppendWrite(p, whole)
  PROVE  JournalInv'
  <1> DEFINE r == recorder[p]
             row == JournalRow(r.rows[1].binding, r.at, r.rows, r.kind, r.id, whole)
             n == Len(journalFile)
  <1>1. /\ r.pc = "append" /\ recordsMade' = recordsMade + 1 /\ UNCHANGED <<wallClock, derived>>
        /\ recorder' = [recorder EXCEPT ![p] = IdleRecorder]
        /\ journalFile' = IF journalFile[n].whole THEN Append(journalFile, row) ELSE journalFile
        /\ returned' = IF whole THEN returned \cup {row.hash} ELSE returned
        /\ RecorderOK(r, journalFile) /\ journalFile \in Seq(JournalRecords) /\ recordsMade \in Nat
    BY DEF AppendWrite, LastRow, JournalInv
  <1>2. /\ Loaded(r.rows) /\ Begins(r.rows, journalFile) /\ r.kind \in JournalKinds
        /\ r.at \in Nat /\ r.id \in SampleIds \cup {"none"}
    BY <1>1 DEF RecorderOK, RecorderStates
  <1>3. Len(r.rows) \in Nat \ {0} /\ n \in Nat /\ n >= 1
    <2>1. Len(r.rows) \in Nat \ {0} /\ n \in Nat
      BY <1>1, <1>2, RecordsHaveTimes
    <2>2. Len(r.rows) <= n
      BY <1>2 DEF Begins
    <2> QED BY <2>1, <2>2
  <1>4. row \in JournalRecords /\ row.hash = recordsMade + 1 /\ row.whole = whole
    <2>1. r.rows[1] \in JournalRecords /\ r.rows[Len(r.rows)] \in JournalRecords
      BY <1>2, <1>3, RecordsHaveTimes
    <2>2. r.rows[1].binding \in Bindings /\ r.rows[Len(r.rows)].hash \in Nat
      BY <2>1 DEF JournalRecords
    <2>3. r.rows # <<>>
      BY <1>2 DEF Loaded
    <2> HIDE DEF r
    <2>4. row = [binding |-> r.rows[1].binding, at |-> r.at, sequence |-> Len(r.rows), kind |-> r.kind,
                 id |-> r.id, whole |-> whole, previous |-> r.rows[Len(r.rows)].hash,
                 hash |-> recordsMade + 1]
      BY <2>3 DEF JournalRow, LastRow
    <2> HIDE DEF row
    <2> QED BY <1>1, <1>2, <1>3, <2>2, <2>4 DEF JournalRecords
  <1> HIDE DEF row, r
  <1>5. NothingSwallowed'
    <2>1. CASE ~journalFile[n].whole
      <3>1. journalFile' = journalFile
        BY <1>1, <2>1
      <3> QED BY <1>3, <2>1, <3>1 DEF NothingSwallowed
    <2>2. CASE journalFile[n].whole
      <3>1. /\ journalFile' = Append(journalFile, row) /\ Len(journalFile') = n + 1
            /\ journalFile'[n + 1] = row /\ \A i \in 1..n : journalFile'[i] = journalFile[i]
        BY <1>1, <1>3, <1>4, <2>2
      <3> SUFFICES ASSUME \A i \in 1..Len(journalFile') : journalFile'[i].whole, NEW h \in returned'
                   PROVE  \E i \in 1..Len(journalFile') : journalFile'[i].hash = h
        BY DEF NothingSwallowed
      <3>2. \A i \in 1..n : i \in 1..Len(journalFile') /\ journalFile[i].whole
        BY <1>3, <3>1
      <3>3. CASE h \in returned
        BY <3>1, <3>2, <3>3 DEF JournalInv, NothingSwallowed
      <3>4. CASE h = row.hash
        BY <1>3, <3>1, <3>4
      <3> QED BY <1>1, <3>3, <3>4
    <2> QED BY <2>1, <2>2
  <1> QED BY <1>1, <1>4, <1>5, RecordWritten

LEMMA JournalInvNext == JournalInv /\ [JournalNext]_journalVars => JournalInv'
  <1> SUFFICES ASSUME JournalInv, [JournalNext]_journalVars PROVE JournalInv'
    OBVIOUS
  <1>1. ASSUME UNCHANGED <<journalFile, recorder, derived, recordsMade, returned>>, wallClock' \in Nat
        PROVE  JournalInv'
    <2>1. NothingSwallowed'
      BY <1>1 DEF JournalInv, NothingSwallowed
    <2> QED BY <1>1, <2>1 DEF JournalInv
  <1>2. CASE \E now \in 0..MaxWallClock : ClockIsSet(now)
    BY <1>1, <1>2, JournalAssumption DEF ClockIsSet
  <1>3. CASE UNCHANGED journalVars
    BY <1>1, <1>3 DEF journalVars, JournalInv
  <1>4. ASSUME NEW p \in Recorders,
               \/ \E b \in Bindings \cup {NoBinding}, whole \in BOOLEAN : InitializeJournal(p, b, whole)
               \/ \E kind \in JournalKinds, id \in SampleIds : AppendLoad(p, kind, id)
               \/ \E whole \in BOOLEAN : AppendWrite(p, whole)
               \/ BuildLoad(p) \/ BuildHash(p) \/ WriteReceipts(p) \/ RecorderStops(p)
        PROVE  JournalInv'
    BY <1>4, InitializeJournalInv, ReadingInv, AppendWriteInv, BuildHashInv, WriteReceiptsInv,
       RecorderStopsInv
  <1> QED BY <1>2, <1>3, <1>4 DEF JournalNext

(* campaign_evidence_recorder.py, for any number of recorders without a     *)
(* lock: a journal that loads holds every event whose append returned, and  *)
(* every receipt is of a beginning of that journal, so that of two receipts *)
(* the later never shows less.                                              *)
THEOREM JournalStaysEvidence == JournalSpec => []JournalIsEvidence
  <1>1. JournalInv => JournalIsEvidence
    <2> SUFFICES ASSUME JournalInv PROVE JournalIsEvidence
      OBVIOUS
    <2>1. NoEventIsLost
      BY DEF NoEventIsLost, LoadJournal, JournalInv, NothingSwallowed
    <2>2. ReceiptsAreOfThisJournal
      BY DEF ReceiptsAreOfThisJournal, OnDisk, JournalInv, DerivedOK
    <2>3. ReceiptsOnlyGrow
      <3> SUFFICES ASSUME NEW r1 \in OnDisk, NEW r2 \in OnDisk
                   PROVE  /\ r1.rows[1].binding = r2.rows[1].binding
                          /\ Len(r1.rows) <= Len(r2.rows) =>
                               LET m1 == DeriveMetrics(r1.rows)  m2 == DeriveMetrics(r2.rows)
                               IN /\ m1.days <= m2.days
                                  /\ m1.samples <= m2.samples /\ (m1.passed => m2.passed)
        BY DEF ReceiptsOnlyGrow
      <3>1. ASSUME NEW r \in OnDisk
            PROVE  /\ Loaded(r.rows) /\ Len(r.rows) \in Nat \ {0} /\ Len(r.rows) <= Len(journalFile)
                   /\ \A i \in 1..Len(r.rows) : r.rows[i] = journalFile[i]
        <4>1. Loaded(r.rows) /\ r.bytes \in Seq(JournalRecords) /\ Begins(r.rows, r.bytes) /\ Begins(r.bytes, journalFile)
          BY DEF OnDisk, JournalInv, DerivedOK
        <4>2. Len(r.rows) \in Nat \ {0} /\ Len(r.bytes) \in Nat /\ Len(journalFile) \in Nat
          BY <4>1, RecordsHaveTimes DEF JournalInv
        <4> QED BY <4>1, <4>2 DEF Begins
      <3>2. r1.rows[1].binding = r2.rows[1].binding
        BY <3>1
      <3>3. ASSUME Len(r1.rows) <= Len(r2.rows) PROVE Begins(r1.rows, r2.rows)
        BY <3>1, <3>3 DEF Begins
      <3> QED BY <3>1, <3>2, <3>3, MetricsGrow
    <2> QED BY <2>1, <2>2, <2>3 DEF JournalIsEvidence
  <1> QED BY <1>1, JournalInitInv, JournalInvNext, PTL DEF JournalSpec

-----------------------------------------------------------------------------
(* The campaign collection: what its records, runtimes and state file are.  *)
CollectedEvents ==
    [kind : EventKinds \cup {"header"}, obs : {<<>>} \cup (Runtimes \X Nat),
     decision : {"HOLD", "LONG", "EXIT"}, fills : Nat]
CollectedRows == [event : CollectedEvents, prev : Nat, attested : BOOLEAN, whole : BOOLEAN]
OtherEvents == {e \in CollectedEvents : e.kind # "paper_sample"}
AdapterStates == [open : BOOLEAN, fills : Nat, terminated : BOOLEAN]
RuntimeStates ==
    [pc : {"idle", "ready", "emit", "persist", "save", "saved"}, adapter : AdapterStates,
     todo : Seq(CollectedEvents), seen : Nat]
SavedStates == [last : Nat, adapter : AdapterStates]

CampaignTypes ==
    /\ rows \in Seq(CollectedRows) /\ state \in {NoFile} \cup SavedStates
    /\ proc \in [Runtimes -> RuntimeStates] /\ audit \in Nat /\ commands \in Nat

LEMMA PlainEvents ==
  /\ \A kind \in EventKinds \cup {"header"} : Event(kind) \in CollectedEvents /\ Event(kind).kind = kind
  /\ \A kind \in EventKinds \ {"paper_sample"} : Event(kind) \in OtherEvents
  BY DEF Event, CollectedEvents, OtherEvents

LEMMA Concatenated ==
  ASSUME NEW T, NEW s \in Seq(T), NEW t \in Seq(T) PROVE s \o t \in Seq(T)
  OBVIOUS

LEMMA OneEvent ==
  ASSUME NEW kind \in EventKinds \ {"paper_sample"} PROVE <<Event(kind)>> \in Seq(OtherEvents)
  BY PlainEvents

LEMMA OtherKinds ==
  {"private_auth_lifecycle", "private_reconnect", "private_rest_reconciliation",
   "private_duplicate_idempotency", "private_out_of_order", "private_redaction", "private_event",
   "live_shadow_kill_switch_pass", "live_shadow_reconciliation_pass", "paper_cost_stress_pass",
   "paper_latency_stress_pass", "paper_oos_pass", "profitability_sample", "profitability_oos_pass",
   "profitability_leakage_pass", "profitability_cost_stress_pass", "profitability_survivorship_pass"}
    \subseteq EventKinds \ {"paper_sample"}
  BY DEF EventKinds, PrivateKinds, PaperKinds, ShadowKinds, ProfitKinds

LEMMA MessageEvents == \A class : PrivateMessage(class) \in Seq(OtherEvents)
  <1> TAKE class
  <1>1. /\ <<Event("private_event")>> \in Seq(OtherEvents) /\ <<Event("private_redaction")>> \in Seq(OtherEvents)
        /\ <<Event("private_duplicate_idempotency")>> \in Seq(OtherEvents)
        /\ <<Event("private_out_of_order")>> \in Seq(OtherEvents) /\ <<>> \in Seq(OtherEvents)
    BY OneEvent, OtherKinds
  <1> DEFINE m == IF class = "duplicate" THEN <<Event("private_duplicate_idempotency")>>
                  ELSE IF class = "stale" THEN <<Event("private_out_of_order")>> ELSE <<>>
             a == <<Event("private_event")>>
             z == <<Event("private_redaction")>>
  <1>2. m \in Seq(OtherEvents) /\ a \in Seq(OtherEvents) /\ z \in Seq(OtherEvents)
    BY <1>1
  <1>3. PrivateMessage(class) = a \o m \o z
    BY DEF PrivateMessage
  <1> HIDE DEF a, m, z
  <1> QED BY <1>2, <1>3, Concatenated

(* No command but the cycle records a paper sample.                         *)
LEMMA CommandEvents ==
  /\ ReconnectDrill \in Seq(OtherEvents) /\ PrivateQualification \in Seq(OtherEvents)
  /\ ShadowQualification(rows) \in Seq(OtherEvents)
  /\ Backtest \in Seq(OtherEvents) /\ StressPasses \in Seq(OtherEvents)
  <1>1. /\ AuthRequest \in Seq(OtherEvents) /\ <<Event("private_reconnect")>> \in Seq(OtherEvents)
        /\ RestReconciliation \in Seq(OtherEvents) /\ KillSwitchDrill \in Seq(OtherEvents)
        /\ <<Event("live_shadow_reconciliation_pass")>> \in Seq(OtherEvents) /\ <<>> \in Seq(OtherEvents)
    BY OneEvent, OtherKinds DEF AuthRequest, RestReconciliation, KillSwitchDrill
  <1>2. Reconnect \in Seq(OtherEvents) /\ AwaitTermination \in Seq(OtherEvents)
    BY <1>1, Concatenated, MessageEvents DEF Reconnect, AwaitTermination
  <1>3. ReconnectDrill \in Seq(OtherEvents)
    <2>1. AuthRequest \o AwaitTermination \in Seq(OtherEvents)
      BY <1>1, <1>2, Concatenated
    <2> QED BY <1>2, <2>1, Concatenated DEF ReconnectDrill
  <1>4. PrivateQualification \in Seq(OtherEvents)
    <2> DEFINE a == AuthRequest
               b == PrivateMessage("new")
               c == PrivateMessage("duplicate")
               d == PrivateMessage("stale")
               e == RestReconciliation
    <2>1. a \in Seq(OtherEvents) /\ b \in Seq(OtherEvents) /\ c \in Seq(OtherEvents)
          /\ d \in Seq(OtherEvents) /\ e \in Seq(OtherEvents)
      BY <1>1, MessageEvents
    <2>2. PrivateQualification = a \o b \o c \o d \o e
      BY DEF PrivateQualification
    <2> HIDE DEF a, b, c, d, e
    <2>3. a \o b \in Seq(OtherEvents)
      BY <2>1, Concatenated
    <2>4. a \o b \o c \in Seq(OtherEvents)
      BY <2>1, <2>3, Concatenated
    <2>5. a \o b \o c \o d \in Seq(OtherEvents)
      BY <2>1, <2>4, Concatenated
    <2> QED BY <2>1, <2>2, <2>5, Concatenated
  <1>5. ShadowQualification(rows) \in Seq(OtherEvents)
    <2> DEFINE a == IF OfKind(rows, "live_shadow_kill_switch_pass") = {} THEN KillSwitchDrill ELSE <<>>
               b == IF OfKind(rows, "live_shadow_reconciliation_pass") = {} /\ ReconciliationPasses(rows)
                      THEN <<Event("live_shadow_reconciliation_pass")>> ELSE <<>>
    <2>1. a \in Seq(OtherEvents) /\ b \in Seq(OtherEvents)
      BY <1>1
    <2>2. ShadowQualification(rows) = a \o b
      BY DEF ShadowQualification
    <2> HIDE DEF a, b
    <2> QED BY <2>1, <2>2, Concatenated
  <1>6. Backtest \in Seq(OtherEvents)
    <2>1. Event("profitability_sample") \in OtherEvents /\ Event("profitability_oos_pass") \in OtherEvents
      BY PlainEvents, OtherKinds
    <2> QED BY <2>1 DEF Backtest
  <1>7. StressPasses \in Seq(OtherEvents)
    <2>1. /\ Event("paper_cost_stress_pass") \in OtherEvents /\ Event("paper_latency_stress_pass") \in OtherEvents
          /\ Event("paper_oos_pass") \in OtherEvents /\ Event("profitability_leakage_pass") \in OtherEvents
          /\ Event("profitability_cost_stress_pass") \in OtherEvents
          /\ Event("profitability_survivorship_pass") \in OtherEvents
      BY PlainEvents, OtherKinds
    <2> QED BY <2>1 DEF StressPasses
  <1> QED BY <1>3, <1>4, <1>5, <1>6, <1>7

Delta(event) == IF event.decision = "HOLD" THEN 0 ELSE 1

(* What a command is going to record, and what becomes of the adapter.      *)
SampleAhead(todo) == todo # <<>> /\ todo[1].kind = "paper_sample"
Continues(todo, adapter, before) ==
    /\ todo \in Seq(CollectedEvents) /\ adapter \in AdapterStates
    /\ \A k \in 2..Len(todo) : todo[k].kind # "paper_sample"
    /\ SampleAhead(todo) => todo[1].fills = adapter.fills /\ adapter.fills = before + Delta(todo[1])
    /\ ~SampleAhead(todo) => adapter.fills = before

LEMMA Filled ==
  ASSUME NEW a \in AdapterStates, NEW open \in BOOLEAN, NEW n \in {0, 1},
         NEW b, b = [a EXCEPT !.open = open, !.fills = @ + n]
  PROVE  b \in AdapterStates /\ b.fills = a.fills + n
  <1> DEFINE m == a.fills + n
  <1>1. m \in Nat
    BY DEF AdapterStates
  <1>2. b = [a EXCEPT !.open = open, !.fills = m]
    BY DEF AdapterStates
  <1> HIDE DEF m
  <1>3. b \in AdapterStates /\ b.fills = m
    BY <1>1, <1>2 DEF AdapterStates
  <1> QED BY <1>3 DEF m

LEMMA WhatACommandRecords ==
  ASSUME CampaignTypes, NEW p \in Runtimes, NEW command, RunCommand(p, command)
  PROVE  /\ proc[p].pc \in {"ready", "saved"}
         /\ \E todo, adapter : Begin(p, todo, adapter) /\ Continues(todo, adapter, proc[p].adapter.fills)
  <1>1. proc[p].pc \in {"ready", "saved"} /\ proc[p] \in RuntimeStates /\ proc[p].adapter \in AdapterStates
        /\ commands \in Nat
    BY DEF CampaignTypes, RunCommand, RuntimeStates
  <1>2. ASSUME NEW todo \in Seq(OtherEvents), NEW adapter \in AdapterStates, adapter.fills = proc[p].adapter.fills
        PROVE  Continues(todo, adapter, proc[p].adapter.fills)
    <2>1. \A k \in 1..Len(todo) : todo[k] \in CollectedEvents /\ todo[k].kind # "paper_sample"
      BY DEF OtherEvents
    <2>2. todo \in Seq(CollectedEvents)
      BY DEF OtherEvents
    <2>3. ~SampleAhead(todo)
      BY <2>1 DEF SampleAhead
    <2> QED BY <1>2, <2>1, <2>2, <2>3 DEF Continues
  <1>3. CASE StrategyCycle(p)
    <2>1. PICK o \in QuoteOutcomes(proc[p].adapter) :
            Begin(p, <<PaperEvent(o, <<p, commands>>), ShadowEvent(o, <<p, commands>>)>>, o.adapter)
      BY <1>3 DEF StrategyCycle
    <2>2. /\ o.decision \in {"HOLD", "LONG", "EXIT"} /\ o.adapter \in AdapterStates
          /\ o.adapter.fills = proc[p].adapter.fills + (IF o.decision = "HOLD" THEN 0 ELSE 1)
      <3>1. PICK n \in {0, 1}, open \in BOOLEAN, d \in {"HOLD", "LONG", "EXIT"} :
              /\ o = [decision |-> d, adapter |-> [proc[p].adapter EXCEPT !.open = open, !.fills = @ + n]]
              /\ n = IF d = "HOLD" THEN 0 ELSE 1
        <4> DEFINE a == proc[p].adapter
                   to(d, open, n) == [decision |-> d, adapter |-> [a EXCEPT !.open = open, !.fills = @ + n]]
        <4>1. \/ o = to("HOLD", a.open, 0) \/ o = to("LONG", TRUE, 1)
              \/ o = to("EXIT", TRUE, 1) \/ o = to("EXIT", FALSE, 1)
          BY <2>1 DEF QuoteOutcomes
        <4>2. a.open \in BOOLEAN
          BY <1>1 DEF AdapterStates
        <4> QED BY <4>1, <4>2
      <3>2. o.decision = d /\ o.adapter = [proc[p].adapter EXCEPT !.open = open, !.fills = @ + n]
        BY <3>1
      <3>3. o.adapter \in AdapterStates /\ o.adapter.fills = proc[p].adapter.fills + n
        <4> DEFINE a == proc[p].adapter
        <4>1. a \in AdapterStates /\ o.adapter = [a EXCEPT !.open = open, !.fills = @ + n]
          BY <1>1, <3>2
        <4> HIDE DEF a
        <4>2. o.adapter \in AdapterStates /\ o.adapter.fills = a.fills + n
          BY <4>1, Filled
        <4> QED BY <4>2 DEF a
      <3> QED BY <3>1, <3>2, <3>3
    <2> DEFINE e == PaperEvent(o, <<p, commands>>)
               f == ShadowEvent(o, <<p, commands>>)
    <2>3. /\ e \in CollectedEvents /\ e.kind = "paper_sample" /\ e.fills = o.adapter.fills /\ e.decision = o.decision
          /\ f \in CollectedEvents /\ f.kind # "paper_sample"
      <3>1. o.adapter.fills \in Nat /\ "paper_sample" \in EventKinds /\ "live_shadow_observation" \in EventKinds
        BY <2>2 DEF AdapterStates, EventKinds, PaperKinds, ShadowKinds
      <3> QED BY <1>1, <2>2, <3>1 DEF PaperEvent, ShadowEvent, CollectedEvents
    <2> HIDE DEF e, f
    <2>4. Continues(<<e, f>>, o.adapter, proc[p].adapter.fills)
      BY <2>2, <2>3 DEF Continues, SampleAhead, Delta
    <2> QED BY <1>1, <2>1, <2>4 DEF e, f
  <1>4. CASE Begin(p, ReconnectDrill, [proc[p].adapter EXCEPT !.terminated = TRUE])
    <2>1. /\ [proc[p].adapter EXCEPT !.terminated = TRUE] \in AdapterStates
          /\ [proc[p].adapter EXCEPT !.terminated = TRUE].fills = proc[p].adapter.fills
      BY <1>1 DEF AdapterStates
    <2> QED BY <1>1, <1>2, <1>4, <2>1, CommandEvents
  <1>5. ASSUME NEW todo \in {PrivateQualification, ShadowQualification(rows), Backtest, StressPasses},
               Begin(p, todo, proc[p].adapter)
        PROVE  \E t, adapter : Begin(p, t, adapter) /\ Continues(t, adapter, proc[p].adapter.fills)
    <2>1. todo \in Seq(OtherEvents)
      BY CommandEvents
    <2> QED BY <1>1, <1>2, <1>5, <2>1
  <1> QED BY <1>1, <1>3, <1>4, <1>5 DEF RunCommand

LEMMA IdleIsTyped ==
  /\ FreshAdapter \in AdapterStates /\ IdleProc \in RuntimeStates
  /\ \A a \in AdapterStates : [IdleProc EXCEPT !.pc = "ready", !.adapter = a] \in RuntimeStates
  <1>1. FreshAdapter \in AdapterStates
    BY DEF FreshAdapter, AdapterStates
  <1>2. IdleProc \in RuntimeStates
    BY <1>1 DEF IdleProc, RuntimeStates
  <1>3. \A a \in AdapterStates : [IdleProc EXCEPT !.pc = "ready", !.adapter = a] \in RuntimeStates
    BY <1>2 DEF RuntimeStates
  <1> QED BY <1>1, <1>2, <1>3

LEMMA CampaignInitTypes == CampaignInit => CampaignTypes
  <1> SUFFICES ASSUME CampaignInit PROVE CampaignTypes
    OBVIOUS
  <1>1. /\ rows = <<>> /\ state = NoFile /\ proc = [p \in Runtimes |-> IdleProc]
        /\ audit = 0 /\ commands = 0
    BY DEF CampaignInit
  <1>2. rows \in Seq(CollectedRows)
    BY <1>1
  <1>3. proc \in [Runtimes -> RuntimeStates]
    BY <1>1, IdleIsTyped
  <1> QED BY <1>1, <1>2, <1>3 DEF CampaignTypes

(* What each step does to the rows and to the runtimes.                     *)
Grows(row) == rows' = Append(rows, row) /\ row \in CollectedRows

LEMMA RuntimeMoves ==
  ASSUME CampaignTypes, NEW p \in Runtimes, NEW r, proc' = [proc EXCEPT ![p] = r], r \in RuntimeStates,
         rows' \in Seq(CollectedRows), state' \in {NoFile} \cup SavedStates, audit' \in Nat, commands' \in Nat
  PROVE  CampaignTypes' /\ proc'[p] = r /\ \A q \in Runtimes \ {p} : proc'[q] = proc[q]
  BY DEF CampaignTypes

LEMMA ContextMoves ==
  ASSUME CampaignTypes, NEW p \in Runtimes, Context(p)
  PROVE  /\ CampaignTypes' /\ Chained(rows) /\ MayStart /\ UNCHANGED <<rows, state>>
         /\ \A q \in Runtimes \ {p} : proc'[q] = proc[q]
         /\ proc'[p].pc = "ready" /\ proc'[p].adapter = RestoredAdapter
  <1>1. RestoredAdapter \in AdapterStates
    BY IdleIsTyped DEF RestoredAdapter, CampaignTypes, SavedStates
  <1> DEFINE r == [IdleProc EXCEPT !.pc = "ready", !.adapter = RestoredAdapter]
  <1>2. /\ proc' = [proc EXCEPT ![p] = r] /\ Chained(rows) /\ MayStart
        /\ UNCHANGED <<rows, state, audit, commands>>
    BY DEF Context, Loads
  <1>3. r \in RuntimeStates /\ r.pc = "ready" /\ r.adapter = RestoredAdapter
    <2> HIDE DEF r
    <2>1. r \in RuntimeStates
      BY <1>1, IdleIsTyped DEF r
    <2>2. r.pc = "ready" /\ r.adapter = RestoredAdapter
      BY DEF r, IdleProc
    <2> QED BY <2>1, <2>2
  <1> HIDE DEF r
  <1>4. rows \in Seq(CollectedRows) /\ state \in {NoFile} \cup SavedStates /\ audit \in Nat /\ commands \in Nat
    BY DEF CampaignTypes
  <1> QED BY <1>2, <1>3, <1>4, RuntimeMoves

LEMMA CommandMoves ==
  ASSUME CampaignTypes, NEW p \in Runtimes, NEW c, RunCommand(p, c)
  PROVE  /\ CampaignTypes' /\ UNCHANGED <<rows, state, audit>>
         /\ \A q \in Runtimes \ {p} : proc'[q] = proc[q]
         /\ proc[p].pc \in {"ready", "saved"} /\ proc'[p].pc = "emit"
         /\ Continues(proc'[p].todo, proc'[p].adapter, proc[p].adapter.fills)
  <1>1. PICK todo, adapter : Begin(p, todo, adapter) /\ Continues(todo, adapter, proc[p].adapter.fills)
    BY WhatACommandRecords
  <1>2. proc[p].pc \in {"ready", "saved"}
    BY WhatACommandRecords
  <1> DEFINE r == [proc[p] EXCEPT !.pc = "emit", !.todo = todo, !.adapter = adapter]
  <1>3. /\ proc' = [proc EXCEPT ![p] = r] /\ commands' = commands + 1 /\ UNCHANGED <<rows, state, audit>>
    BY <1>1 DEF Begin
  <1>4. r \in RuntimeStates /\ r.pc = "emit" /\ r.todo = todo /\ r.adapter = adapter
    <2>1. proc[p] \in RuntimeStates /\ todo \in Seq(CollectedEvents) /\ adapter \in AdapterStates
      BY <1>1 DEF CampaignTypes, Continues
    <2> QED BY <2>1 DEF RuntimeStates
  <1> HIDE DEF r
  <1>5. /\ rows \in Seq(CollectedRows) /\ state \in {NoFile} \cup SavedStates /\ audit \in Nat
        /\ commands + 1 \in Nat
    BY DEF CampaignTypes
  <1> QED BY <1>1, <1>2, <1>3, <1>4, <1>5, RuntimeMoves

LEMMA ReadMoves ==
  ASSUME CampaignTypes, NEW p \in Runtimes, ReadForAppend(p) \/ SaveRead(p)
  PROVE  /\ CampaignTypes' /\ Chained(rows) /\ UNCHANGED <<rows, state, audit>>
         /\ \A q \in Runtimes \ {p} : proc'[q] = proc[q]
         /\ proc[p].pc = "emit" /\ proc'[p].seen = Len(rows)
         /\ proc'[p].todo = proc[p].todo /\ proc'[p].adapter = proc[p].adapter
         /\ ReadForAppend(p) => proc[p].todo # <<>> /\ proc'[p].pc = "persist"
         /\ SaveRead(p) => proc[p].todo = <<>> /\ proc'[p].pc = "save"
  <1>1. PICK at \in {"persist", "save"} :
          /\ proc' = [proc EXCEPT ![p].pc = at, ![p].seen = Len(rows)]
          /\ ReadForAppend(p) => proc[p].todo # <<>> /\ at = "persist"
          /\ SaveRead(p) => proc[p].todo = <<>> /\ at = "save"
    BY DEF ReadForAppend, SaveRead
  <1> DEFINE r == [proc[p] EXCEPT !.pc = at, !.seen = Len(rows)]
  <1>2. /\ proc[p] \in RuntimeStates /\ rows \in Seq(CollectedRows) /\ Len(rows) \in Nat
        /\ state \in {NoFile} \cup SavedStates /\ audit \in Nat /\ commands \in Nat /\ p \in DOMAIN proc
    BY DEF CampaignTypes
  <1>3. proc' = [proc EXCEPT ![p] = r]
    BY <1>1, <1>2
  <1>4. /\ r \in RuntimeStates /\ r.pc = at /\ r.seen = Len(rows) /\ r.todo = proc[p].todo
        /\ r.adapter = proc[p].adapter
    BY <1>2 DEF RuntimeStates
  <1>5. proc[p].pc = "emit" /\ Chained(rows) /\ UNCHANGED <<rows, state, audit, commands>>
    BY DEF ReadForAppend, SaveRead, Loads
  <1> HIDE DEF r
  <1> QED BY <1>1, <1>2, <1>3, <1>4, <1>5, RuntimeMoves

LEMMA PersistMoves ==
  ASSUME CampaignTypes, NEW p \in Runtimes, PersistEvent(p) \/ CutOffAppend(p), proc[p].todo # <<>>
  PROVE  /\ CampaignTypes' /\ UNCHANGED <<state, audit>>
         /\ \A q \in Runtimes \ {p} : proc'[q] = proc[q]
         /\ \E row : /\ Grows(row) /\ row.event = proc[p].todo[1] /\ row.attested
         /\ proc[p].pc = "persist"
         /\ \/ proc'[p].pc = "idle"
            \/ /\ proc'[p].pc = "emit" /\ proc'[p].todo = Tail(proc[p].todo)
               /\ proc'[p].adapter = proc[p].adapter
  <1> DEFINE r == proc[p]
             row == Row(Head(r.todo), r.seen, TRUE)
             cut == [row EXCEPT !.whole = FALSE]
             next == [r EXCEPT !.pc = "emit", !.todo = Tail(@)]
  <1>1. /\ r \in RuntimeStates /\ rows \in Seq(CollectedRows) /\ p \in DOMAIN proc
        /\ state \in {NoFile} \cup SavedStates /\ audit \in Nat /\ commands \in Nat
    BY DEF CampaignTypes
  <1>2. r.todo \in Seq(CollectedEvents) /\ r.todo # <<>> /\ r.seen \in Nat
    BY <1>1 DEF RuntimeStates
  <1>3. Head(r.todo) = r.todo[1] /\ r.todo[1] \in CollectedEvents /\ Tail(r.todo) \in Seq(CollectedEvents)
    <2> HIDE DEF r
    <2> QED BY <1>2
  <1>4. /\ row \in CollectedRows /\ row.event = r.todo[1] /\ row.attested
        /\ cut \in CollectedRows /\ cut.event = r.todo[1] /\ cut.attested
    <2> HIDE DEF r
    <2>1. row = [event |-> r.todo[1], prev |-> r.seen, attested |-> TRUE, whole |-> TRUE]
      BY <1>3 DEF Row
    <2> HIDE DEF row
    <2>2. row \in CollectedRows /\ row.event = r.todo[1] /\ row.attested
      BY <1>2, <1>3, <2>1 DEF CollectedRows
    <2>3. cut \in CollectedRows /\ cut.event = row.event /\ cut.attested = row.attested
      BY <2>2 DEF CollectedRows
    <2> QED BY <2>2, <2>3
  <1>5. /\ next \in RuntimeStates /\ next.pc = "emit" /\ next.todo = Tail(r.todo) /\ next.adapter = r.adapter
    BY <1>1, <1>3 DEF RuntimeStates
  <1>6. /\ r.pc = "persist" /\ UNCHANGED <<state, audit, commands>>
        /\ \/ rows' = Append(rows, row) /\ proc' = [proc EXCEPT ![p] = next]
           \/ rows' = Append(rows, cut) /\ proc' = [proc EXCEPT ![p] = IdleProc]
    BY <1>1 DEF PersistEvent, CutOffAppend
  <1> HIDE DEF r, row, cut, next
  <1>7. rows' \in Seq(CollectedRows) /\ \E x : Grows(x) /\ x.event = r.todo[1] /\ x.attested
    <2>1. \E x \in {row, cut} : rows' = Append(rows, x)
      BY <1>6
    <2>2. PICK x \in CollectedRows : rows' = Append(rows, x) /\ x.event = r.todo[1] /\ x.attested
      BY <1>4, <2>1
    <2>3. rows' \in Seq(CollectedRows)
      BY <1>1, <2>2
    <2> QED BY <2>2, <2>3 DEF Grows
  <1>8. IdleProc \in RuntimeStates /\ IdleProc.pc = "idle"
    BY IdleIsTyped DEF IdleProc
  <1>9. CASE proc' = [proc EXCEPT ![p] = next]
    BY <1>1, <1>5, <1>6, <1>7, <1>9, RuntimeMoves DEF r
  <1>10. CASE proc' = [proc EXCEPT ![p] = IdleProc]
    BY <1>1, <1>6, <1>7, <1>8, <1>10, RuntimeMoves DEF r
  <1> QED BY <1>6, <1>9, <1>10

LEMMA SaveMoves ==
  ASSUME CampaignTypes, NEW p \in Runtimes, SaveWrite(p)
  PROVE  /\ CampaignTypes' /\ UNCHANGED <<rows, audit>>
         /\ state'.last = proc[p].seen /\ state'.adapter = proc[p].adapter
         /\ \A q \in Runtimes \ {p} : proc'[q] = proc[q]
         /\ proc[p].pc = "save" /\ proc'[p].pc = "saved" /\ proc'[p].adapter = proc[p].adapter
  <1> DEFINE r == [proc[p] EXCEPT !.pc = "saved"]
  <1>1. /\ proc[p] \in RuntimeStates /\ rows \in Seq(CollectedRows) /\ p \in DOMAIN proc
        /\ audit \in Nat /\ commands \in Nat
    BY DEF CampaignTypes
  <1>2. /\ proc' = [proc EXCEPT ![p] = r] /\ state' = [last |-> proc[p].seen, adapter |-> proc[p].adapter]
        /\ proc[p].pc = "save" /\ UNCHANGED <<rows, audit, commands>>
    BY <1>1 DEF SaveWrite, Snapshot
  <1>3. r \in RuntimeStates /\ r.pc = "saved" /\ r.adapter = proc[p].adapter
    BY <1>1 DEF RuntimeStates
  <1>4. state' \in SavedStates
    BY <1>1, <1>2 DEF RuntimeStates, SavedStates
  <1> HIDE DEF r
  <1> QED BY <1>1, <1>2, <1>3, <1>4, RuntimeMoves

LEMMA EndMoves ==
  ASSUME CampaignTypes, NEW p \in Runtimes, End(p)
  PROVE  /\ CampaignTypes' /\ UNCHANGED <<rows, state, audit>> /\ proc'[p].pc = "idle"
         /\ \A q \in Runtimes \ {p} : proc'[q] = proc[q]
  <1>1. /\ proc' = [proc EXCEPT ![p] = IdleProc] /\ UNCHANGED <<rows, state, audit, commands>>
        /\ IdleProc.pc = "idle" /\ IdleProc \in RuntimeStates
    BY IdleIsTyped DEF End, IdleProc
  <1>2. /\ rows \in Seq(CollectedRows) /\ state \in {NoFile} \cup SavedStates /\ audit \in Nat /\ commands \in Nat
    BY DEF CampaignTypes
  <1> QED BY <1>1, <1>2, RuntimeMoves

(* An unattested row: the header, or what an audit command appends.         *)
Unattested == InitializeCollection \/ CollectMarketAudit \/ KillSwitchAudit \/ IngestAudit

LEMMA AuditMoves ==
  ASSUME CampaignTypes, Unattested
  PROVE  /\ CampaignTypes' /\ UNCHANGED <<state, proc>> /\ \E row : Grows(row) /\ ~row.attested
         /\ \/ rows = <<>> /\ UNCHANGED audit /\ rows'[1].prev = 0 /\ rows'[1].whole
            \/ audit > 0 /\ audit' = 0
  <1>1. /\ rows \in Seq(CollectedRows) /\ state \in {NoFile} \cup SavedStates /\ audit \in Nat
        /\ proc \in [Runtimes -> RuntimeStates] /\ commands \in Nat
    BY DEF CampaignTypes
  <1>2. ASSUME NEW kind \in EventKinds \cup {"header"}, NEW prev \in Nat
        PROVE  /\ Row(Event(kind), prev, FALSE) \in CollectedRows /\ ~Row(Event(kind), prev, FALSE).attested
               /\ Row(Event(kind), prev, FALSE).prev = prev /\ Row(Event(kind), prev, FALSE).whole
    <2>1. Event(kind) \in CollectedEvents
      BY PlainEvents
    <2> QED BY <2>1 DEF Row, CollectedRows
  <1>3. CASE InitializeCollection
    <2> DEFINE row == Row(Event("header"), 0, FALSE)
    <2>1. row \in CollectedRows /\ ~row.attested /\ row.prev = 0 /\ row.whole
      BY <1>2
    <2>2. rows = <<>> /\ rows' = <<row>> /\ UNCHANGED <<state, proc, audit, commands>>
      BY <1>3 DEF InitializeCollection
    <2> HIDE DEF row
    <2>3. rows' = Append(rows, row) /\ rows' \in Seq(CollectedRows) /\ rows'[1] = row
      BY <2>1, <2>2
    <2> QED BY <1>1, <2>1, <2>2, <2>3 DEF Grows, CampaignTypes
  <1>4. ASSUME NEW kind \in EventKinds, AuditPersist(kind)
        PROVE  /\ CampaignTypes' /\ UNCHANGED <<state, proc>> /\ \E row : Grows(row) /\ ~row.attested
               /\ audit > 0 /\ audit' = 0
    <2> DEFINE row == Row(Event(kind), audit, FALSE)
    <2>1. row \in CollectedRows /\ ~row.attested
      BY <1>1, <1>2
    <2>2. rows' = Append(rows, row) /\ audit > 0 /\ audit' = 0 /\ UNCHANGED <<state, proc, commands>>
      BY <1>4 DEF AuditPersist
    <2> HIDE DEF row
    <2>3. rows' \in Seq(CollectedRows)
      BY <1>1, <2>1, <2>2
    <2> QED BY <1>1, <2>1, <2>2, <2>3 DEF Grows, CampaignTypes
  <1>5. /\ "live_shadow_observation" \in EventKinds /\ "live_shadow_kill_switch_pass" \in EventKinds
        /\ AuditKinds \subseteq EventKinds
    BY CampaignAssumption DEF EventKinds, ShadowKinds
  <1> QED BY <1>3, <1>4, <1>5 DEF Unattested, CollectMarketAudit, KillSwitchAudit, IngestAudit

(* The steps that leave the rows, the state and the runtimes alone.         *)
Elsewhere == AuditRead \/ SealStart \/ WriteSealedSource \/ WriteReceipt \/ SealCrash \/ NewChallenge

LEMMA ElsewhereMoves ==
  ASSUME CampaignTypes, Elsewhere \/ UNCHANGED campaignVars
  PROVE  /\ CampaignTypes' /\ UNCHANGED <<rows, state, proc>>
         /\ UNCHANGED audit \/ Chained(rows)
  <1>1. /\ rows \in Seq(CollectedRows) /\ state \in {NoFile} \cup SavedStates /\ audit \in Nat
        /\ proc \in [Runtimes -> RuntimeStates] /\ commands \in Nat /\ Len(rows) \in Nat
    BY DEF CampaignTypes
  <1>2. UNCHANGED <<rows, state, proc, commands>> /\ (UNCHANGED audit \/ (Chained(rows) /\ audit' = Len(rows)))
    BY DEF Elsewhere, AuditRead, SealStart, WriteSealedSource, WriteReceipt, SealCrash, NewChallenge,
           campaignVars, Loads
  <1> QED BY <1>1, <1>2 DEF CampaignTypes

LEMMA EveryStep ==
  ASSUME [CampaignNext]_campaignVars
  PROVE  \/ Unattested \/ Elsewhere \/ UNCHANGED campaignVars
         \/ \E p \in Runtimes :
               \/ Context(p) \/ SaveWrite(p) \/ End(p) \/ ReadForAppend(p) \/ SaveRead(p)
               \/ PersistEvent(p) \/ CutOffAppend(p) \/ \E c \in Commands : RunCommand(p, c)
  BY DEF CampaignNext, Unattested, Elsewhere

(* A beginning of the collection in which every record continues the one    *)
(* before it.                                                               *)
IntactIn(rs, n) == n \in 0..Len(rs) /\ \A i \in 1..n : rs[i].prev = i - 1 /\ rs[i].whole
BrokenAt(rs, i) == rs[i].prev # i - 1 \/ ~rs[i].whole

(* Whoever has read the collection and not yet appended.                    *)
Persisting == {p \in Runtimes : proc[p].pc = "persist"}
AuditInFlight == IF audit > 0 THEN 1 ELSE 0
InFlight == Cardinality(Persisting) + AuditInFlight

FrozenOK ==
    /\ IntactIn(rows, source)
    /\ state # NoFile => IntactIn(rows, state.last)
    /\ \A p \in Runtimes : /\ proc[p].pc = "save" => IntactIn(rows, proc[p].seen)
                           /\ proc[p].pc = "persist" => proc[p].todo # <<>>
    /\ \A i \in DOMAIN rows : BrokenAt(rows, i) => Len(rows) - i + InFlight <= Cardinality(Runtimes)

LEMMA ChainedIsIntact ==
  ASSUME CampaignTypes, Chained(rows)
  PROVE  IntactIn(rows, Len(rows)) /\ \A i \in DOMAIN rows : ~BrokenAt(rows, i)
  <1>1. Len(rows) \in Nat /\ DOMAIN rows = 1..Len(rows)
    BY DEF CampaignTypes
  <1> QED BY <1>1 DEF Chained, IntactIn, BrokenAt

LEMMA RowAppended ==
  ASSUME CampaignTypes, NEW row, Grows(row)
  PROVE  /\ Len(rows) \in Nat /\ Len(rows') = Len(rows) + 1 /\ DOMAIN rows = 1..Len(rows)
         /\ DOMAIN rows' = 1..(Len(rows) + 1) /\ rows'[Len(rows) + 1] = row
         /\ \A i \in 1..Len(rows) : rows'[i] = rows[i]
         /\ \A n : IntactIn(rows, n) => IntactIn(rows', n)
  <1>1. /\ Len(rows) \in Nat /\ Len(rows') = Len(rows) + 1 /\ DOMAIN rows = 1..Len(rows)
        /\ DOMAIN rows' = 1..(Len(rows) + 1) /\ rows'[Len(rows) + 1] = row
        /\ \A i \in 1..Len(rows) : rows'[i] = rows[i]
    BY DEF CampaignTypes, Grows
  <1>2. ASSUME NEW n, IntactIn(rows, n) PROVE IntactIn(rows', n)
    BY <1>1, <1>2 DEF IntactIn
  <1> QED BY <1>1, <1>2

LEMMA InFlightLess ==
  ASSUME CampaignTypes, IsFiniteSet(Runtimes), NEW p \in Runtimes,
         \A q \in Runtimes \ {p} : proc'[q] = proc[q], proc'[p].pc # "persist"
  PROVE  /\ Cardinality(Persisting) \in Nat /\ Cardinality(Persisting') \in Nat
         /\ Cardinality(Persisting) <= Cardinality(Runtimes) /\ Cardinality(Runtimes) \in Nat
         /\ Cardinality(Persisting') <= Cardinality(Persisting)
         /\ proc[p].pc = "persist" => Cardinality(Persisting') + 1 = Cardinality(Persisting)
  <1>1. Persisting' = Persisting \ {p} /\ Persisting \subseteq Runtimes
    BY DEF Persisting
  <1>2. IsFiniteSet(Persisting) /\ Cardinality(Persisting) <= Cardinality(Runtimes)
    BY <1>1, FS_Subset
  <1>3. /\ Cardinality(Persisting \ {p}) = IF p \in Persisting THEN Cardinality(Persisting) - 1 ELSE Cardinality(Persisting)
        /\ IsFiniteSet(Persisting \ {p})
    BY <1>2, FS_RemoveElement
  <1>4. Cardinality(Persisting) \in Nat /\ Cardinality(Persisting') \in Nat /\ Cardinality(Runtimes) \in Nat
    BY <1>1, <1>2, <1>3, FS_CardinalityType
  <1>5. proc[p].pc = "persist" => p \in Persisting
    BY DEF Persisting
  <1> QED BY <1>1, <1>2, <1>3, <1>4, <1>5

LEMMA InFlightBounded ==
  ASSUME CampaignTypes, IsFiniteSet(Runtimes)
  PROVE  /\ Cardinality(Persisting) \in Nat /\ Cardinality(Persisting) <= Cardinality(Runtimes)
         /\ Cardinality(Runtimes) \in Nat /\ AuditInFlight \in {0, 1}
  <1>1. Persisting \subseteq Runtimes /\ AuditInFlight \in {0, 1}
    BY DEF Persisting, AuditInFlight
  <1>2. IsFiniteSet(Persisting) /\ Cardinality(Persisting) <= Cardinality(Runtimes)
    BY <1>1, FS_Subset
  <1> QED BY <1>1, <1>2, FS_CardinalityType

LEMMA OneFewer ==
  ASSUME NEW l \in Nat, NEW longer, longer = l + 1, NEW i \in 1..(l + 1), NEW most \in Nat,
         NEW m \in Nat, NEW n \in Nat, n + 1 = m, m <= most + 1,
         i = l + 1 \/ l - i + m <= most
  PROVE  longer - i + n <= most
  OBVIOUS

(* The row of a writer that had read: the chain breaks, if it does, where   *)
(* one writer fewer is left, and whoever comes after it is one fewer too.   *)
LEMMA BreakIsBounded ==
  ASSUME CampaignTypes, CampaignTypes', FrozenOK, IsFiniteSet(Runtimes), NEW row, Grows(row),
         InFlight' + 1 = InFlight \/ (rows = <<>> /\ ~BrokenAt(rows', 1))
  PROVE  \A i \in DOMAIN rows' : BrokenAt(rows', i) => Len(rows') - i + InFlight' <= Cardinality(Runtimes)
  <1>1. /\ Len(rows) \in Nat /\ Len(rows') = Len(rows) + 1 /\ DOMAIN rows = 1..Len(rows)
        /\ DOMAIN rows' = 1..(Len(rows) + 1) /\ \A i \in 1..Len(rows) : rows'[i] = rows[i]
    BY RowAppended
  <1>2. /\ Cardinality(Persisting) \in Nat /\ Cardinality(Persisting) <= Cardinality(Runtimes)
        /\ Cardinality(Runtimes) \in Nat /\ AuditInFlight \in {0, 1}
    BY InFlightBounded
  <1>3. InFlight \in Nat /\ InFlight <= Cardinality(Runtimes) + 1
    BY <1>2 DEF InFlight
  <1>4. CASE rows = <<>> /\ ~BrokenAt(rows', 1)
    BY <1>1, <1>4
  <1>5. CASE InFlight' + 1 = InFlight
    <2> SUFFICES ASSUME NEW i \in 1..(Len(rows) + 1), BrokenAt(rows', i)
                 PROVE  Len(rows') - i + InFlight' <= Cardinality(Runtimes)
      BY <1>1
    <2>1. Cardinality(Persisting)' \in Nat /\ AuditInFlight' \in {0, 1}
      <3>1. Persisting' \subseteq Runtimes /\ AuditInFlight' \in {0, 1}
        BY DEF Persisting, AuditInFlight
      <3>2. IsFiniteSet(Persisting')
        BY <3>1, FS_Subset
      <3> QED BY <3>1, <3>2, FS_CardinalityType
    <2>2. InFlight' \in Nat
      BY <2>1 DEF InFlight
    <2>5. Len(rows) \in Nat /\ Len(rows') = Len(rows) + 1
      BY <1>1
    <2>3. CASE i \in 1..Len(rows)
      <3>1. Len(rows) - i + InFlight <= Cardinality(Runtimes)
        BY <1>1, <2>3 DEF FrozenOK, BrokenAt
      <3> QED BY <1>2, <1>3, <1>5, <2>2, <2>3, <2>5, <3>1, OneFewer
    <2>4. CASE i = Len(rows) + 1
      <3> DEFINE m == InFlight
                 n == InFlight'
                 most == Cardinality(Runtimes)
      <3>0. m \in Nat /\ n \in Nat /\ most \in Nat /\ n + 1 = m /\ m <= most + 1
        BY <1>2, <1>3, <1>5, <2>2
      <3> HIDE DEF m, n, most
      <3>4. n <= most
        BY <3>0
      <3>1. Cardinality(Runtimes) \in Nat /\ InFlight' <= Cardinality(Runtimes)
        BY <3>0, <3>4 DEF n, most
      <3>2. Len(rows') - i = 0
        BY <2>4, <2>5
      <3> QED BY <2>2, <3>1, <3>2
    <2> QED BY <1>1, <2>3, <2>4
  <1> QED BY <1>4, <1>5

LEMMA FrozenInit == CampaignInit => FrozenOK
  BY DEF CampaignInit, FrozenOK, IntactIn, IdleProc

LEMMA FrozenNext ==
  ASSUME CampaignTypes, FrozenOK, IsFiniteSet(Runtimes), [CampaignNext]_campaignVars
  PROVE  CampaignTypes' /\ FrozenOK'
  <1>1. source' = source \/ (Chained(rows) /\ source' = Len(rows) /\ WriteSealedSource)
    BY DEF CampaignNext, campaignVars, InitializeCollection, Context, RunCommand, StrategyCycle, Begin, ReadForAppend,
           PersistEvent, SaveRead, SaveWrite, End, CutOffAppend, AuditRead, CollectMarketAudit, KillSwitchAudit,
           IngestAudit, AuditPersist, SealStart, WriteSealedSource, WriteReceipt, SealCrash, NewChallenge, Loads
  <1>2. IntactIn(rows, source')
    BY <1>1, ChainedIsIntact DEF FrozenOK
  <1>3. ASSUME UNCHANGED rows, CampaignTypes', InFlight' <= InFlight \/ Chained(rows)
        PROVE  \A i \in DOMAIN rows' : BrokenAt(rows', i) => Len(rows') - i + InFlight' <= Cardinality(Runtimes)
    <2>1. CASE Chained(rows)
      BY <1>3, <2>1, ChainedIsIntact
    <2>2. CASE InFlight' <= InFlight
      <3>1. Len(rows) \in Nat /\ DOMAIN rows = 1..Len(rows)
        BY DEF CampaignTypes
      <3>2. /\ Cardinality(Persisting) \in Nat /\ Cardinality(Runtimes) \in Nat /\ AuditInFlight \in {0, 1}
        BY InFlightBounded
      <3>3. Cardinality(Persisting)' \in Nat /\ AuditInFlight' \in {0, 1}
        <4>1. Persisting' \subseteq Runtimes /\ AuditInFlight' \in {0, 1}
          BY DEF Persisting, AuditInFlight
        <4> QED BY <4>1, FS_Subset, FS_CardinalityType
      <3>4. InFlight \in Nat /\ InFlight' \in Nat
        BY <3>2, <3>3 DEF InFlight
      <3>5. ASSUME NEW i \in 1..Len(rows), BrokenAt(rows, i)
            PROVE  Len(rows) - i + InFlight' <= Cardinality(Runtimes)
        <4>1. Len(rows) - i + InFlight <= Cardinality(Runtimes)
          BY <3>1, <3>5 DEF FrozenOK
        <4> QED BY <2>2, <3>1, <3>2, <3>4, <4>1
      <3> QED BY <1>3, <3>1, <3>5
    <2> QED BY <1>3, <2>1, <2>2
  <1>4. ASSUME NEW row, Grows(row), UNCHANGED state
        PROVE  /\ IntactIn(rows', source') /\ (state' # NoFile => IntactIn(rows', state'.last))
               /\ \A q \in Runtimes : proc[q].pc = "save" => IntactIn(rows', proc[q].seen)
    BY <1>2, <1>4, RowAppended DEF FrozenOK
  <1>5. CASE Unattested
    <2>1. /\ CampaignTypes' /\ UNCHANGED <<state, proc>>
          /\ \/ rows = <<>> /\ UNCHANGED audit /\ rows'[1].prev = 0 /\ rows'[1].whole
             \/ audit > 0 /\ audit' = 0
      BY <1>5, AuditMoves
    <2>2. PICK row : Grows(row)
      BY <1>5, AuditMoves
    <2>3. InFlight' + 1 = InFlight \/ (rows = <<>> /\ ~BrokenAt(rows', 1))
      <3>1. CASE audit > 0 /\ audit' = 0
        <4>1. Persisting' = Persisting /\ AuditInFlight' = 0 /\ AuditInFlight = 1
          BY <2>1, <3>1 DEF Persisting, AuditInFlight
        <4>2. Cardinality(Persisting) \in Nat
          BY InFlightBounded
        <4> QED BY <4>1, <4>2 DEF InFlight
      <3>2. CASE rows = <<>> /\ rows'[1].prev = 0 /\ rows'[1].whole
        BY <3>2 DEF BrokenAt
      <3> QED BY <2>1, <3>1, <3>2
    <2>4. \A i \in DOMAIN rows' : BrokenAt(rows', i) => Len(rows') - i + InFlight' <= Cardinality(Runtimes)
      BY <2>1, <2>2, <2>3, BreakIsBounded
    <2>5. \A q \in Runtimes : proc[q].pc = "persist" => proc[q].todo # <<>>
      BY DEF FrozenOK
    <2> QED BY <1>4, <2>1, <2>2, <2>4, <2>5 DEF FrozenOK
  <1>6. CASE Elsewhere \/ UNCHANGED campaignVars
    <2>1. CampaignTypes' /\ UNCHANGED <<rows, state, proc>> /\ (UNCHANGED audit \/ Chained(rows))
      BY <1>6, ElsewhereMoves
    <2>2. InFlight' <= InFlight \/ Chained(rows)
      <3>1. UNCHANGED audit => InFlight' = InFlight
        BY <2>1 DEF InFlight, Persisting, AuditInFlight
      <3>2. InFlight \in Nat
        BY InFlightBounded DEF InFlight
      <3> QED BY <2>1, <3>1, <3>2
    <2>3. \A i \in DOMAIN rows' : BrokenAt(rows', i) => Len(rows') - i + InFlight' <= Cardinality(Runtimes)
      BY <1>3, <2>1, <2>2
    <2> QED BY <1>2, <2>1, <2>3 DEF FrozenOK
  <1>7. ASSUME NEW p \in Runtimes, \A q \in Runtimes \ {p} : proc'[q] = proc[q], UNCHANGED <<rows, audit>>, CampaignTypes',
               proc'[p].pc = "persist" => Chained(rows) /\ proc'[p].todo # <<>>,
               proc'[p].pc = "save" => IntactIn(rows, proc'[p].seen),
               state' # NoFile => IntactIn(rows, state'.last)
        PROVE  FrozenOK'
    <2>1. InFlight' <= InFlight \/ Chained(rows)
      <3>1. CASE proc'[p].pc # "persist"
        <4>1. /\ Cardinality(Persisting) \in Nat /\ Cardinality(Persisting') \in Nat
              /\ Cardinality(Persisting') <= Cardinality(Persisting)
          BY <1>7, <3>1, InFlightLess
        <4>2. AuditInFlight' = AuditInFlight /\ AuditInFlight \in {0, 1}
          BY <1>7 DEF AuditInFlight
        <4> QED BY <4>1, <4>2 DEF InFlight
      <3> QED BY <1>7, <3>1
    <2>2. \A i \in DOMAIN rows' : BrokenAt(rows', i) => Len(rows') - i + InFlight' <= Cardinality(Runtimes)
      BY <1>3, <1>7, <2>1
    <2>3. \A q \in Runtimes : /\ proc'[q].pc = "save" => IntactIn(rows, proc'[q].seen)
                              /\ proc'[q].pc = "persist" => proc'[q].todo # <<>>
      BY <1>7 DEF FrozenOK
    <2> QED BY <1>2, <1>7, <2>2, <2>3 DEF FrozenOK
  <1>8. state # NoFile => IntactIn(rows, state.last)
    BY DEF FrozenOK
  <1>9. ASSUME NEW p \in Runtimes, Context(p) PROVE CampaignTypes' /\ FrozenOK'
    <2>1. /\ CampaignTypes' /\ UNCHANGED <<rows, state, audit>> /\ \A q \in Runtimes \ {p} : proc'[q] = proc[q]
          /\ proc'[p].pc = "ready"
      BY <1>9, ContextMoves DEF Context
    <2> QED BY <1>7, <1>8, <2>1
  <1>10. ASSUME NEW p \in Runtimes, NEW c, RunCommand(p, c) PROVE CampaignTypes' /\ FrozenOK'
    <2>1. /\ CampaignTypes' /\ UNCHANGED <<rows, state, audit>> /\ \A q \in Runtimes \ {p} : proc'[q] = proc[q]
          /\ proc'[p].pc = "emit"
      BY <1>10, CommandMoves
    <2> QED BY <1>7, <1>8, <2>1
  <1>11. ASSUME NEW p \in Runtimes, ReadForAppend(p) \/ SaveRead(p) PROVE CampaignTypes' /\ FrozenOK'
    <2>1. /\ CampaignTypes' /\ Chained(rows) /\ UNCHANGED <<rows, state, audit>>
          /\ \A q \in Runtimes \ {p} : proc'[q] = proc[q]
          /\ proc'[p].seen = Len(rows) /\ (proc'[p].pc = "persist" => proc'[p].todo # <<>>)
      BY <1>11, ReadMoves
    <2>2. IntactIn(rows, Len(rows))
      BY <2>1, ChainedIsIntact
    <2> QED BY <1>7, <1>8, <2>1, <2>2
  <1>12. ASSUME NEW p \in Runtimes, SaveWrite(p) PROVE CampaignTypes' /\ FrozenOK'
    <2>1. /\ CampaignTypes' /\ UNCHANGED <<rows, audit>> /\ \A q \in Runtimes \ {p} : proc'[q] = proc[q]
          /\ state'.last = proc[p].seen /\ proc[p].pc = "save" /\ proc'[p].pc = "saved"
      BY <1>12, SaveMoves
    <2>2. IntactIn(rows, state'.last)
      BY <2>1 DEF FrozenOK
    <2> QED BY <1>7, <2>1, <2>2
  <1>13. ASSUME NEW p \in Runtimes, End(p) PROVE CampaignTypes' /\ FrozenOK'
    <2>1. /\ CampaignTypes' /\ UNCHANGED <<rows, state, audit>> /\ \A q \in Runtimes \ {p} : proc'[q] = proc[q]
          /\ proc'[p].pc = "idle"
      BY <1>13, EndMoves
    <2> QED BY <1>7, <1>8, <2>1
  <1>14. ASSUME NEW p \in Runtimes, PersistEvent(p) \/ CutOffAppend(p) PROVE CampaignTypes' /\ FrozenOK'
    <2>1. proc[p].pc = "persist" /\ proc[p].todo # <<>>
      BY <1>14 DEF PersistEvent, CutOffAppend, FrozenOK
    <2>2. /\ CampaignTypes' /\ UNCHANGED <<state, audit>> /\ \A q \in Runtimes \ {p} : proc'[q] = proc[q]
          /\ proc'[p].pc \in {"idle", "emit"} /\ \E row : Grows(row)
      BY <1>14, <2>1, PersistMoves
    <2>3. PICK row : Grows(row)
      BY <2>2
    <2>4. InFlight' + 1 = InFlight
      <3>1. Cardinality(Persisting') + 1 = Cardinality(Persisting) /\ Cardinality(Persisting') \in Nat
        BY <2>1, <2>2, InFlightLess
      <3>2. AuditInFlight' = AuditInFlight /\ AuditInFlight \in {0, 1}
        BY <2>2 DEF AuditInFlight
      <3> QED BY <3>1, <3>2 DEF InFlight
    <2>5. \A i \in DOMAIN rows' : BrokenAt(rows', i) => Len(rows') - i + InFlight' <= Cardinality(Runtimes)
      BY <2>2, <2>3, <2>4, BreakIsBounded
    <2>6. \A q \in Runtimes : /\ proc'[q].pc = "save" => IntactIn(rows', proc'[q].seen)
                              /\ proc'[q].pc = "persist" => proc'[q].todo # <<>>
      BY <1>4, <2>2, <2>3 DEF FrozenOK
    <2> QED BY <1>4, <2>2, <2>3, <2>5, <2>6 DEF FrozenOK
  <1> QED BY <1>5, <1>6, <1>9, <1>10, <1>11, <1>12, <1>13, <1>14, EveryStep

LEMMA FrozenIsFrozen == ASSUME CampaignTypes, FrozenOK, IsFiniteSet(Runtimes) PROVE BrokenChainIsFrozen
  <1> SUFFICES ASSUME NEW i \in DOMAIN rows, BrokenAt(rows, i)
               PROVE  /\ Len(rows) - i <= Cardinality(Runtimes) /\ source < i
                      /\ state = NoFile \/ state.last < i
    BY DEF BrokenChainIsFrozen, BrokenAt
  <1>1. Len(rows) \in Nat /\ i \in 1..Len(rows)
    BY DEF CampaignTypes
  <1>2. Len(rows) - i <= Cardinality(Runtimes)
    <2> DEFINE most == Cardinality(Runtimes)
               pending == InFlight
    <2>1. most \in Nat /\ pending \in Nat
      BY InFlightBounded DEF InFlight
    <2>2. Len(rows) - i + pending <= most
      BY DEF FrozenOK
    <2> HIDE DEF most, pending
    <2>3. Len(rows) - i <= most
      BY <1>1, <2>1, <2>2
    <2> QED BY <2>3 DEF most
  <1>3. \A n : IntactIn(rows, n) => n < i
    BY <1>1 DEF IntactIn, BrokenAt
  <1> QED BY <1>2, <1>3 DEF FrozenOK

(* What the seal has read, and what each receipt says of its source.        *)
SealedReceipts == {r \in [source : Nat, from : Nat, challenge : Nat] : r.from \in 1..r.source}
SealOK ==
    /\ source \in Nat /\ challenge \in Nat
    /\ receipts \in [ReceiptKinds -> {NoFile} \cup SealedReceipts]
    /\ sealer \in [pc : {"idle", "source", "receipts"}, from : Nat, challenge : Nat, next : 1..Len(Receipts)]
    /\ sealer.pc # "idle" => sealer.from \in 1..Len(rows)
    /\ sealer.pc = "receipts" => sealer.from <= source

LEMMA SealInit == CampaignInit => SealOK
  BY DEF CampaignInit, SealOK, IdleSealer, Receipts

(* No step but those of the seal touches the seal, and none rewrites rows.   *)
LEMMA RowsOnlyGrow ==
  ASSUME CampaignTypes, [CampaignNext]_campaignVars
  PROVE  /\ Len(rows) \in Nat /\ Len(rows') \in Nat /\ Len(rows) <= Len(rows')
         /\ \/ SealStart \/ WriteSealedSource \/ WriteReceipt \/ SealCrash \/ NewChallenge
            \/ UNCHANGED <<sealer, source, receipts, challenge>>
  <1>1. rows \in Seq(CollectedRows) /\ Len(rows) \in Nat
    BY DEF CampaignTypes
  <1> DEFINE sealing == SealStart \/ WriteSealedSource \/ WriteReceipt \/ SealCrash \/ NewChallenge
             still == UNCHANGED <<sealer, source, receipts, challenge>>
             grown == rows' = rows \/ (rows = <<>> /\ Len(rows') = 1) \/ \E row : rows' = Append(rows, row)
  <1>2. ASSUME Unattested PROVE grown /\ still
    <2>1. CASE InitializeCollection
      BY <2>1 DEF InitializeCollection
    <2>2. CASE CollectMarketAudit \/ KillSwitchAudit \/ IngestAudit
      BY <2>2 DEF CollectMarketAudit, KillSwitchAudit, IngestAudit, AuditPersist
    <2> QED BY <1>2, <2>1, <2>2 DEF Unattested
  <1>3. ASSUME Elsewhere \/ UNCHANGED campaignVars PROVE grown /\ (sealing \/ still)
    <2>1. grown
      BY <1>3, ElsewhereMoves
    <2>2. sealing \/ still
      BY <1>3 DEF Elsewhere, AuditRead, campaignVars
    <2> QED BY <2>1, <2>2
  <1>4. ASSUME NEW p \in Runtimes, NEW c \in Commands, RunCommand(p, c) PROVE grown /\ still
    <2>1. PICK todo, adapter : Begin(p, todo, adapter)
      BY <1>4, WhatACommandRecords
    <2> QED BY <2>1 DEF Begin
  <1>5. ASSUME NEW p \in Runtimes, Context(p) \/ SaveWrite(p) \/ End(p) \/ ReadForAppend(p) \/ SaveRead(p)
        PROVE  grown /\ still
    BY <1>5 DEF Context, SaveWrite, End, ReadForAppend, SaveRead
  <1>6. ASSUME NEW p \in Runtimes, PersistEvent(p) \/ CutOffAppend(p)
        PROVE  grown /\ still
    BY <1>6 DEF PersistEvent, CutOffAppend
  <1> HIDE DEF sealing, still, grown
  <1>7. grown /\ (sealing \/ still)
    BY <1>2, <1>3, <1>4, <1>5, <1>6, EveryStep
  <1> QED BY <1>1, <1>7 DEF sealing, still, grown

LEMMA SealNext ==
  ASSUME CampaignTypes, SealOK, [CampaignNext]_campaignVars
  PROVE  SealOK'
  <1>1. Len(rows) \in Nat /\ Len(rows') \in Nat /\ Len(rows) <= Len(rows')
    BY RowsOnlyGrow
  <1>2. /\ sealer.pc \in {"idle", "source", "receipts"} /\ sealer.from \in Nat /\ sealer.next \in 1..4
        /\ source \in Nat /\ challenge \in Nat /\ sealer.challenge \in Nat /\ Len(Receipts) = 4
    BY DEF SealOK, Receipts
  <1>3. IdleSealer \in [pc : {"idle", "source", "receipts"}, from : Nat, challenge : Nat, next : 1..Len(Receipts)]
        /\ IdleSealer.pc = "idle"
    BY <1>2 DEF IdleSealer
  <1>4. CASE SealStart
    <2>1. rows # <<>> /\ UNCHANGED <<rows, source, challenge, receipts>>
          /\ sealer' = [pc |-> "source", from |-> Len(rows), challenge |-> challenge, next |-> 1]
      BY <1>4 DEF SealStart, Loads, Chained
    <2>2. Len(rows) \in 1..Len(rows)
      BY <1>1, <2>1 DEF CampaignTypes
    <2> QED BY <1>2, <2>1, <2>2 DEF SealOK
  <1>5. CASE WriteSealedSource
    <2>1. /\ UNCHANGED <<rows, challenge, receipts>> /\ source' = Len(rows) /\ sealer.pc = "source"
          /\ sealer' = [sealer EXCEPT !.pc = "receipts"]
      BY <1>5 DEF WriteSealedSource
    <2> QED BY <1>1, <1>2, <2>1 DEF SealOK
  <1>6. CASE WriteReceipt
    <2> DEFINE r == [source |-> source, from |-> sealer.from, challenge |-> sealer.challenge]
    <2>1. /\ UNCHANGED <<rows, challenge, source>> /\ sealer.pc = "receipts"
          /\ receipts' = [receipts EXCEPT ![Receipts[sealer.next]] = r]
          /\ sealer' = IF sealer.next = Len(Receipts) THEN IdleSealer ELSE [sealer EXCEPT !.next = @ + 1]
      BY <1>6 DEF WriteReceipt
    <2>2. r \in SealedReceipts
      BY <1>1, <1>2, <2>1 DEF SealOK, SealedReceipts
    <2> HIDE DEF r
    <2>3. receipts' \in [ReceiptKinds -> {NoFile} \cup SealedReceipts]
      BY <2>1, <2>2 DEF SealOK
    <2>4. CASE sealer.next = Len(Receipts)
      BY <1>2, <1>3, <2>1, <2>3, <2>4 DEF SealOK
    <2>5. CASE sealer.next # Len(Receipts)
      <3>1. sealer.next + 1 \in 1..Len(Receipts)
        BY <1>2, <2>5
      <3>2. /\ sealer' \in [pc : {"idle", "source", "receipts"}, from : Nat, challenge : Nat, next : 1..Len(Receipts)]
            /\ sealer'.pc = sealer.pc /\ sealer'.from = sealer.from
        BY <2>1, <2>5, <3>1 DEF SealOK
      <3> QED BY <2>1, <2>3, <3>2 DEF SealOK
    <2> QED BY <2>4, <2>5
  <1>7. CASE SealCrash
    BY <1>3, <1>7 DEF SealCrash, SealOK
  <1>8. CASE NewChallenge
    BY <1>2, <1>8 DEF NewChallenge, SealOK
  <1>9. ASSUME UNCHANGED <<sealer, source, receipts, challenge>> PROVE SealOK'
    BY <1>1, <1>2, <1>9 DEF SealOK
  <1> QED BY <1>4, <1>5, <1>6, <1>7, <1>8, <1>9, RowsOnlyGrow

(* A beginning of the collection counts no more than it holds records of a  *)
(* metric.                                                                  *)
Witnesses(n, m) == {i \in DOMAIN Prefix(n) : /\ rows[i].attested
                                             /\ \/ rows[i].event.kind = m
                                                \/ rows[i].event.decision = m}

LEMMA PrefixRows ==
  ASSUME CampaignTypes, NEW n \in 0..Len(rows)
  PROVE  /\ Len(Prefix(n)) = n /\ DOMAIN Prefix(n) = 1..n /\ n \in Nat
         /\ \A i \in 1..n : Prefix(n)[i] = rows[i]
  BY DEF CampaignTypes, Prefix

LEMMA CountIsWitnessed ==
  ASSUME CampaignTypes, NEW n \in 0..Len(rows), NEW k \in 0..n, NEW m
  PROVE  /\ Count(Prefix(k), m) \in Nat /\ Cardinality(Witnesses(n, m)) \in Nat
         /\ Count(Prefix(k), m) <= Cardinality(Witnesses(n, m))
  <1>1. /\ DOMAIN Prefix(n) = 1..n /\ DOMAIN Prefix(k) = 1..k /\ n \in Nat /\ k \in Nat /\ k <= n
        /\ \A i \in 1..k : Prefix(k)[i] = rows[i]
    <2>1. k \in 0..Len(rows) /\ k \in Nat /\ k <= n
      BY DEF CampaignTypes
    <2> QED BY <2>1, PrefixRows
  <1>2. IsFiniteSet(Witnesses(n, m)) /\ Cardinality(Witnesses(n, m)) \in Nat
    <2>1. IsFiniteSet(1..n) /\ Witnesses(n, m) \subseteq 1..n
      BY <1>1, FS_Interval DEF Witnesses
    <2> QED BY <2>1, FS_Subset, FS_CardinalityType
  <1>3. ASSUME NEW T, T \subseteq Witnesses(n, m)
        PROVE  IsFiniteSet(T) /\ Cardinality(T) \in Nat /\ Cardinality(T) <= Cardinality(Witnesses(n, m))
    BY <1>2, <1>3, FS_Subset, FS_CardinalityType
  <1>4. OfKind(Prefix(k), m) \subseteq Witnesses(n, m)
    BY <1>1 DEF OfKind, Attested, Witnesses
  <1>5. CASE m \in {"LONG", "EXIT"}
    <2> DEFINE T == {i \in OfKind(Prefix(k), "paper_sample") : Prefix(k)[i].event.decision = m}
    <2>1. T \subseteq Witnesses(n, m)
      BY <1>1 DEF OfKind, Attested, Witnesses
    <2>2. Count(Prefix(k), m) = Cardinality(T)
      BY <1>5 DEF Count
    <2> HIDE DEF T
    <2> QED BY <1>2, <1>3, <2>1, <2>2
  <1>6. CASE m = "live_shadow_observation"
    <2> DEFINE S == OfKind(Prefix(k), m)
               T == {Prefix(k)[i].event.obs : i \in S}
               f == [i \in S |-> Prefix(k)[i].event.obs]
    <2>1. Count(Prefix(k), m) = Cardinality(T)
      BY <1>6 DEF Count
    <2>2. IsFiniteSet(S) /\ Cardinality(S) \in Nat /\ Cardinality(S) <= Cardinality(Witnesses(n, m))
      BY <1>3, <1>4
    <2>3. f \in Surjection(S, T)
      BY DEF Surjection
    <2> HIDE DEF S, T, f
    <2>4. IsFiniteSet(T) /\ Cardinality(T) <= Cardinality(S)
      BY <2>2, <2>3, FS_Surjection
    <2>5. Cardinality(T) \in Nat
      BY <2>4, FS_CardinalityType
    <2> QED BY <1>2, <2>1, <2>2, <2>4, <2>5
  <1>7. CASE m \notin {"LONG", "EXIT", "live_shadow_observation"}
    <2>1. Count(Prefix(k), m) = Cardinality(OfKind(Prefix(k), m))
      BY <1>7 DEF Count
    <2> QED BY <1>2, <1>3, <1>4, <2>1
  <1> QED BY <1>5, <1>6, <1>7

LEMMA SealedIsWitnessed ==
  ASSUME CampaignTypes, FrozenOK, SealOK
  PROVE  VerifiedReceiptsAgree
  <1> SUFFICES ASSUME \A kind \in ReceiptKinds : VerifyCampaignEvidence(kind)
               PROVE  /\ Chained(Prefix(source))
                      /\ \A kind \in ReceiptKinds : \A m \in MetricsOf(kind) :
                            Cardinality(Witnesses(source, m)) >= Need[m]
    BY DEF VerifiedReceiptsAgree, Witnesses
  <1>1. source \in 0..Len(rows) /\ \A i \in 1..source : rows[i].prev = i - 1 /\ rows[i].whole
    BY DEF FrozenOK, IntactIn
  <1>2. ASSUME NEW kind \in ReceiptKinds
        PROVE  /\ receipts[kind].from \in 1..source
               /\ \A m \in MetricsOf(kind) : Count(Prefix(receipts[kind].from), m) >= Need[m]
    <2>1. receipts[kind] \in SealedReceipts /\ receipts[kind].source = source
      BY DEF VerifyCampaignEvidence, CommonProblems, SealOK
    <2> QED BY <2>1 DEF SealedReceipts, VerifyCampaignEvidence
  <1>3. Chained(Prefix(source))
    <2>1. "paper" \in ReceiptKinds
      BY DEF ReceiptKinds, Receipts
    <2>2. source > 0
      BY <1>1, <1>2, <2>1 DEF CampaignTypes
    <2>3. /\ Len(Prefix(source)) = source /\ DOMAIN Prefix(source) = 1..source
          /\ \A i \in 1..source : Prefix(source)[i] = rows[i]
      BY <1>1, PrefixRows
    <2>4. Prefix(source) # <<>>
      BY <2>2, <2>3
    <2> QED BY <1>1, <2>3, <2>4 DEF Chained
  <1>4. ASSUME NEW kind \in ReceiptKinds, NEW m \in MetricsOf(kind)
        PROVE  Cardinality(Witnesses(source, m)) >= Need[m]
    <2> DEFINE k == receipts[kind].from
    <2>1. k \in 0..source /\ Count(Prefix(k), m) >= Need[m]
      BY <1>1, <1>2
    <2>2. /\ Count(Prefix(k), m) \in Nat /\ Cardinality(Witnesses(source, m)) \in Nat
          /\ Count(Prefix(k), m) <= Cardinality(Witnesses(source, m))
      BY <1>1, <2>1, CountIsWitnessed
    <2>3. Need[m] \in Nat
      <3>1. m \in Metrics
        BY DEF MetricsOf, Metrics, EventKinds, ReceiptKinds, Receipts
      <3> QED BY <3>1, CampaignAssumption
    <2> HIDE DEF k
    <2> QED BY <2>1, <2>2, <2>3
  <1> QED BY <1>3, <1>4

(* The last attested paper sample among the first n records has the fills.  *)
PaperSamples(rs) == OfKind(rs, "paper_sample")
InSync(rs, filled, n) ==
    \A i \in PaperSamples(rs) :
        (i <= n /\ \A k \in (i + 1)..n : k \notin PaperSamples(rs)) => rs[i].event.fills = filled

(* A runtime that may save or start a command is in sync with the           *)
(* collection; one that has begun will be once its first event is recorded. *)
RuntimeInSync(rs, r) ==
    /\ r.pc \in {"ready", "saved", "save"} => InSync(rs, r.adapter.fills, Len(rs))
    /\ r.pc = "save" => InSync(rs, r.adapter.fills, r.seen)
    /\ r.pc \in {"emit", "persist"} =>
          \E before \in Nat : InSync(rs, before, Len(rs)) /\ Continues(r.todo, r.adapter, before)

BrokerOK ==
    /\ BrokerContinuity
    /\ state # NoFile => InSync(rows, state.adapter.fills, state.last)
    /\ \A p \in Runtimes : RuntimeInSync(rows, proc[p])

IsSample(row) == row.attested /\ row.event.kind = "paper_sample"

LEMMA SamplesGrow ==
  ASSUME CampaignTypes, NEW row, Grows(row)
  PROVE  /\ Len(rows) \in Nat /\ Len(rows') = Len(rows) + 1 /\ PaperSamples(rows) \subseteq 1..Len(rows)
         /\ PaperSamples(rows') \subseteq 1..(Len(rows) + 1)
         /\ \A i \in 1..Len(rows) : /\ rows'[i] = rows[i]
                                    /\ i \in PaperSamples(rows') <=> i \in PaperSamples(rows)
         /\ Len(rows) + 1 \in PaperSamples(rows') <=> IsSample(row)
         /\ rows'[Len(rows) + 1] = row
  <1>1. /\ Len(rows) \in Nat /\ Len(rows') = Len(rows) + 1 /\ DOMAIN rows = 1..Len(rows)
        /\ DOMAIN rows' = 1..(Len(rows) + 1) /\ rows'[Len(rows) + 1] = row
        /\ \A i \in 1..Len(rows) : rows'[i] = rows[i]
    BY RowAppended
  <1>2. \A rs : PaperSamples(rs) = {i \in DOMAIN rs : IsSample(rs[i])}
    BY DEF PaperSamples, OfKind, Attested, IsSample
  <1> QED BY <1>1, <1>2

(* What was in sync with a beginning of the collection stays so.            *)
LEMMA SyncKept ==
  ASSUME CampaignTypes, NEW row, Grows(row), NEW n \in 0..Len(rows), NEW filled, InSync(rows, filled, n)
  PROVE  InSync(rows', filled, n)
  <1>1. /\ Len(rows) \in Nat /\ PaperSamples(rows') \subseteq 1..(Len(rows) + 1)
        /\ \A i \in 1..Len(rows) : /\ rows'[i] = rows[i]
                                   /\ i \in PaperSamples(rows') <=> i \in PaperSamples(rows)
    BY SamplesGrow
  <1> SUFFICES ASSUME NEW i \in PaperSamples(rows'), i <= n, \A k \in (i + 1)..n : k \notin PaperSamples(rows')
               PROVE  rows'[i].event.fills = filled
    BY DEF InSync
  <1>2. i \in 1..Len(rows) /\ \A k \in (i + 1)..n : k \in 1..Len(rows)
    BY <1>1
  <1>3. \A k \in (i + 1)..n : k \notin PaperSamples(rows)
    BY <1>1, <1>2
  <1> QED BY <1>1, <1>2, <1>3 DEF InSync

LEMMA SyncPassed ==
  ASSUME CampaignTypes, NEW row, Grows(row), NEW filled,
         IF IsSample(row) THEN row.event.fills = filled ELSE InSync(rows, filled, Len(rows))
  PROVE  InSync(rows', filled, Len(rows'))
  <1>1. /\ Len(rows) \in Nat /\ Len(rows') = Len(rows) + 1 /\ PaperSamples(rows') \subseteq 1..(Len(rows) + 1)
        /\ PaperSamples(rows) \subseteq 1..Len(rows)
        /\ \A i \in 1..Len(rows) : /\ rows'[i] = rows[i]
                                   /\ i \in PaperSamples(rows') <=> i \in PaperSamples(rows)
        /\ Len(rows) + 1 \in PaperSamples(rows') <=> IsSample(row)
        /\ rows'[Len(rows) + 1] = row
    BY SamplesGrow
  <1> SUFFICES ASSUME NEW i \in PaperSamples(rows'), i <= Len(rows'),
                      \A k \in (i + 1)..Len(rows') : k \notin PaperSamples(rows')
               PROVE  rows'[i].event.fills = filled
    BY DEF InSync
  <1>2. i \in 1..(Len(rows) + 1)
    BY <1>1
  <1>3. CASE IsSample(row)
    <2>1. i = Len(rows) + 1
      <3>1. i # Len(rows) + 1 => Len(rows) + 1 \in (i + 1)..Len(rows')
        BY <1>1, <1>2
      <3> QED BY <1>1, <1>3, <3>1
    <2> QED BY <1>1, <1>3, <2>1
  <1>4. CASE ~IsSample(row)
    <2>1. i \in 1..Len(rows) /\ i \in PaperSamples(rows)
      <3>1. i # Len(rows) + 1
        BY <1>1, <1>4
      <3> QED BY <1>1, <1>2, <3>1
    <2>2. \A k \in (i + 1)..Len(rows) : k \notin PaperSamples(rows)
      <3>1. \A k \in (i + 1)..Len(rows) : k \in 1..Len(rows) /\ k \in (i + 1)..Len(rows')
        BY <1>1, <2>1
      <3> QED BY <1>1, <3>1
    <2>3. i <= Len(rows) /\ InSync(rows, filled, Len(rows))
      BY <1>1, <1>4, <2>1
    <2> QED BY <1>1, <2>1, <2>2, <2>3 DEF InSync
  <1> QED BY <1>3, <1>4

(* Two successive samples, and the fills of the second.                     *)
GoesOn(rs, i, j) ==
    rs[j].event.fills = rs[i].event.fills + Delta(rs[j].event)
Successive(rs, i, j) ==
    /\ i \in PaperSamples(rs) /\ j \in PaperSamples(rs) /\ i < j
    /\ \A k \in (i + 1)..(j - 1) : k \notin PaperSamples(rs)

LEMMA ContinuityOf ==
  BrokerContinuity <=> \A i, j \in PaperSamples(rows) : Successive(rows, i, j) => GoesOn(rows, i, j)
  BY DEF BrokerContinuity, PaperSamples, Successive, GoesOn, Delta

LEMMA ContinuityKept ==
  ASSUME CampaignTypes, NEW row, Grows(row), BrokerContinuity,
         IsSample(row) => \E before : InSync(rows, before, Len(rows)) /\ row.event.fills = before + Delta(row.event)
  PROVE  BrokerContinuity'
  <1>1. /\ Len(rows) \in Nat /\ Len(rows') = Len(rows) + 1 /\ PaperSamples(rows') \subseteq 1..(Len(rows) + 1)
        /\ PaperSamples(rows) \subseteq 1..Len(rows)
        /\ \A i \in 1..Len(rows) : /\ rows'[i] = rows[i]
                                   /\ i \in PaperSamples(rows') <=> i \in PaperSamples(rows)
        /\ Len(rows) + 1 \in PaperSamples(rows') <=> IsSample(row)
        /\ rows'[Len(rows) + 1] = row
    BY SamplesGrow
  <1>2. ASSUME NEW i \in PaperSamples(rows'), NEW j \in PaperSamples(rows'), Successive(rows', i, j)
        PROVE  GoesOn(rows', i, j)
    <2>1. /\ i \in 1..(Len(rows) + 1) /\ j \in 1..(Len(rows) + 1) /\ i < j
          /\ \A k \in (i + 1)..(j - 1) : k \notin PaperSamples(rows')
      BY <1>1, <1>2 DEF Successive
    <2>2. i \in 1..Len(rows) /\ i \in PaperSamples(rows) /\ rows'[i] = rows[i]
      BY <1>1, <2>1
    <2>3. \A k \in (i + 1)..(j - 1) : k \in 1..Len(rows) /\ k \notin PaperSamples(rows)
      <3>1. \A k \in (i + 1)..(j - 1) : k \in 1..Len(rows)
        BY <1>1, <2>1
      <3> QED BY <1>1, <2>1, <3>1
    <2>4. CASE j \in 1..Len(rows)
      <3>1. j \in PaperSamples(rows) /\ rows'[j] = rows[j] /\ Successive(rows, i, j)
        BY <1>1, <2>1, <2>2, <2>3, <2>4 DEF Successive
      <3> QED BY <2>2, <3>1, ContinuityOf DEF GoesOn
    <2>5. CASE j = Len(rows) + 1
      <3>1. IsSample(row) /\ rows'[j] = row
        BY <1>1, <2>5
      <3>2. PICK before : InSync(rows, before, Len(rows)) /\ row.event.fills = before + Delta(row.event)
        BY <3>1
      <3>3. j - 1 = Len(rows) /\ i <= Len(rows)
        BY <1>1, <2>2, <2>5
      <3>4. rows[i].event.fills = before
        BY <2>2, <2>3, <3>2, <3>3 DEF InSync
      <3> QED BY <2>2, <3>1, <3>2, <3>4 DEF GoesOn
    <2> QED BY <1>1, <2>1, <2>4, <2>5
  <1>3. (\A i, j \in PaperSamples(rows) : Successive(rows, i, j) => GoesOn(rows, i, j))' => BrokerContinuity'
    BY ContinuityOf, PTL
  <1> QED BY <1>2, <1>3

LEMMA BrokerInit == CampaignInit => BrokerOK
  <1> SUFFICES ASSUME CampaignInit PROVE BrokerOK
    OBVIOUS
  <1>1. rows = <<>> /\ state = NoFile /\ \A p \in Runtimes : proc[p].pc = "idle"
    BY DEF CampaignInit, IdleProc
  <1>2. PaperSamples(rows) = {}
    BY <1>1 DEF PaperSamples, OfKind, Attested
  <1> QED BY <1>1, <1>2, ContinuityOf DEF BrokerOK, RuntimeInSync

(* What a recorded event leaves to the rest of its command.                 *)
LEMMA RestContinues ==
  ASSUME NEW todo, NEW adapter, NEW before \in Nat, Continues(todo, adapter, before), todo # <<>>
  PROVE  /\ Continues(Tail(todo), adapter, adapter.fills) /\ adapter.fills \in Nat
         /\ IF todo[1].kind = "paper_sample"
              THEN todo[1].fills = adapter.fills /\ todo[1].fills = before + Delta(todo[1])
              ELSE adapter.fills = before
  <1>1. /\ todo \in Seq(CollectedEvents) /\ todo # <<>> /\ adapter \in AdapterStates
        /\ \A k \in 2..Len(todo) : todo[k].kind # "paper_sample"
    BY DEF Continues
  <1>2. /\ Tail(todo) \in Seq(CollectedEvents) /\ Len(Tail(todo)) = Len(todo) - 1 /\ Len(todo) \in Nat
        /\ \A k \in 1..Len(Tail(todo)) : Tail(todo)[k] = todo[k + 1]
    BY <1>1
  <1>3. \A k \in 1..Len(Tail(todo)) : Tail(todo)[k].kind # "paper_sample"
    <2>1. \A k \in 1..Len(Tail(todo)) : k + 1 \in 2..Len(todo)
      BY <1>2
    <2> QED BY <1>1, <1>2, <2>1
  <1>4. ~SampleAhead(Tail(todo))
    BY <1>2, <1>3 DEF SampleAhead
  <1>5. Continues(Tail(todo), adapter, adapter.fills)
    <2>1. \A k \in 2..Len(Tail(todo)) : k \in 1..Len(Tail(todo))
      BY <1>2
    <2> QED BY <1>1, <1>2, <1>3, <1>4, <2>1 DEF Continues
  <1>6. adapter.fills \in Nat
    BY <1>1 DEF AdapterStates
  <1> QED BY <1>1, <1>5, <1>6 DEF Continues, SampleAhead

LEMMA BrokerNext ==
  ASSUME CampaignTypes, FrozenOK, BrokerOK, \A p, q \in Runtimes : p = q, [CampaignNext]_campaignVars
  PROVE  BrokerOK'
  <1>1. /\ BrokerContinuity /\ (state # NoFile => InSync(rows, state.adapter.fills, state.last))
        /\ \A p \in Runtimes : RuntimeInSync(rows, proc[p])
    BY DEF BrokerOK
  <1>2. /\ Len(rows) \in Nat /\ (state # NoFile => state.last \in 0..Len(rows))
        /\ \A p \in Runtimes : proc[p].pc = "save" => proc[p].seen \in 0..Len(rows)
    BY DEF FrozenOK, IntactIn, CampaignTypes
  <1>3. UNCHANGED rows => BrokerContinuity'
    BY <1>1 DEF BrokerContinuity
  <1>4. ASSUME NEW row, Grows(row)
        PROVE  \A n \in 0..Len(rows) : \A filled : InSync(rows, filled, n) => InSync(rows', filled, n)
    BY <1>4, SyncKept
  <1>5. CASE Unattested
    <2>1. PICK row : Grows(row) /\ ~row.attested
      BY <1>5, AuditMoves
    <2>2. UNCHANGED <<state, proc>>
      BY <1>5, AuditMoves
    <2>3. ~IsSample(row)
      BY <2>1 DEF IsSample
    <2>4. BrokerContinuity'
      BY <1>1, <2>1, <2>3, ContinuityKept
    <2>5. \A filled : InSync(rows, filled, Len(rows)) => InSync(rows', filled, Len(rows'))
      BY <2>1, <2>3, SyncPassed
    <2>6. ASSUME NEW p \in Runtimes PROVE RuntimeInSync(rows', proc[p])
      BY <1>1, <1>2, <1>4, <2>1, <2>5 DEF RuntimeInSync
    <2>7. state # NoFile => InSync(rows', state.adapter.fills, state.last)
      BY <1>1, <1>2, <1>4, <2>1
    <2> QED BY <2>2, <2>4, <2>6, <2>7 DEF BrokerOK
  <1>6. CASE Elsewhere \/ UNCHANGED campaignVars
    <2>1. UNCHANGED <<rows, state, proc>>
      BY <1>6, ElsewhereMoves
    <2> QED BY <1>1, <1>3, <2>1 DEF BrokerOK
  <1>7. ASSUME NEW p \in Runtimes, UNCHANGED <<rows, state>>, RuntimeInSync(rows, proc'[p])
        PROVE  BrokerOK'
    <2>1. \A q \in Runtimes : RuntimeInSync(rows, proc'[q])
      BY <1>7
    <2> QED BY <1>1, <1>3, <1>7, <2>1 DEF BrokerOK
  <1>8. ASSUME NEW p \in Runtimes, Context(p) PROVE BrokerOK'
    <2>1. /\ MayStart /\ UNCHANGED <<rows, state>> /\ proc'[p].pc = "ready" /\ proc'[p].adapter = RestoredAdapter
      BY <1>8, ContextMoves
    <2>2. InSync(rows, RestoredAdapter.fills, Len(rows))
      <3>1. CASE state = NoFile
        BY <2>1, <3>1 DEF MayStart, InSync, PaperSamples
      <3>2. CASE state # NoFile
        BY <1>1, <2>1, <3>2 DEF MayStart, Restorable, RestoredAdapter
      <3> QED BY <3>1, <3>2
    <2> QED BY <1>7, <2>1, <2>2 DEF RuntimeInSync
  <1>9. ASSUME NEW p \in Runtimes, NEW c \in Commands, RunCommand(p, c) PROVE BrokerOK'
    <2>1. /\ UNCHANGED <<rows, state>> /\ proc[p].pc \in {"ready", "saved"} /\ proc'[p].pc = "emit"
          /\ Continues(proc'[p].todo, proc'[p].adapter, proc[p].adapter.fills)
      BY <1>9, CommandMoves
    <2>2. InSync(rows, proc[p].adapter.fills, Len(rows)) /\ proc[p].adapter.fills \in Nat
      BY <1>1, <2>1 DEF RuntimeInSync, CampaignTypes, RuntimeStates, AdapterStates
    <2> QED BY <1>7, <2>1, <2>2 DEF RuntimeInSync
  <1>10. ASSUME NEW p \in Runtimes, ReadForAppend(p) PROVE BrokerOK'
    <2>1. /\ UNCHANGED <<rows, state>> /\ proc[p].pc = "emit" /\ proc'[p].pc = "persist"
          /\ proc'[p].todo = proc[p].todo /\ proc'[p].adapter = proc[p].adapter
      BY <1>10, ReadMoves
    <2> QED BY <1>1, <1>7, <2>1 DEF RuntimeInSync
  <1>11. ASSUME NEW p \in Runtimes, SaveRead(p) PROVE BrokerOK'
    <2>1. /\ UNCHANGED <<rows, state>> /\ proc[p].pc = "emit" /\ proc'[p].pc = "save" /\ proc[p].todo = <<>>
          /\ proc'[p].adapter = proc[p].adapter /\ proc'[p].seen = Len(rows)
      BY <1>11, ReadMoves
    <2>2. PICK before \in Nat : InSync(rows, before, Len(rows)) /\ Continues(proc[p].todo, proc[p].adapter, before)
      BY <1>1, <2>1 DEF RuntimeInSync
    <2>3. proc[p].adapter.fills = before
      BY <2>1, <2>2 DEF Continues, SampleAhead
    <2> QED BY <1>7, <2>1, <2>2, <2>3 DEF RuntimeInSync
  <1>12. ASSUME NEW p \in Runtimes, SaveWrite(p) PROVE BrokerOK'
    <2>1. /\ UNCHANGED rows /\ state'.last = proc[p].seen /\ state'.adapter = proc[p].adapter
          /\ proc[p].pc = "save" /\ proc'[p].pc = "saved" /\ proc'[p].adapter = proc[p].adapter
      BY <1>12, SaveMoves
    <2>2. InSync(rows, state'.adapter.fills, state'.last) /\ RuntimeInSync(rows, proc'[p])
      BY <1>1, <2>1 DEF RuntimeInSync
    <2>3. \A q \in Runtimes : RuntimeInSync(rows, proc'[q])
      BY <2>2
    <2> QED BY <1>3, <2>1, <2>2, <2>3 DEF BrokerOK
  <1>13. ASSUME NEW p \in Runtimes, End(p) PROVE BrokerOK'
    <2>1. UNCHANGED <<rows, state>> /\ proc'[p].pc = "idle"
      BY <1>13, EndMoves
    <2> QED BY <1>7, <2>1 DEF RuntimeInSync
  <1>14. ASSUME NEW p \in Runtimes, PersistEvent(p) \/ CutOffAppend(p) PROVE BrokerOK'
    <2> DEFINE r == proc[p]
    <2>1. r.pc = "persist" /\ r.todo # <<>>
      BY <1>14 DEF PersistEvent, CutOffAppend, FrozenOK
    <2>2. /\ UNCHANGED state
          /\ \/ proc'[p].pc = "idle"
             \/ proc'[p].pc = "emit" /\ proc'[p].todo = Tail(r.todo) /\ proc'[p].adapter = r.adapter
      BY <1>14, <2>1, PersistMoves
    <2>3. PICK row : Grows(row) /\ row.event = r.todo[1] /\ row.attested
      BY <1>14, <2>1, PersistMoves
    <2>4. PICK before \in Nat : InSync(rows, before, Len(rows)) /\ Continues(r.todo, r.adapter, before)
      BY <1>1, <2>1 DEF RuntimeInSync
    <2>5. /\ Continues(Tail(r.todo), r.adapter, r.adapter.fills) /\ r.adapter.fills \in Nat
          /\ IF r.todo[1].kind = "paper_sample"
               THEN r.todo[1].fills = r.adapter.fills /\ r.todo[1].fills = before + Delta(r.todo[1])
               ELSE r.adapter.fills = before
      BY <2>1, <2>4, RestContinues
    <2> HIDE DEF r
    <2>6. IsSample(row) <=> r.todo[1].kind = "paper_sample"
      BY <2>3 DEF IsSample
    <2>7. BrokerContinuity'
      BY <1>1, <2>3, <2>4, <2>5, <2>6, ContinuityKept
    <2>8. InSync(rows', r.adapter.fills, Len(rows'))
      <3>1. IF IsSample(row) THEN row.event.fills = r.adapter.fills ELSE InSync(rows, r.adapter.fills, Len(rows))
        BY <2>3, <2>4, <2>5, <2>6
      <3> QED BY <2>3, <3>1, SyncPassed
    <2>9. RuntimeInSync(rows', proc'[p])
      BY <2>2, <2>5, <2>8 DEF RuntimeInSync
    <2>10. state # NoFile => InSync(rows', state.adapter.fills, state.last)
      BY <1>1, <1>2, <1>4, <2>3
    <2>11. \A q \in Runtimes : RuntimeInSync(rows', proc'[q])
      BY <2>9
    <2> QED BY <2>2, <2>7, <2>10, <2>11 DEF BrokerOK
  <1> QED BY <1>5, <1>6, <1>8, <1>9, <1>10, <1>11, <1>12, <1>13, <1>14, EveryStep

(* campaign_collector.py and phase265_campaign_collector.py, for any finite  *)
(* set of runtimes beside the audit commands and the seal: a broken chain is *)
(* given up, so that only appends that had read before the break still land, *)
(* and four receipts that verify are of one intact source that meets every   *)
(* threshold.                                                                *)
THEOREM SealedCollectionIsIntact ==
  ASSUME IsFiniteSet(Runtimes)
  PROVE  CampaignSpec => [](BrokenChainIsFrozen /\ VerifiedReceiptsAgree)
  <1> DEFINE Inv == CampaignTypes /\ FrozenOK /\ SealOK
  <1>1. CampaignInit => Inv
    BY CampaignInitTypes, FrozenInit, SealInit
  <1>2. Inv /\ [CampaignNext]_campaignVars => Inv'
    BY FrozenNext, SealNext
  <1>3. Inv => BrokenChainIsFrozen /\ VerifiedReceiptsAgree
    BY FrozenIsFrozen, SealedIsWitnessed
  <1> HIDE DEF Inv
  <1> QED BY <1>1, <1>2, <1>3, PTL DEF CampaignSpec

(* campaign_runtime_state.py and phase266_campaign_runtime.py, for one       *)
(* runtime and any number of commands, audits, seals and crashes: besides,   *)
(* the fills of successive paper samples go on from one another.             *)
THEOREM CollectionStaysTrustworthy ==
  ASSUME IsFiniteSet(Runtimes), \A p, q \in Runtimes : p = q
  PROVE  CampaignSpec => []CollectionIsTrustworthy
  <1> DEFINE Inv == CampaignTypes /\ FrozenOK /\ SealOK /\ BrokerOK
  <1>1. CampaignInit => Inv
    BY CampaignInitTypes, FrozenInit, SealInit, BrokerInit
  <1>2. Inv /\ [CampaignNext]_campaignVars => Inv'
    BY FrozenNext, SealNext, BrokerNext
  <1>3. Inv => CollectionIsTrustworthy
    BY FrozenIsFrozen, SealedIsWitnessed DEF CollectionIsTrustworthy, BrokerOK
  <1> HIDE DEF Inv
  <1> QED BY <1>1, <1>2, <1>3, PTL DEF CampaignSpec
=============================================================================
