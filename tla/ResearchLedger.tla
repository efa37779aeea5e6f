---------------------------- MODULE ResearchLedger ----------------------------
(***************************************************************************)
(* The pre-registration ledger of research trials (research/registry.py)    *)
(* and the point-in-time metadata of a symbol (universe/manager.py). Both   *)
(* are given their timestamps by the caller, in any order; a ledger entry   *)
(* keeps the very dict of parameters the caller passed, who may change it   *)
(* afterwards. An entry's hash is a number of its own.                      *)
(***************************************************************************)
EXTENDS Integers, Sequences, FiniteSets

CONSTANTS Hypotheses, NoHypothesis,
          Trials,
          Measures,     \* a primary metric with its test set
          Budgets,      \* parameter_search_budget
          Windows,      \* train, validation and test periods, each a start and an end
          MetaVersions, \* the content hashes of a symbol's metadata
          ResearchTimes,
          MaxVersions   \* bound on the versions kept, for model checking only

ASSUME ResearchAssumption ==
  /\ ResearchTimes \subseteq Nat /\ Budgets \subseteq Nat \ {0} /\ MaxVersions \in Nat
  /\ Windows \subseteq [train : Nat \X Nat, validation : Nat \X Nat, test : Nat \X Nat]
  /\ NoHypothesis \notin [measure : Measures, budget : Budgets, at : ResearchTimes]

VARIABLES registered, \* the hypotheses by id
          entries,    \* the trials in the order they were appended
          metadata    \* the versions of the symbol, sorted by their effective time

researchVars == <<registered, entries, metadata>>

Registrations == [measure : Measures, budget : Budgets, at : ResearchTimes]

\* intact: the dict of parameters still holds what the entry's hash was computed over.
LedgerEntries == [trial : Trials, hypothesis : Hypotheses, intact : BOOLEAN, windows : Windows,
                  at : ResearchTimes, measure : Measures, ordinal : Nat, previous : Nat, hash : Nat]
MetaRows == [at : ResearchTimes, version : MetaVersions]

ResearchTypeOK ==
  /\ registered \in [Hypotheses -> Registrations \cup {NoHypothesis}]
  /\ entries \in Seq(LedgerEntries)
  /\ metadata \in Seq(MetaRows)

ResearchInit ==
  /\ registered = [h \in Hypotheses |-> NoHypothesis]
  /\ entries = <<>> /\ metadata = <<>>

-----------------------------------------------------------------------------
RegisterHypothesis(h, measure, budget, at) ==
  /\ registered[h] = NoHypothesis
  /\ registered' = [registered EXCEPT ![h] = [measure |-> measure, budget |-> budget, at |-> at]]
  /\ UNCHANGED <<entries, metadata>>

PeriodsValid(w) ==
  /\ \A period \in {w.train, w.validation, w.test} : period[1] < period[2]
  /\ w.train[2] <= w.validation[1] /\ w.validation[2] <= w.test[1]

TrialsOf(h) == {i \in DOMAIN entries : entries[i].hypothesis = h}
LastHash == IF entries = <<>> THEN 0 ELSE entries[Len(entries)].hash

\* Mutation of AppendTrial: the budget is compared with the trials before this one.
AppendTrialOverBudget(trial, h, w, at, measure) ==
  LET ordinal == 1 + Cardinality(TrialsOf(h)) IN
  /\ \A i \in DOMAIN entries : entries[i].trial # trial
  /\ registered[h] # NoHypothesis
  /\ at >= registered[h].at /\ measure = registered[h].measure
  /\ ordinal - 1 <= registered[h].budget
  /\ PeriodsValid(w)
  /\ entries' = Append(entries,
       [trial |-> trial, hypothesis |-> h, intact |-> TRUE, windows |-> w, at |-> at,
        measure |-> measure, ordinal |-> ordinal, previous |-> LastHash, hash |-> Len(entries) + 1])
  /\ UNCHANGED <<registered, metadata>>

\* The guards in the order of the code; those on wording and finite numbers are left out.
AppendTrial(trial, h, w, at, measure) ==
  LET ordinal == 1 + Cardinality(TrialsOf(h)) IN
  /\ \A i \in DOMAIN entries : entries[i].trial # trial
  /\ registered[h] # NoHypothesis
  /\ at >= registered[h].at /\ measure = registered[h].measure
  /\ ordinal <= registered[h].budget
  /\ PeriodsValid(w)
  /\ entries' = Append(entries,
       [trial |-> trial, hypothesis |-> h, intact |-> TRUE, windows |-> w, at |-> at,
        measure |-> measure, ordinal |-> ordinal, previous |-> LastHash, hash |-> Len(entries) + 1])
  /\ UNCHANGED <<registered, metadata>>

\* The caller changes the dict of parameters it once passed, or puts it back.
CallerChanges(i, intact) ==
  /\ entries' = [entries EXCEPT ![i].intact = intact]
  /\ UNCHANGED <<registered, metadata>>

VerifyIntegrity ==
  \A i \in DOMAIN entries :
    /\ entries[i].previous = IF i = 1 THEN 0 ELSE entries[i - 1].hash
    /\ entries[i].intact

-----------------------------------------------------------------------------
\* Mutation of RecordVersion: the bucket is left in the order of the calls.
RecordUnsorted(version, at) ==
  /\ Len(metadata) < MaxVersions
  /\ \A i \in DOMAIN metadata : metadata[i].at = at => metadata[i].version = version
  /\ metadata' = IF \E i \in DOMAIN metadata : metadata[i].at = at THEN metadata
                 ELSE Append(metadata, [at |-> at, version |-> version])
  /\ UNCHANGED <<registered, entries>>

\* A conflict is refused and a repetition ignored; the bucket is sorted again.
RecordVersion(version, at) ==
  /\ Len(metadata) < MaxVersions
  /\ \A i \in DOMAIN metadata : metadata[i].at = at => metadata[i].version = version
  /\ IF \E i \in DOMAIN metadata : metadata[i].at = at THEN UNCHANGED metadata
     ELSE \E n \in 0..Len(metadata) :
            /\ \A i \in 1..n : metadata[i].at < at
            /\ \A i \in (n + 1)..Len(metadata) : metadata[i].at > at
            /\ metadata' = SubSeq(metadata, 1, n) \o <<[at |-> at, version |-> version]>>
                             \o SubSeq(metadata, n + 1, Len(metadata))
  /\ UNCHANGED <<registered, entries>>

\* version_at takes the last of the eligible versions.
Eligible(asOf) == {i \in DOMAIN metadata : metadata[i].at <= asOf}
VersionAt(asOf) == metadata[CHOOSE i \in Eligible(asOf) : \A j \in Eligible(asOf) : j <= i]

ResearchNext ==
  \/ \E h \in Hypotheses, measure \in Measures, budget \in Budgets, at \in ResearchTimes :
       RegisterHypothesis(h, measure, budget, at)
  \/ \E trial \in Trials, h \in Hypotheses, w \in Windows, at \in ResearchTimes,
        measure \in Measures : AppendTrial(trial, h, w, at, measure)
  \/ \E i \in DOMAIN entries, intact \in BOOLEAN : CallerChanges(i, intact)
  \/ \E version \in MetaVersions, at \in ResearchTimes : RecordVersion(version, at)

ResearchSpec == ResearchInit /\ [][ResearchNext]_researchVars

-----------------------------------------------------------------------------
(* Properties.                                                             *)

\* append_trial: the trials of a hypothesis are numbered without a gap and never exceed its
\* search budget, whatever was appended for other hypotheses in between.
SearchIsCounted ==
  \A h \in Hypotheses :
    /\ \A i \in TrialsOf(h) :
         registered[h] # NoHypothesis /\ entries[i].ordinal <= registered[h].budget
    /\ {entries[i].ordinal : i \in TrialsOf(h)} = 1..Cardinality(TrialsOf(h))

\* append_trial: every result was measured as it was registered before, on a test period
\* that begins after the training period.
NothingIsChosenAfterwards ==
  \A i \in DOMAIN entries :
    LET h == registered[entries[i].hypothesis]  w == entries[i].windows IN
    /\ entries[i].at >= h.at /\ entries[i].measure = h.measure
    /\ w.train[2] < w.test[2] /\ w.train[2] <= w.test[1]

\* verify_integrity: it holds exactly while no entry differs from what was appended.
TamperingShows == VerifyIntegrity <=> \A i \in DOMAIN entries : entries[i].intact

\* version_at: the answer is the newest version that was in force by then, the only one of
\* its time, in whatever order the versions were recorded.
AnswersArePointInTime ==
  \A asOf \in ResearchTimes : Eligible(asOf) # {} =>
    LET v == VersionAt(asOf) IN
    \A i \in DOMAIN metadata :
      metadata[i].at <= asOf => metadata[i].at < v.at \/ metadata[i] = v

\* research/registry.py and universe/manager.py: results are counted against what was
\* registered first, and history is read as it was.
ResearchIsHonest ==
  /\ SearchIsCounted /\ NothingIsChosenAfterwards /\ TamperingShows
  /\ AnswersArePointInTime
=============================================================================
