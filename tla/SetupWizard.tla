----------------------------- MODULE SetupWizard -----------------------------
(***************************************************************************)
(* The setup wizard (services/setup_wizard.py) and its two endpoints. One   *)
(* row holds the progress; a request reads it, works on the copy and then   *)
(* commits the columns it changed. Nothing locks the row between the two,   *)
(* so requests of two threads may overlap and the later commit wins.        *)
(***************************************************************************)
EXTENDS Integers, FiniteSets

CONSTANTS Sessions,    \* requests that may be under way at a time
          LastStep,    \* STEPS is 1..LastStep; the last one carries preflight_ok
          Preferences, \* the step whose data is validated
          NoAnswer     \* a step without data

ASSUME WizardAssumption ==
  /\ LastStep \in Nat \ {0} /\ Preferences \in 1..LastStep
  /\ NoAnswer \notin {"good", "bad"}

VARIABLES wizard,    \* the row: completed_steps, non_secret_config, current_step, completed_at
          sessions,  \* what each request read, and what it will write
          overlapped \* history: some commit was based on a row that had changed since

wizardVars == <<wizard, sessions, overlapped>>

Steps == 1..LastStep
\* Data that passes the check made of it, or not; most steps make none.
Answers == {"good", "bad"}
WizardRows == [exists : BOOLEAN, done : SUBSET Steps, config : [Steps -> Answers \cup {NoAnswer}],
               current : Steps, completed : BOOLEAN]

EmptyRow == [exists |-> TRUE, done |-> {}, config |-> [s \in Steps |-> NoAnswer],
             current |-> 1, completed |-> FALSE]
NotStarted == [EmptyRow EXCEPT !.exists = FALSE]
IdleSession == [busy |-> FALSE, read |-> NotStarted, new |-> NotStarted]

WizardTypeOK ==
  /\ wizard \in WizardRows /\ overlapped \in BOOLEAN
  /\ sessions \in [Sessions -> [busy : BOOLEAN, read : WizardRows, new : WizardRows]]

WizardInit ==
  /\ wizard = NotStarted /\ overlapped = FALSE
  /\ sessions = [s \in Sessions |-> IdleSession]

-----------------------------------------------------------------------------
StartOrResume ==
  /\ ~wizard.exists /\ wizard' = EmptyRow
  /\ UNCHANGED <<sessions, overlapped>>

\* The first step that is not completed yet; the last when all are.
Expected(done) ==
  IF done = Steps THEN LastStep
  ELSE CHOOSE s \in Steps \ done : \A t \in Steps \ done : s <= t

\* The copy after a step: LastStep bounds current_step as the 8 of the code does.
Completing(row, step, answer) ==
  LET done == row.done \cup {step}
      config == [row.config EXCEPT ![step] = answer] IN
  [exists |-> TRUE, done |-> done, config |-> config,
   current |-> IF done = Steps \/ step = LastStep THEN LastStep ELSE step + 1,
   completed |-> row.completed \/ done = Steps]

\* Mutation of CompleteStep: a step that is repeated skips the check of the preflight.
CompleteStepUnchecked(s, step, answer) ==
  LET new == Completing(wizard, step, answer) IN
  /\ ~sessions[s].busy /\ wizard.exists
  /\ step = Expected(wizard.done) \/ step \in wizard.done
  /\ step = Preferences => answer = "good"
  /\ new.done = Steps /\ ~wizard.completed => new.config[LastStep] = "good"
  /\ sessions' = [sessions EXCEPT ![s] = [busy |-> TRUE, read |-> wizard, new |-> new]]
  /\ UNCHANGED <<wizard, overlapped>>

\* complete_step up to the commit; the errors leave the row alone. A completed step may be
\* done again, and the final preflight is looked up in the configuration.
CompleteStep(s, step, answer) ==
  LET new == Completing(wizard, step, answer) IN
  /\ ~sessions[s].busy /\ wizard.exists
  /\ step = Expected(wizard.done) \/ step \in wizard.done
  /\ step = Preferences => answer = "good"
  /\ new.done = Steps => new.config[LastStep] = "good"
  /\ sessions' = [sessions EXCEPT ![s] = [busy |-> TRUE, read |-> wizard, new |-> new]]
  /\ UNCHANGED <<wizard, overlapped>>

\* The commit writes the columns that differ from what was read. completed_at is set to a
\* new time whenever all steps are done.
CommitStep(s) ==
  LET r == sessions[s].read  n == sessions[s].new IN
  /\ sessions[s].busy
  /\ wizard' = [exists |-> TRUE,
                done |-> IF n.done = r.done THEN wizard.done ELSE n.done,
                config |-> IF n.config = r.config THEN wizard.config ELSE n.config,
                current |-> IF n.current = r.current THEN wizard.current ELSE n.current,
                completed |-> wizard.completed \/ n.completed]
  /\ overlapped' = (overlapped \/ wizard # r)
  /\ sessions' = [sessions EXCEPT ![s] = IdleSession]

\* The request fails before its commit: the transaction is rolled back.
RollBack(s) ==
  /\ sessions[s].busy
  /\ sessions' = [sessions EXCEPT ![s] = IdleSession]
  /\ UNCHANGED <<wizard, overlapped>>

WizardNext ==
  \/ StartOrResume
  \/ \E s \in Sessions :
       \/ \E step \in Steps, answer \in Answers : CompleteStep(s, step, answer)
       \/ CommitStep(s) \/ RollBack(s)

WizardSpec == WizardInit /\ [][WizardNext]_wizardVars

-----------------------------------------------------------------------------
(* Properties.                                                             *)

InOrder(row) == \E k \in 0..LastStep : row.done = 1..k

\* complete_step: no step is ever recorded before the ones that come before it,
\* though a stale commit may take the row back to an earlier step.
StepsInOrder ==
  InOrder(wizard) /\ \A s \in Sessions : InOrder(sessions[s].read) /\ InOrder(sessions[s].new)

\* complete_step: as long as no two requests overlapped, the configuration is that of the
\* completed steps, the setup is complete exactly when all of them are, its recorded final
\* preflight then passed, and the step shown is not past the first one left to do.
RowIsWhole(row) ==
  /\ {s \in Steps : row.config[s] # NoAnswer} = row.done
  /\ row.completed <=> row.done = Steps
  /\ row.completed => row.config[LastStep] = "good"
  /\ \A s \in Steps : s < row.current => s \in row.done

\* setup_wizard.py: the wizard completes in order, on a preflight that passed.
SetupIsSequential ==
  /\ StepsInOrder
  /\ ~overlapped => RowIsWhole(wizard)
=============================================================================
