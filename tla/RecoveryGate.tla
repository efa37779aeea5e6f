---------------------------- MODULE RecoveryGate ----------------------------
(***************************************************************************)
(* RecoveryHysteresisGate: recovery checks are sampled, and only sustained  *)
(* green makes ACTIVE eligible.  The clock a caller passes may go back.     *)
(***************************************************************************)
EXTENDS Integers, Sequences

CONSTANTS MinSeconds,     \* min_healthy_seconds
          MinSuccesses,   \* min_consecutive_successes
          Times,          \* clock readings
          MaxSamples      \* bound on samples, for model checking only

None == -1

ASSUME GateAssumption ==
  /\ MinSeconds \in Nat /\ MinSuccesses \in Nat \ {0}
  /\ Times \subseteq Nat /\ MaxSamples \in Nat

VARIABLES firstGreenAt, lastSeenAt, successes,
          answer,    \* what observe returned last
          samples    \* history: the samples observed, oldest first

hysteresisVars == <<firstGreenAt, lastSeenAt, successes, answer, samples>>

Samples == [time : Times, green : {"yes", "no"}]
Answers == {"eligible", "wait", "raised"}

HysteresisTypeOK ==
  /\ firstGreenAt \in Times \cup {None}
  /\ lastSeenAt \in Times \cup {None}
  /\ successes \in Nat
  /\ answer \in Answers
  /\ samples \in Seq(Samples)

HysteresisInit ==
  /\ firstGreenAt = None /\ lastSeenAt = None
  /\ successes = 0
  /\ answer = "wait"
  /\ samples = <<>>

Sampled(now, green) ==
  /\ Len(samples) < MaxSamples
  /\ samples' = Append(samples, [time |-> now, green |-> green])

WentBack(now) == lastSeenAt # None /\ now < lastSeenAt

\* reset(), and the exception.
ObserveWentBack(now, green) ==
  /\ WentBack(now)
  /\ Sampled(now, green)
  /\ firstGreenAt' = None /\ lastSeenAt' = None /\ successes' = 0
  /\ answer' = "raised"

\* Mutation of ObserveRed: a red sample waits without resetting.
ObserveRedKeeps(now) ==
  /\ ~WentBack(now)
  /\ Sampled(now, "no")
  /\ lastSeenAt' = now
  /\ answer' = "wait"
  /\ UNCHANGED <<firstGreenAt, successes>>

\* reset(keep_clock=True).
ObserveRed(now) ==
  /\ ~WentBack(now)
  /\ Sampled(now, "no")
  /\ firstGreenAt' = None /\ lastSeenAt' = now /\ successes' = 0
  /\ answer' = "wait"

ObserveGreen(now) ==
  /\ ~WentBack(now)
  /\ Sampled(now, "yes")
  /\ lastSeenAt' = now
  /\ firstGreenAt' = IF firstGreenAt = None THEN now ELSE firstGreenAt
  /\ successes' = successes + 1
  /\ answer' = IF successes' >= MinSuccesses /\ now - firstGreenAt' >= MinSeconds
               THEN "eligible" ELSE "wait"

\* reset(), called by the gate's owner.
Reset ==
  /\ firstGreenAt' = None /\ lastSeenAt' = None /\ successes' = 0
  /\ UNCHANGED <<answer, samples>>

HysteresisNext ==
  \/ \E now \in Times : ObserveRed(now) \/ ObserveGreen(now)
  \/ \E now \in Times, green \in {"yes", "no"} : ObserveWentBack(now, green)
  \/ Reset

HysteresisSpec == HysteresisInit /\ [][HysteresisNext]_hysteresisVars

-----------------------------------------------------------------------------
(* Properties.                                                             *)

\* The samples from the k-th on are green, in the order of the clock, enough, and
\* span the healthy interval.
SustainedFrom(k) ==
  /\ Len(samples) - k + 1 >= MinSuccesses
  /\ samples[Len(samples)].time - samples[k].time >= MinSeconds
  /\ \A i \in k..Len(samples) : samples[i].green = "yes"
  /\ \A i \in k..(Len(samples) - 1) : samples[i].time <= samples[i + 1].time

\* observe answers True only for a sustained run of green samples; one red sample
\* or a clock that went back starts it again.
EligibleIsSustained ==
  answer = "eligible" => \E k \in 1..Len(samples) : SustainedFrom(k)

\* The fields describe the samples of the current run, and its start.
Start == Len(samples) - successes + 1

RunInv ==
  /\ successes <= Len(samples)
  /\ (successes = 0) = (firstGreenAt = None)
  /\ successes > 0 =>
       /\ firstGreenAt = samples[Start].time
       /\ lastSeenAt = samples[Len(samples)].time
       /\ \A i \in Start..Len(samples) : samples[i].green = "yes"
       /\ \A i \in Start..(Len(samples) - 1) : samples[i].time <= samples[i + 1].time
=============================================================================
