---------------------------- MODULE ProcessTree ----------------------------
(* scripts/bounded_subprocess.py and its client operation_lock_exec.py: a    *)
(* command runs in a process group of its own, with a time limit, and the    *)
(* whole group is ended before the call gives up on it.  POSIX only.  Text   *)
(* and byte capture differ in decoding alone and are the kind "split";       *)
(* run_captured is "captured" and operation_lock_exec is "exec", which has   *)
(* no pipes and no time limit.                                               *)
(*                                                                           *)
(* A process may exit at any time, so the SIGTERM of terminate_process_tree  *)
(* forces nothing in the model; only its SIGKILL does.  A signal handler     *)
(* interrupts the call where it stands: frames is the stack of running       *)
(* calls of terminate_process_tree, the one that runs last in the sequence.  *)
EXTENDS Naturals, Sequences

CONSTANTS Leader, Descendants,  \* the command, and what it may fork
          MaxInterrupts         \* bound on signals, for model checking only

ASSUME LeaderAssumption == Leader \notin Descendants

VARIABLES
  member,      \* member[m]: how process m stands
  call,        \* the kind of call, where it is and how it ended
  previous,    \* what the caller did with SIGTERM and SIGHUP before
  frames,      \* the running calls of terminate_process_tree
  interrupts,  \* signals received
  exposed      \* one of them ended the call while no guard was installed

processVars == <<member, call, previous, frames, interrupts, exposed>>

Members == {Leader} \cup Descendants
Kinds == {"captured", "split", "exec"}
Unborn == [alive |-> FALSE, born |-> FALSE, group |-> FALSE, pipe |-> FALSE]

Alive(m) == member[m].alive
InGroup(m) == Alive(m) /\ member[m].group
HoldsPipe(m) == Alive(m) /\ member[m].pipe

CallAt(place) == call.at = place
Goes(place) == call' = [call EXCEPT !.at = place]
CallEnds(result) == call' = [call EXCEPT !.at = "ended", !.result = result]

\* The handlers are installed around the wait, and around the last cleanup of
\* operation_lock_exec, and nowhere else.
Guarded == CallAt("waiting") \/ CallAt("finishing")

\* Pipes are at end of file and the leader can be reaped.
Drained == ~Alive(Leader) /\ \A m \in Members : ~HoldsPipe(m)

ProcessInit ==
  /\ member = [m \in Members |-> Unborn]
  /\ call \in [kind : Kinds, at : {"idle"}, result : {"none"}]
  /\ previous \in {"default", "ignore", "raise"}
  /\ frames = <<>> /\ interrupts = 0 /\ exposed = FALSE

----------------------------------------------------------------------------
(* The command and its descendants. *)

\* A new process inherits the group and the pipes of the one that forks it.
Fork(m, n) ==
  /\ Alive(m) /\ ~member[n].born
  /\ member' = [member EXCEPT ![n] = member[m]]
  /\ UNCHANGED <<call, previous, frames, interrupts, exposed>>

ProcessExits(m) ==
  /\ Alive(m)
  /\ member' = [member EXCEPT ![m].alive = FALSE]
  /\ UNCHANGED <<call, previous, frames, interrupts, exposed>>

\* A descendant becomes the leader of a session of its own.
LeaveGroup(m) ==
  /\ InGroup(m) /\ m # Leader
  /\ member' = [member EXCEPT ![m].group = FALSE]
  /\ UNCHANGED <<call, previous, frames, interrupts, exposed>>

ClosePipe(m) ==
  /\ HoldsPipe(m)
  /\ member' = [member EXCEPT ![m].pipe = FALSE]
  /\ UNCHANGED <<call, previous, frames, interrupts, exposed>>

----------------------------------------------------------------------------
(* terminate_process_tree *)

Enter(step) == frames' = Append(frames, step)
Running(step) == frames # <<>> /\ frames[Len(frames)] = step

\* Mutation of GroupGone: a leader that has exited passes for an empty group.
GroupGone_LeaderExited ==
  /\ Running("grace") /\ ~Alive(Leader)
  /\ frames' = [frames EXCEPT ![Len(frames)] = "done"]
  /\ UNCHANGED <<member, call, previous, interrupts, exposed>>

\* The probe of the group finds nobody.
GroupGone ==
  /\ Running("grace") /\ \A m \in Members : ~InGroup(m)
  /\ frames' = [frames EXCEPT ![Len(frames)] = "done"]
  /\ UNCHANGED <<member, call, previous, interrupts, exposed>>

GraceOver ==
  /\ Running("grace")
  /\ frames' = [frames EXCEPT ![Len(frames)] = "kill"]
  /\ UNCHANGED <<member, call, previous, interrupts, exposed>>

\* Mutation of KillGroup: only the leader is killed.
KillGroup_LeaderOnly ==
  /\ Running("kill")
  /\ member' = [member EXCEPT ![Leader].alive = FALSE]
  /\ frames' = [frames EXCEPT ![Len(frames)] = "done"]
  /\ UNCHANGED <<call, previous, interrupts, exposed>>

\* SIGKILL reaches every member of the group at once.
KillGroup ==
  /\ Running("kill")
  /\ member' = [m \in Members |->
                  [member[m] EXCEPT !.alive = Alive(m) /\ ~InGroup(m)]]
  /\ frames' = [frames EXCEPT ![Len(frames)] = "done"]
  /\ UNCHANGED <<call, previous, interrupts, exposed>>

----------------------------------------------------------------------------
(* Signals to the caller *)

\* The frame that ends belongs to a signal handler and not to the call.
InHandler == Guarded /\ (CallAt("waiting") \/ Len(frames) > 1)

\* SIGTERM or SIGHUP: the guard ends the tree first; without it the caller
\* does what it did before.
SignalArrives ==
  /\ ~CallAt("idle") /\ ~CallAt("ended") /\ interrupts < MaxInterrupts
  /\ interrupts' = interrupts + 1
  /\ exposed' = (exposed \/ (~Guarded /\ previous # "ignore"))
  /\ IF Guarded THEN Enter("grace") /\ UNCHANGED call
     ELSE CASE previous = "ignore" -> UNCHANGED <<call, frames>>
            [] previous = "default" -> CallEnds("died") /\ frames' = <<>>
            [] OTHER -> CallEnds("raised") /\ frames' = <<>>
  /\ UNCHANGED <<member, previous>>

\* The tree is gone: hand the signal on to the earlier handler.
HandlerEnds ==
  /\ Running("done") /\ InHandler
  /\ CASE previous = "ignore" -> frames' = SubSeq(frames, 1, Len(frames) - 1) /\ UNCHANGED call
       [] previous = "default" -> CallEnds("died") /\ frames' = <<>>
       [] OTHER -> Goes("cancelled") /\ frames' = <<"grace">>
  /\ UNCHANGED <<member, previous, interrupts, exposed>>

\* An exception inside the guard (KeyboardInterrupt, or a lost lock in exec)
\* goes to the cleanup; one outside it leaves the call at once.
Raises ==
  IF Guarded THEN Goes("cancelled") /\ frames' = <<"grace">>
  ELSE CallEnds("raised") /\ frames' = <<>>

KeyboardInterrupt ==
  /\ ~CallAt("idle") /\ ~CallAt("ended") /\ interrupts < MaxInterrupts
  /\ interrupts' = interrupts + 1
  /\ exposed' = (exposed \/ ~Guarded)
  /\ Raises
  /\ UNCHANGED <<member, previous>>

----------------------------------------------------------------------------
(* The call *)

\* Popen returns: the command runs, in a new session, and no guard yet.
StartGroup ==
  /\ CallAt("idle") /\ Goes("started")
  /\ member' = [member EXCEPT ![Leader] =
                  [alive |-> TRUE, born |-> TRUE, group |-> TRUE,
                   pipe |-> call.kind # "exec"]]
  /\ UNCHANGED <<previous, frames, interrupts, exposed>>

InstallGuard ==
  /\ CallAt("started") /\ Goes("waiting")
  /\ UNCHANGED <<member, previous, frames, interrupts, exposed>>

CommunicateReturns ==
  /\ CallAt("waiting") /\ call.kind # "exec" /\ frames = <<>> /\ Drained
  /\ CallEnds("returned")
  /\ UNCHANGED <<member, previous, frames, interrupts, exposed>>

TimesOut ==
  /\ CallAt("waiting") /\ call.kind # "exec" /\ frames = <<>>
  /\ Goes("timedOut") /\ Enter("grace")
  /\ UNCHANGED <<member, previous, interrupts, exposed>>

\* Mutation of LeaderExits: the command is taken for finished with its leader.
LeaderExits_NoQuiesce ==
  /\ CallAt("waiting") /\ call.kind = "exec" /\ frames = <<>> /\ ~Alive(Leader)
  /\ Goes("finishing") /\ Enter("done")
  /\ UNCHANGED <<member, previous, interrupts, exposed>>

\* exec sees the end of the leader and quiesces what is left of its tree,
\* still inside the guard.
LeaderExits ==
  /\ CallAt("waiting") /\ call.kind = "exec" /\ frames = <<>> /\ ~Alive(Leader)
  /\ Goes("finishing") /\ Enter("grace")
  /\ UNCHANGED <<member, previous, interrupts, exposed>>

\* assert_healthy raises, at a poll or after the last cleanup.
LockLost ==
  /\ call.kind = "exec"
  /\ \/ CallAt("waiting") /\ frames = <<>>
     \/ CallAt("finishing") /\ frames = <<"done">>
  /\ Raises
  /\ UNCHANGED <<member, previous, interrupts, exposed>>

ExecReturns ==
  /\ CallAt("finishing") /\ frames = <<"done">>
  /\ CallEnds("returned") /\ frames' = <<>>
  /\ UNCHANGED <<member, previous, interrupts, exposed>>

\* After the cleanup: exec raises, the others read what is left for 5 s.
CleanupEnds ==
  /\ CallAt("timedOut") \/ CallAt("cancelled")
  /\ frames = <<"done">> /\ frames' = <<>>
  /\ IF call.kind = "exec" THEN CallEnds("raised")
     ELSE Goes(IF CallAt("timedOut") THEN "draining" ELSE "discarding")
  /\ UNCHANGED <<member, previous, interrupts, exposed>>

DrainReturns ==
  /\ CallAt("draining") \/ CallAt("discarding") \/ CallAt("lastRead")
  /\ frames = <<>> /\ Drained
  /\ CallEnds("raised")
  /\ UNCHANGED <<member, previous, frames, interrupts, exposed>>

\* Somebody still holds a pipe: kill once more, the group (split) or the
\* leader (captured), which changes nothing for a leader that is gone.
DrainTimesOut ==
  /\ CallAt("draining") \/ CallAt("discarding")
  /\ frames = <<>>
  /\ IF call.kind = "split" THEN Enter("kill") /\ UNCHANGED <<call, member>>
     ELSE /\ member' = [member EXCEPT ![Leader].alive = FALSE]
          /\ IF CallAt("draining") THEN Goes("lastRead")
             ELSE CallEnds("raised")
          /\ UNCHANGED frames
  /\ UNCHANGED <<previous, interrupts, exposed>>

SecondKillEnds ==
  /\ CallAt("draining") \/ CallAt("discarding")
  /\ frames = <<"done">> /\ frames' = <<>>
  /\ IF CallAt("draining") THEN Goes("lastRead") ELSE CallEnds("raised")
  /\ UNCHANGED <<member, previous, interrupts, exposed>>

\* Only split bounds its last read; the exception is a TimeoutExpired as well.
LastReadTimesOut ==
  /\ CallAt("lastRead") /\ call.kind = "split"
  /\ CallEnds("raised")
  /\ UNCHANGED <<member, previous, frames, interrupts, exposed>>

ProcessNext ==
  \/ \E m \in Members : \E n \in Descendants : Fork(m, n)
  \/ \E m \in Members : ProcessExits(m) \/ LeaveGroup(m) \/ ClosePipe(m)
  \/ GroupGone \/ GraceOver \/ KillGroup
  \/ SignalArrives \/ HandlerEnds \/ KeyboardInterrupt
  \/ StartGroup \/ InstallGuard \/ CommunicateReturns \/ TimesOut
  \/ LeaderExits \/ LockLost \/ ExecReturns
  \/ CleanupEnds \/ DrainReturns \/ DrainTimesOut \/ SecondKillEnds
  \/ LastReadTimesOut

ProcessSpec == ProcessInit /\ [][ProcessNext]_processVars

----------------------------------------------------------------------------
(* Properties *)

TreeIsGone == \A m \in Members : ~InGroup(m)

\* A call that gives up, by its time limit, an exception or a signal of the
\* caller, leaves no process of the group behind, also when the leader had
\* exited before its descendants, two signals nest or a signal meets the last
\* cleanup: unless a signal came where no guard is installed.
CancelledLeavesNoTree ==
  (CallAt("ended") /\ call.result \in {"raised", "died"} /\ ~exposed)
    => TreeIsGone

\* operation_lock_exec releases the platform lock on return: by then nothing of
\* the deployment it ran is left, whatever its leader left behind.
LockCoversTree ==
  (call.kind = "exec" /\ CallAt("ended") /\ call.result = "returned")
    => TreeIsGone

\* The read of run_captured without a time limit can only be kept waiting by a
\* process that left the group on its own.
WaitsOnlyForEscaped ==
  (CallAt("lastRead") /\ frames = <<>>) => TreeIsGone

\* bounded_subprocess.py and operation_lock_exec.py: a call, its lock and its
\* wait end with the processes it started, and not before them.
CallEndsItsTree ==
  /\ CancelledLeavesNoTree
  /\ LockCoversTree
  /\ WaitsOnlyForEscaped

\* What the docstring of run_captured says: descendants are never orphaned on
\* time-out or cancellation.  It fails for a signal between Popen and the guard
\* and for one during the cleanup, which runs after the guard is removed.
NeverOrphans ==
  (CallAt("ended") /\ call.result \in {"raised", "died"}) => TreeIsGone
=============================================================================
