---------------------------- MODULE LeaderLease ----------------------------
(***************************************************************************)
(* The leader lease of one exchange account: DatabaseLeaderRegistry        *)
(* (one leader_leases row per account, rows of different accounts never    *)
(* meet), the tokens its callers carry, and the FencingTokenGuard that     *)
(* DatabaseExecutionFence keeps in each process.                           *)
(*                                                                         *)
(* Time enters the code only through the comparison expires_at > now, and  *)
(* `now` is the wall clock of the calling instance.  The row therefore     *)
(* carries, in place of the instant expires_at, the set of instances whose *)
(* clock has passed it.  When instance i writes a new expiry its own clock *)
(* is before it; a skewed clock of another instance may be past it at once.*)
(* On PostgreSQL the row is read FOR UPDATE, so acquire and heartbeat are  *)
(* atomic; two first inserts collide on the primary key.                   *)
(***************************************************************************)
EXTENDS Integers

CONSTANTS Instances,   \* trading engine instances (instance_id)
          NoInstance,  \* the holder while the account has no lease row
          MaxToken     \* bound on fencing tokens, for model checking only

ASSUME LeaseAssumption == NoInstance \notin Instances /\ MaxToken \in Nat

VARIABLES lease,    \* the account's leader_leases row
          held,     \* held[i]: tokens of the PersistentLease objects in process i
          highest,  \* FencingTokenGuard._highest of process i (0: no entry)
          grants    \* history: every lease acquire ever returned

leaseVars == <<lease, held, highest, grants>>

Tokens == 1..MaxToken
Grant == [instance : Instances, token : Tokens]
NoLease == [instance |-> NoInstance, token |-> 0, expired |-> {}]

LeaseTypeOK ==
  /\ lease \in [instance : Instances \cup {NoInstance},
                token : 0..MaxToken, expired : SUBSET Instances]
  /\ held \in [Instances -> SUBSET Tokens]
  /\ highest \in [Instances -> 0..MaxToken]
  /\ grants \subseteq Grant

LeaseInit ==
  /\ lease = NoLease
  /\ held = [i \in Instances |-> {}]
  /\ highest = [i \in Instances |-> 0]
  /\ grants = {}

\* _aware(row.expires_at) > now, on the clock of instance i.
Unexpired(i) == i \notin lease.expired

\* The row's expiry becomes i's clock plus the TTL.
WriteLease(i, token) ==
  \E skewed \in SUBSET (Instances \ {i}) :
    lease' = [instance |-> i, token |-> token, expired |-> skewed]

\* Mutation of NextToken: a takeover keeps the row's token.
TakeoverKeepsToken(i) == IF lease.token = 0 THEN 1 ELSE lease.token

\* The token acquire writes: the current one for the live holder, else the next.
NextToken(i) ==
  IF lease.instance = i /\ Unexpired(i) THEN lease.token ELSE lease.token + 1

Acquire(i) ==
  /\ lease.token = 0 \/ ~Unexpired(i) \/ lease.instance = i
  /\ NextToken(i) <= MaxToken
  /\ WriteLease(i, NextToken(i))
  /\ held' = [held EXCEPT ![i] = @ \cup {NextToken(i)}]
  /\ grants' = grants \cup {[instance |-> i, token |-> NextToken(i)]}
  /\ UNCHANGED highest

\* Mutation of Validate: only the row's expiry is looked at.
ValidateExpiry(i, token) == Unexpired(i)

Validate(i, token) ==
  /\ lease.instance = i
  /\ lease.token = token
  /\ Unexpired(i)

Heartbeat(i) ==
  /\ \E token \in held[i] : Validate(i, token)
  /\ WriteLease(i, lease.token)
  /\ UNCHANGED <<held, highest, grants>>

\* FencingTokenGuard.accept.
GuardAccepts(i, token) == token >= highest[i]

GuardRecords(i, token) == highest' = [highest EXCEPT ![i] = token]

\* DatabaseExecutionFence.require_current: the guard records the token before
\* the registry is asked, so a token that then fails validation stays recorded.
RequireCurrent(i, token) ==
  /\ GuardAccepts(i, token)
  /\ GuardRecords(i, token)
  /\ Validate(i, token)
  /\ UNCHANGED <<lease, held, grants>>

\* It raises: the guard refuses, or the registry does, or its read fails.
RequireFails(i, token) ==
  /\ IF GuardAccepts(i, token) THEN GuardRecords(i, token) ELSE UNCHANGED highest
  /\ UNCHANGED <<lease, held, grants>>

\* The clock of instance i passes expires_at.
Elapse(i) ==
  /\ lease.token > 0 /\ Unexpired(i)
  /\ lease' = [lease EXCEPT !.expired = @ \cup {i}]
  /\ UNCHANGED <<held, highest, grants>>

\* The process of instance i dies and comes back under the same instance_id:
\* its lease objects and its guard are gone, the row is not.
LoseProcess(i) ==
  /\ held' = [held EXCEPT ![i] = {}]
  /\ highest' = [highest EXCEPT ![i] = 0]
  /\ UNCHANGED <<lease, grants>>

LeaseNext ==
  \E i \in Instances :
    \/ Acquire(i)
    \/ Heartbeat(i)
    \/ \E token \in held[i] : RequireCurrent(i, token) \/ RequireFails(i, token)
    \/ Elapse(i)
    \/ LoseProcess(i)

LeaseSpec == LeaseInit /\ [][LeaseNext]_leaseVars

-----------------------------------------------------------------------------
(* What fencing promises.                                                  *)

\* A fencing token names one instance for ever: whatever the clocks say, no two
\* instances are ever granted the same token (DatabaseLeaderRegistry.acquire).
OneHolderPerToken ==
  \A g, h \in grants : g.token = h.token => g.instance = h.instance

\* A process never records, in FencingTokenGuard, a token newer than the
\* registry's, so its guard can not lock out the true leader.
GuardBehindRegistry == \A i \in Instances : highest[i] <= lease.token

\* The row's token never goes back, and the account changes hands only under a
\* larger token (acquire; heartbeat and the passing of time leave it alone).
TakeoverRaisesToken ==
  [][ /\ lease'.token >= lease.token
      /\ lease'.instance # lease.instance => lease'.token > lease.token
    ]_leaseVars

\* The inductive invariant behind OneHolderPerToken.
LeaseInv ==
  /\ LeaseTypeOK
  /\ lease.token = 0 <=> lease.instance = NoInstance
  /\ lease.token > 0 => [instance |-> lease.instance, token |-> lease.token] \in grants
  /\ \A g \in grants : g.token <= lease.token
  /\ \A i \in Instances : \A token \in held[i] :
       [instance |-> i, token |-> token] \in grants
  /\ OneHolderPerToken
  /\ GuardBehindRegistry
=============================================================================
