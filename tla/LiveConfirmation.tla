-------------------------- MODULE LiveConfirmation --------------------------
(***************************************************************************)
(* TelegramCommandSecurity: a LIVE order is confirmed with a one-time nonce  *)
(* and the digest of what was shown.  A principal is a chat and user pair.   *)
(* nonce_factory draws nonces that were never drawn before; a digest is the  *)
(* material it is made of.                                                   *)
(***************************************************************************)
EXTENDS Integers

CONSTANTS Principals, Allowed,  \* who writes, and who is on both allowlists
          LiveOrders,           \* symbol, side and notional shown
          Nonces,
          NonceTtl,
          MaxNonceTime,         \* bound on the clock
          MaxUses               \* bound on the counts of the history

ASSUME ConfirmationAssumption ==
  Allowed \subseteq Principals /\ NonceTtl \in Nat \ {0} /\ MaxNonceTime \in Nat
    /\ MaxUses \in Nat \ {0}

VARIABLES stateEnabled,  \* state_changing_commands_enabled
          issued,        \* _issued, a function of nonces
          consumed,      \* _consumed
          shown,         \* history: the confirmations sent out, all of them
          uses,          \* history: how often each was accepted
          accepted,      \* history: what the last acceptance was about
          nonceNow

confirmationVars == <<stateEnabled, issued, consumed, shown, uses, accepted, nonceNow>>

NothingAccepted == [by |-> "nobody"]

ConfirmationInit ==
  /\ stateEnabled \in BOOLEAN
  /\ issued = <<>> /\ consumed = {} /\ shown = {}
  /\ uses = [n \in Nonces |-> 0]
  /\ accepted = NothingAccepted
  /\ nonceNow = 0

NonceTick ==
  /\ nonceNow < MaxNonceTime /\ nonceNow' = nonceNow + 1
  /\ UNCHANGED <<stateEnabled, issued, consumed, shown, uses, accepted>>

\* authorize, of a state-changing command.
Authorized(p) == p \in Allowed /\ stateEnabled

IssueLiveConfirmation(p, order, nonce) ==
  LET confirmation == [nonce |-> nonce, principal |-> p, order |-> order,
                       expires |-> nonceNow + NonceTtl]
  IN  /\ Authorized(p)
      /\ nonce \notin {c.nonce : c \in shown}
      /\ issued' = [n \in DOMAIN issued \cup {nonce} |->
                      IF n = nonce THEN confirmation ELSE issued[n]]
      /\ shown' = shown \cup {confirmation}
      /\ UNCHANGED <<stateEnabled, consumed, uses, accepted, nonceNow>>

Forget(nonce) == [n \in DOMAIN issued \ {nonce} |-> issued[n]]

\* Mutation of DigestValid: the digest is not compared.
DigestUnchecked(confirmation, digest) == TRUE

DigestValid(confirmation, digest) == digest = confirmation

Expired(confirmation) == nonceNow > confirmation.expires

\* Mutation of Spend: the nonce stays good until it expires.
SpendNothing(nonce) == UNCHANGED <<issued, consumed>>

\* The nonce is spent.
Spend(nonce) == issued' = Forget(nonce) /\ consumed' = consumed \cup {nonce}

\* consume_live_confirmation by p, who presents a nonce and the digest of a
\* confirmation that was shown: refused when consumed, unknown, another
\* principal's, expired (and then forgotten) or not what was shown.
ConsumeLiveConfirmation(p, nonce, digest) ==
  /\ Authorized(p)
  /\ nonce \notin consumed /\ nonce \in DOMAIN issued
  /\ issued[nonce].principal = p
  /\ IF Expired(issued[nonce])
     THEN issued' = Forget(nonce) /\ UNCHANGED <<consumed, uses, accepted>>
     ELSE /\ DigestValid(issued[nonce], digest)
          /\ uses[nonce] < MaxUses
          /\ Spend(nonce)
          /\ uses' = [uses EXCEPT ![nonce] = @ + 1]
          /\ accepted' = [by |-> "somebody", who |-> p, meant |-> digest, got |-> issued[nonce],
                          at |-> nonceNow]
  /\ UNCHANGED <<stateEnabled, shown, nonceNow>>

\* A restart forgets what was issued and what was consumed.
ConfirmationRestart ==
  /\ shown # {}
  /\ issued' = <<>> /\ consumed' = {}
  /\ UNCHANGED <<stateEnabled, shown, uses, accepted, nonceNow>>

ConfirmationNext ==
  \/ NonceTick \/ ConfirmationRestart
  \/ \E p \in Principals, o \in LiveOrders, n \in Nonces : IssueLiveConfirmation(p, o, n)
  \/ \E p \in Principals, n \in Nonces, d \in shown : ConsumeLiveConfirmation(p, n, d)

ConfirmationSpec == ConfirmationInit /\ [][ConfirmationNext]_confirmationVars

-----------------------------------------------------------------------------
(* Properties.                                                             *)

\* TelegramCommandSecurity ("one-time LIVE nonce confirmation"): a confirmation
\* is accepted at most once, however often its message is repeated and although
\* a restart forgets which ones were consumed.
AcceptedAtMostOnce == \A n \in Nonces : uses[n] <= 1

\* consume_live_confirmation: what is accepted is the order the principal was
\* shown and meant, in time, also when it holds several confirmations at once.
AcceptedIsWhatWasShown ==
  accepted # NothingAccepted =>
    /\ accepted.got = accepted.meant
    /\ accepted.got.principal = accepted.who /\ accepted.who \in Allowed
    /\ accepted.at <= accepted.got.expires

\* TelegramCommandSecurity: a LIVE order is confirmed once, and only the one
\* that was shown.
ConfirmedOnceAsShown == AcceptedAtMostOnce /\ AcceptedIsWhatWasShown
=============================================================================
