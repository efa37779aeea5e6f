--------------------------- MODULE LocalOrderBook ---------------------------
(***************************************************************************)
(* LocalOrderBook: a copy of the exchange's book kept from REST snapshots   *)
(* and depth deltas.  Deltas cover a range of update ids and carry the new  *)
(* absolute quantity of each level they touch; they reach the client any    *)
(* number of times, in any order, or not at all, and a snapshot may be old. *)
(***************************************************************************)
EXTENDS Integers, Sequences

CONSTANTS Prices, Quantities,
          MaxUpdates    \* bound on exchange updates, for model checking only

ASSUME BookAssumption ==
  Prices \subseteq Nat /\ Quantities \subseteq Nat \ {0} /\ MaxUpdates \in Nat

VARIABLES history,      \* the exchange's book after each update id
          book,         \* bids and asks
          lastUpdateId,
          valid,
          loaded        \* last_update_id is not None

bookVars == <<history, book, lastUpdateId, valid, loaded>>

Sides == {"bid", "ask"}
Levels == Sides \X Prices
Books == [Levels -> Quantities \cup {0}]     \* quantity 0: no such level
Empty == [l \in Levels |-> 0]

\* max(bids) >= min(asks).
Crossed(b) ==
  \E p, q \in Prices : b[<<"bid", p>>] > 0 /\ b[<<"ask", q>>] > 0 /\ p >= q

BookInit ==
  /\ history = <<>>
  /\ book = Empty
  /\ lastUpdateId = 0
  /\ valid = FALSE
  /\ loaded = FALSE

-----------------------------------------------------------------------------
(* The exchange.                                                           *)

Now == Len(history)
BookAt(n) == IF n = 0 THEN Empty ELSE history[n]

Update(level, qty) ==
  LET b == [BookAt(Now) EXCEPT ![level] = qty]
  IN  /\ Now < MaxUpdates
      /\ ~Crossed(b)
      /\ history' = Append(history, b)
      /\ UNCHANGED <<book, lastUpdateId, valid, loaded>>

\* Levels that the updates first..last touched.
Touched(first, last) ==
  {l \in Levels : \E n \in first..last : BookAt(n)[l] # BookAt(n - 1)[l]}

-----------------------------------------------------------------------------
(* The client.                                                             *)

\* load_snapshot.
LoadSnapshot(n) ==
  /\ book' = BookAt(n)
  /\ lastUpdateId' = n
  /\ loaded' = TRUE
  /\ valid' = ~Crossed(book')
  /\ UNCHANGED history

Usable == loaded /\ valid

\* Mutation of Continues: a delta that starts after a gap is applied.
ContinuesAfterGap(first, last) == lastUpdateId + 1 <= last

Continues(first, last) == first <= lastUpdateId + 1 /\ lastUpdateId + 1 <= last

StaleDelta(last) == last <= lastUpdateId

\* apply_delta: an old delta only counts as stale.
IgnoreDelta(first, last) ==
  /\ Usable /\ StaleDelta(last)
  /\ UNCHANGED bookVars

SequenceGap(first, last) ==
  /\ Usable /\ ~StaleDelta(last) /\ ~Continues(first, last)
  /\ valid' = FALSE
  /\ UNCHANGED <<history, book, lastUpdateId, loaded>>

ApplyDelta(first, last) ==
  /\ Usable /\ ~StaleDelta(last) /\ Continues(first, last)
  /\ book' = [l \in Levels |-> IF l \in Touched(first, last) THEN BookAt(last)[l] ELSE book[l]]
  /\ lastUpdateId' = last
  /\ valid' = ~Crossed(book')
  /\ UNCHANGED <<history, loaded>>

\* verify_exchange_checksum against the exchange's book at update n.
VerifyChecksum(n) ==
  /\ valid
  /\ valid' = (book = BookAt(n))
  /\ UNCHANGED <<history, book, lastUpdateId, loaded>>

Delta(first, last) ==
  IgnoreDelta(first, last) \/ SequenceGap(first, last) \/ ApplyDelta(first, last)

BookNext ==
  \/ \E level \in Levels, qty \in Quantities \cup {0} : Update(level, qty)
  \/ \E n \in 0..Now : LoadSnapshot(n) \/ VerifyChecksum(n)
  \/ \E last \in 1..Now : \E first \in 1..last : Delta(first, last)

BookSpec == BookInit /\ [][BookNext]_bookVars

-----------------------------------------------------------------------------
(* Properties.                                                             *)

\* LocalOrderBook: a book that require_valid accepts is the exchange's book at
\* last_update_id, whatever was lost, repeated, reordered or overlapping.
ValidBookIsExact == valid => book = BookAt(lastUpdateId)
=============================================================================
