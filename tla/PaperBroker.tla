----------------------------- MODULE PaperBroker -----------------------------
(***************************************************************************)
(* PaperBroker: simulated long positions with a stop and a ladder of three   *)
(* take-profits.  Quantities are tenths of a lot, so that the ladder's 0.30,  *)
(* 0.30 and 0.40 are whole; a price is the band it falls in: 0 at or below   *)
(* the stop, 1 between stop and ladder, 2, 3 and 4 from the first, second    *)
(* and third take-profit up.  Fees, slippage and profit are left out.        *)
(***************************************************************************)
EXTENDS Integers, FiniteSetsExt

CONSTANTS PaperSymbols,
          PaperQuantities,  \* requested and executable quantities, multiples of 10
          MaxPaperTrades    \* bound on the positions opened

ASSUME PaperAssumption ==
  /\ MaxPaperTrades \in Nat /\ PaperQuantities \subseteq Nat \ {0}
  /\ \A q \in PaperQuantities : q % 10 = 0

VARIABLES positions,  \* PaperBroker.positions; qty 0 where there is none
          paperFills, \* sum of PaperBroker.fills per symbol and side
          paperTrades

paperVars == <<positions, paperFills, paperTrades>>

NoPosition == [qty |-> 0, remaining |-> 0, closed |-> TRUE, triggered |-> {}]

PaperInit ==
  /\ positions = [s \in PaperSymbols |-> NoPosition]
  /\ paperFills = [s \in PaperSymbols |-> [buy |-> 0, sell |-> 0]]
  /\ paperTrades = 0

\* open_long, with fill_market's cut to the executable quantity.
OpenLong(s, qty, available) ==
  LET actual == Min({qty, available})
  IN  /\ positions[s].closed
      /\ paperTrades < MaxPaperTrades /\ paperTrades' = paperTrades + 1
      /\ positions' = [positions EXCEPT ![s] =
           [qty |-> actual, remaining |-> actual, closed |-> FALSE, triggered |-> {}]]
      /\ paperFills' = [paperFills EXCEPT ![s].buy = @ + actual]

\* _close_qty.
CloseQty(position, qty) == [position EXCEPT !.remaining = @ - qty]

LadderQty(position, index) ==
  Min({position.remaining,
       IF index = 2 THEN position.remaining ELSE (position.qty * 3) \div 10})

\* Mutation of TakeProfit: the level is not remembered.
TakeProfitAgain(position, index, band) ==
  IF index \in position.triggered \/ band < index + 2 \/ position.remaining <= 0
  THEN position
  ELSE CloseQty(position, LadderQty(position, index))

\* One turn of on_quote's loop.
TakeProfit(position, index, band) ==
  IF index \in position.triggered \/ band < index + 2 \/ position.remaining <= 0
  THEN position
  ELSE [CloseQty(position, LadderQty(position, index))
          EXCEPT !.triggered = @ \cup {index}]

\* The loop over the three levels, in order.
Ladder(position, band) ==
  LET after[k \in 0..3] == IF k = 0 THEN position ELSE TakeProfit(after[k - 1], k - 1, band)
  IN  after[3]

\* Mutation of StopOut: the whole quantity is sold, not what remains of it.
StopOutWhole(position) == [CloseQty(position, position.qty) EXCEPT !.closed = TRUE]

StopOut(position) == [CloseQty(position, position.remaining) EXCEPT !.closed = TRUE]

\* on_quote for a position that is open: the stop closes all of it, and is looked
\* at before the ladder.
OnQuote(s, band) ==
  LET before == positions[s]
      after == IF band = 0 THEN StopOut(before)
               ELSE [Ladder(before, band) EXCEPT !.closed = (Ladder(before, band).remaining <= 0)]
  IN  /\ ~before.closed
      /\ positions' = [positions EXCEPT ![s] = after]
      /\ paperFills' = [paperFills EXCEPT ![s].sell = @ + before.remaining - after.remaining]
      /\ UNCHANGED paperTrades

PaperNext ==
  \/ \E s \in PaperSymbols, qty, available \in PaperQuantities : OpenLong(s, qty, available)
  \/ \E s \in PaperSymbols, band \in 0..4 : OnQuote(s, band)

PaperSpec == PaperInit /\ [][PaperNext]_paperVars

-----------------------------------------------------------------------------
(* Properties.                                                             *)

\* on_quote and open_long, over any path of quotes and any number of positions:
\* what was bought and not sold is what the open position holds; a closed one
\* holds nothing, so that opening the next forgets no quantity.
PaperFillsBalance ==
  \A s \in PaperSymbols :
    /\ paperFills[s].buy - paperFills[s].sell = positions[s].remaining
    /\ positions[s].closed <=> positions[s].remaining = 0

\* on_quote: each level of the ladder sells its share once however often the
\* price comes back to it, so an open position holds the rest of its quantity.
LadderSharesSold ==
  \A s \in PaperSymbols :
    ~positions[s].closed =>
      /\ 2 \notin positions[s].triggered
      /\ positions[s].remaining =
           positions[s].qty - Cardinality(positions[s].triggered) * ((positions[s].qty * 3) \div 10)

\* PaperBroker: fills and ladder account for every position, open or closed.
PaperBooksBalance == PaperFillsBalance /\ LadderSharesSold
=============================================================================
