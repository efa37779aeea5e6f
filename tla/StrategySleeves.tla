--------------------------- MODULE StrategySleeves ---------------------------
(***************************************************************************)
(* StrategySleeveBook: the lots that attribute one account's position to    *)
(* the strategies that opened it.  Prices, fees, funding and profit are left *)
(* out; quantities are counted.  Beside the book stands the account it is   *)
(* reconciled with, where a fill has happened before the book hears of it.  *)
(***************************************************************************)
EXTENDS Integers, Sequences, FiniteSetsExt

CONSTANTS Strategies, Markets,
          LotSizes,      \* quantities of a fill
          MaxLots,       \* bound on the lots of the book
          MaxUnbooked    \* bound on the quantity refused or booked twice

ASSUME SleeveAssumption ==
  LotSizes \subseteq Nat \ {0} /\ MaxLots \in Nat /\ MaxUnbooked \in Nat

VARIABLES netting,    \* hedging_supported, ownership_transfer_allowed
          lots,       \* StrategySleeveBook.lots
          accountNet, \* the exchange's net quantity per symbol
          owned,      \* history: what a strategy was given less what it exited
          unbooked    \* history: executed quantity the book refused, less
                      \* quantity it booked a second time

sleeveVars == <<netting, lots, accountNet, owned, unbooked>>

PositionSide == {"LONG", "SHORT"}
Opposite(side) == IF side = "LONG" THEN "SHORT" ELSE "LONG"
Signed(side, quantity) == IF side = "LONG" THEN quantity ELSE -quantity

Bounded == \A m \in Markets : unbooked'[m] \in -MaxUnbooked .. MaxUnbooked

SleeveInit ==
  /\ netting \in [hedging : BOOLEAN, transfer : BOOLEAN]
  /\ lots = <<>>
  /\ accountNet = [m \in Markets |-> 0]
  /\ owned = [s \in Strategies |-> [m \in Markets |-> 0]]
  /\ unbooked = [m \in Markets |-> 0]

NetOf(S) ==
  SumFunctionOnSet([i \in DOMAIN lots |-> Signed(lots[i].side, lots[i].quantity)], S)

QuantityOf(S) == SumFunctionOnSet([i \in DOMAIN lots |-> lots[i].quantity], S)

VirtualSleeve(s, m) == NetOf({i \in DOMAIN lots : lots[i].strategy = s /\ lots[i].symbol = m})

\* Mutation of AccountNetPosition: the sides are not told apart.
AccountGrossPosition(m) == QuantityOf({i \in DOMAIN lots : lots[i].symbol = m})

AccountNetPosition(m) == NetOf({i \in DOMAIN lots : lots[i].symbol = m})

\* reconcile_account_net.
Consistent(m) == accountNet[m] = AccountNetPosition(m)

-----------------------------------------------------------------------------
\* Mutation of HedgingConflict: only the strategy's own lots are looked at.
OwnHedgingConflict(f) ==
  /\ ~netting.hedging
  /\ \E i \in DOMAIN lots :
       /\ lots[i].symbol = f.symbol /\ lots[i].strategy = f.strategy
       /\ lots[i].quantity > 0 /\ lots[i].side = Opposite(f.side)

HedgingConflict(f) ==
  /\ ~netting.hedging
  /\ \E i \in DOMAIN lots :
       /\ lots[i].symbol = f.symbol
       /\ lots[i].quantity > 0 /\ lots[i].side = Opposite(f.side)

\* The lot that is appended; size is the quantity it was opened with.
LotOf(f) == [strategy |-> f.strategy, symbol |-> f.symbol, side |-> f.side,
             quantity |-> f.size, size |-> f.size]

\* allocate_fill of a fill the account has just executed.
AllocateFill(f) ==
  /\ Len(lots) < MaxLots
  /\ accountNet' = [accountNet EXCEPT ![f.symbol] = @ + Signed(f.side, f.size)]
  /\ IF HedgingConflict(f)
     THEN /\ unbooked' = [unbooked EXCEPT ![f.symbol] = @ + Signed(f.side, f.size)]
          /\ UNCHANGED <<lots, owned>>
     ELSE /\ lots' = Append(lots, LotOf(f))
          /\ owned' = [owned EXCEPT ![f.strategy][f.symbol] = @ + Signed(f.side, f.size)]
          /\ UNCHANGED unbooked
  /\ UNCHANGED netting

\* The report of a fill arrives again: source_fill_id is stored, not compared.
AllocateAgain(i) ==
  LET f == [strategy |-> lots[i].strategy, symbol |-> lots[i].symbol,
            side |-> lots[i].side, size |-> lots[i].size]
  IN  /\ Len(lots) < MaxLots
      /\ ~HedgingConflict(f)
      /\ lots' = Append(lots, LotOf(f))
      /\ owned' = [owned EXCEPT ![f.strategy][f.symbol] = @ + Signed(f.side, f.size)]
      /\ unbooked' = [unbooked EXCEPT ![f.symbol] = @ - Signed(f.side, f.size)]
      /\ UNCHANGED <<netting, accountNet>>

\* Mutation of OpenLots: any strategy's lots.
AnyOpenLots(s, m, side) ==
  {i \in DOMAIN lots : lots[i].symbol = m /\ lots[i].side = side /\ lots[i].quantity > 0}

OpenLots(s, m, side) ==
  {i \in DOMAIN lots : /\ lots[i].strategy = s /\ lots[i].symbol = m
                       /\ lots[i].side = side /\ lots[i].quantity > 0}

\* Mutation of Closed: the newest lot is closed first.
ClosedNewestFirst(candidates, q, i) ==
  Min({lots[i].quantity, Max({0, q - QuantityOf({j \in candidates : j > i})})})

\* What the loop over the candidates takes from lot i when q is to be closed:
\* qty_left has been reduced by the candidates before i.
Closed(candidates, q, i) ==
  Min({lots[i].quantity, Max({0, q - QuantityOf({j \in candidates : j < i})})})

\* close, of an exit the account has executed.
Close(s, m, side, q) ==
  LET candidates == OpenLots(s, m, side)
  IN  /\ accountNet' = [accountNet EXCEPT ![m] = @ - Signed(side, q)]
      /\ IF q > QuantityOf(candidates)
         THEN /\ unbooked' = [unbooked EXCEPT ![m] = @ - Signed(side, q)]
              /\ UNCHANGED <<lots, owned>>
         ELSE /\ lots' = [i \in DOMAIN lots |->
                            IF i \in candidates
                            THEN [lots[i] EXCEPT !.quantity = @ - Closed(candidates, q, i)]
                            ELSE lots[i]]
              /\ owned' = [owned EXCEPT ![s][m] = @ - Signed(side, q)]
              /\ UNCHANGED unbooked
      /\ UNCHANGED netting

\* transfer_ownership: the whole lot, whatever is left of it.
TransferOwnership(i, to) ==
  LET lot == lots[i]
  IN  /\ netting.transfer
      /\ to # lot.strategy
      /\ lots' = [lots EXCEPT ![i].strategy = to]
      /\ owned' = [owned EXCEPT
           ![lot.strategy][lot.symbol] = @ - Signed(lot.side, lot.quantity),
           ![to][lot.symbol] = @ + Signed(lot.side, lot.quantity)]
      /\ UNCHANGED <<netting, accountNet, unbooked>>

SleeveNext ==
  \/ \E f \in [strategy : Strategies, symbol : Markets, side : PositionSide, size : LotSizes] :
       AllocateFill(f) /\ Bounded
  \/ \E i \in DOMAIN lots : AllocateAgain(i) /\ Bounded
  \/ \E s \in Strategies, m \in Markets, side \in PositionSide, q \in LotSizes :
       Close(s, m, side, q) /\ Bounded
  \/ \E i \in DOMAIN lots, to \in Strategies : TransferOwnership(i, to)

SleeveSpec == SleeveInit /\ [][SleeveNext]_sleeveVars

-----------------------------------------------------------------------------
(* Properties.                                                             *)

\* close and transfer_ownership: whatever is opened, exited and handed over, in
\* any order, a strategy's sleeve is exactly what it was given less what it
\* exited; no strategy's exit eats into another's lots.
SleevesMatchOwnership ==
  \A s \in Strategies, m \in Markets : VirtualSleeve(s, m) = owned[s][m]

\* reconcile_account_net: the book and the account differ by exactly the fills
\* that were refused after they were executed and the ones booked twice, so a
\* symbol with none of these is consistent and one with a single one is not.
ReconciliationFindsUnbooked ==
  \A m \in Markets :
    /\ accountNet[m] = AccountNetPosition(m) + unbooked[m]
    /\ Consistent(m) <=> unbooked[m] = 0

\* allocate_fill: without hedging_supported the account never holds open lots of
\* both sides of a symbol, whichever strategies own them.
NoOpposingLots ==
  ~netting.hedging =>
    \A i, j \in DOMAIN lots :
      lots[i].symbol = lots[j].symbol /\ lots[i].quantity > 0 /\ lots[j].quantity > 0
        => lots[i].side = lots[j].side

\* NettingPolicy.FIFO_PER_STRATEGY: unless lots may change hands, a strategy has
\* taken something from a lot only when its older lots of that side are closed.
ExitsAreFifo ==
  ~netting.transfer =>
    \A i, j \in DOMAIN lots :
      /\ i < j /\ lots[j].quantity < lots[j].size
      /\ lots[i].strategy = lots[j].strategy /\ lots[i].symbol = lots[j].symbol
      /\ lots[i].side = lots[j].side
      => lots[i].quantity = 0

\* StrategySleeveBook: the four together, for whatever is allocated, closed,
\* transferred, refused or booked twice.
SleeveBookIsTrue ==
  /\ SleevesMatchOwnership
  /\ ReconciliationFindsUnbooked
  /\ NoOpposingLots
  /\ ExitsAreFifo
=============================================================================
