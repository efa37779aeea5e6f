--------------------------- MODULE TestnetScenario ---------------------------
(* scripts/external/binance_testnet_acceptance.py and its hardened entry:   *)
(* one acceptance scenario (market BUY, resting SELL and its cancel, a      *)
(* partially filled SELL) against an exchange whose book and ticker move    *)
(* between any two calls.  Prices, quantities and notionals are integers,   *)
(* the tick is 1; a failed preflight, a refused call or a lost answer       *)
(* raises and ends the scenario where it stands.                            *)
EXTENDS Integers, Sequences, FiniteSetsExt

CONSTANTS Listed,       \* candidates in _auto_symbol_sort_key order: filters
                        \* and the free balance of the quote asset
          Books,        \* bid sides, best level first: <<price, quantity>>
          Tickers,      \* last prices
          PartialPrices,\* BINANCE_TESTNET_PARTIAL_PRICE values
          MaxNotional,
          Hardened,     \* the hardened entry replaces _select_auto_target
          MaxQuoteMoves \* bound on book and ticker moves

(* What exchangeInfo and the operator give: the code refuses a step or a    *)
(* price that is not positive.                                              *)
Filters == [step : Nat \ {0}, minQty : Nat, maxQty : Nat, marketMax : Nat,
            minNotional : Nat, maxNotional : Nat, free : Nat]

ASSUME ScenarioAssumption ==
    /\ Listed \in Seq(Filters) /\ MaxNotional \in Nat
    /\ Books \subseteq Seq((Nat \ {0}) \X Nat)
    /\ Tickers \subseteq Nat \ {0} /\ PartialPrices \subseteq Nat \ {0}

VARIABLES scen,   \* the scenario: its step and local values
          placed, \* the exchange's orders: market, limit, probe
          quotes  \* the exchange's book and ticker, and the moves made

scenarioVars == <<scen, placed, quotes>>

NoOrder == [qty |-> 0, price |-> 0, filled |-> 0, state |-> "NONE"]
NoProbe == [price |-> 0, qty |-> 0, executable |-> 0]
NoScenario == [at |-> "start", mode |-> "none", s |-> 1, cap |-> 0,
               ticker |-> 0, qty |-> 0, probe |-> NoProbe, limitOk |-> FALSE,
               seen |-> NoOrder]

ScenarioInit ==
    /\ scen = NoScenario
    /\ placed = [o \in {"market", "limit", "probe"} |-> NoOrder]
    /\ quotes \in [book : Books, ticker : Tickers, moves : {0}]

-----------------------------------------------------------------------------
(* Sizing.  A quantity of 0 stands for the RuntimeError.                    *)
StepDown(n, d, step) == (n \div (d * step)) * step
StepUp(n, d, step) == ((n + d * step - 1) \div (d * step)) * step

OwnCapOnly(f, cap) == cap
EffectiveNotionalCap(f, cap) ==
    IF f.maxNotional > 0 THEN Min({cap, f.maxNotional}) ELSE cap

(* utilization is a percentage of the cap.                                  *)
BoundedQuantity(f, price, maxNotional, utilization) ==
    LET cap == EffectiveNotionalCap(f, maxNotional)
        budget == cap * utilization
        target == Max({f.minNotional * 110, price * f.minQty * 100})
        q == Min({StepDown(budget, 100 * price, f.step),
                  StepDown(f.maxQty, 1, f.step)})
        least == Max({StepUp(f.minNotional, price, f.step), f.minQty})
    IN IF target > budget \/ q < f.minQty THEN 0
       ELSE IF q * price >= f.minNotional THEN IF q * price > cap THEN 0 ELSE q
       ELSE IF least > f.maxQty \/ least * price > cap THEN 0 ELSE least

(* MARKET_LOT_SIZE replaces the lot filter of a MARKET order when present.  *)
MarketFilters(f) == [f EXCEPT !.maxQty = IF f.marketMax > 0 THEN f.marketMax ELSE @]
SafeQuantity(f, price, cap) == BoundedQuantity(MarketFilters(f), price, cap, 90)

SpendableCap(f) ==
    IF f.free > 0 THEN Min({MaxNotional, (f.free * 90) \div 100}) ELSE 0

LimitPrice(ticker) == StepUp(ticker * 150, 100, 1)

(* Bids are summed from the best price down to the probe price.             *)
ExecutableBids(book, price) ==
    MapThenSumSet(LAMBDA i : book[i][2],
        {i \in DOMAIN book : \A j \in 1..i : book[j][1] >= price})

(* _auto_probe_for_symbol: a probe at the best bid that the visible bids    *)
(* fill by at most 70%.                                                     *)
AutoProbe(f, cap, book, acquired) ==
    IF book = <<>> THEN NoProbe
    ELSE LET price == book[1][1]
             qty == BoundedQuantity(f, price, cap, 85)
             executable == ExecutableBids(book, price)
         IN IF \/ qty = 0 \/ qty > acquired
               \/ executable <= 0 \/ executable >= qty
               \/ executable * 100 > qty * 70
              THEN NoProbe
              ELSE [price |-> price, qty |-> qty, executable |-> executable]

Unlimited == 1000000

(* _select_auto_target: the candidates every preflight accepts.             *)
AutoTargets ==
    {s \in DOMAIN Listed :
       LET f == Listed[s]  cap == SpendableCap(f)
           probe == AutoProbe(f, cap, quotes.book, Unlimited)
       IN /\ cap > 0 /\ probe # NoProbe
          /\ SafeQuantity(f, quotes.ticker, cap) >= probe.qty
          /\ BoundedQuantity(f, LimitPrice(quotes.ticker), cap, 85) > 0}

-----------------------------------------------------------------------------
Raised == [scen EXCEPT !.at = "raised"]

(* AUTO takes the first candidate; the hardened selection also asks for ask *)
(* depth and an exchange order test, either of which may pass one over.     *)
SelectAutoTarget ==
    /\ scen.at = "start"
    /\ \/ \E s \in AutoTargets :
            /\ Hardened \/ s = Min(AutoTargets)
            /\ scen' = [NoScenario EXCEPT !.at = "size", !.mode = "auto", !.s = s,
                          !.cap = SpendableCap(Listed[s]),
                          !.probe = AutoProbe(Listed[s], SpendableCap(Listed[s]),
                                              quotes.book, Unlimited)]
       \/ /\ Hardened \/ AutoTargets = {}
          /\ scen' = Raised
    /\ UNCHANGED <<placed, quotes>>

(* An explicit symbol; the partial price is AUTO, a given price or missing  *)
(* (0).                                                                     *)
ExplicitSymbol ==
    /\ scen.at = "start"
    /\ \E s \in DOMAIN Listed, price \in PartialPrices \cup {0, -1} :
         scen' = IF SpendableCap(Listed[s]) = 0 THEN Raised
                 ELSE [NoScenario EXCEPT !.at = "size", !.s = s,
                         !.mode = CASE price = -1 -> "autoprice"
                                    [] price = 0 -> "none"
                                    [] OTHER -> "explicit",
                         !.cap = SpendableCap(Listed[s]),
                         !.probe = [NoProbe EXCEPT !.price = price]]
    /\ UNCHANGED <<placed, quotes>>

(* _safe_quantity reads the ticker; all later prices derive from this one.  *)
SizeAcquisition ==
    /\ scen.at = "size"
    /\ LET q == SafeQuantity(Listed[scen.s], quotes.ticker, scen.cap)
       IN scen' = IF q = 0 THEN Raised
                  ELSE [scen EXCEPT !.at = "preflight", !.qty = q,
                                    !.ticker = quotes.ticker]
    /\ UNCHANGED <<placed, quotes>>

(* The partial-fill preflight, before anything is bought.                   *)
ProbePreflight ==
    /\ scen.at = "preflight"
    /\ LET f == Listed[scen.s]
           qty == BoundedQuantity(f, scen.probe.price, scen.cap, 85)
           executable == ExecutableBids(quotes.book, scen.probe.price)
           probe == CASE scen.mode = "auto" -> scen.probe
                      [] scen.mode = "autoprice" ->
                           AutoProbe(f, scen.cap, quotes.book, scen.qty)
                      [] OTHER -> IF qty = 0 \/ executable <= 0 \/ executable >= qty
                                    THEN NoProbe
                                    ELSE [price |-> scen.probe.price, qty |-> qty,
                                          executable |-> executable]
       IN scen' = IF scen.mode = "none" THEN [scen EXCEPT !.at = "failed"]
                  ELSE IF probe = NoProbe \/ probe.qty > scen.qty THEN Raised
                  ELSE [scen EXCEPT !.at = "buy", !.probe = probe]
    /\ UNCHANGED <<placed, quotes>>

(* The MARKET order never rests: what it did not fill is expired.           *)
MarketBuy ==
    /\ scen.at = "buy"
    /\ \E n \in 0..scen.qty :
         /\ placed' = [placed EXCEPT !.market =
                         [qty |-> scen.qty, price |-> 0, filled |-> n,
                          state |-> IF n = scen.qty THEN "FILLED" ELSE "CANCELLED"]]
         /\ scen' = [scen EXCEPT !.at = IF n >= scen.qty THEN "limit" ELSE "failed"]
    /\ UNCHANGED quotes

(* A GTC LIMIT order and what the exchange fills at once.                   *)
Filling(order, n) ==
    [order EXCEPT !.filled = n,
       !.state = IF n = order.qty THEN "FILLED" ELSE "OPEN"]

(* The sells: one rests half above the ticker that was read before the      *)
(* purchase, one is the probe.                                              *)
SellOrder(o) ==
    LET price == LimitPrice(scen.ticker)
        qty == BoundedQuantity(Listed[scen.s], price, scen.cap, 85)
    IN IF o = "limit"
         THEN [qty |-> qty, price |-> price, filled |-> 0, state |-> "OPEN"]
         ELSE [qty |-> scen.probe.qty, price |-> scen.probe.price, filled |-> 0,
               state |-> "OPEN"]

LimitSell ==
    /\ scen.at = "limit"
    /\ LET order == SellOrder("limit")
       IN IF order.qty = 0 THEN scen' = Raised /\ UNCHANGED placed
          ELSE \E n \in 0..order.qty :
                 /\ placed' = [placed EXCEPT !.limit = Filling(order, n)]
                 /\ scen' = [scen EXCEPT !.at = "cancel", !.limitOk = n < order.qty]
    /\ UNCHANGED quotes

(* cancel_order on an order that is no longer open is refused and raises.   *)
CancelLimit ==
    /\ scen.at = "cancel"
    /\ IF placed.limit.state = "OPEN"
         THEN /\ placed' = [placed EXCEPT !.limit.state = "CANCELLED"]
              /\ scen' = [scen EXCEPT !.at = "recheck"]
         ELSE scen' = Raised /\ UNCHANGED placed
    /\ UNCHANGED quotes

(* The book is read again: a stale preflight ends the scenario unexecuted.  *)
RecheckProbe ==
    /\ scen.at = "recheck"
    /\ LET f == Listed[scen.s]
           executable == ExecutableBids(quotes.book, scen.probe.price)
           probe == IF scen.mode \in {"auto", "autoprice"}
                      THEN AutoProbe(f, scen.cap, quotes.book, placed.market.filled)
                    ELSE IF executable <= 0 \/ executable >= scen.probe.qty
                            \/ scen.probe.qty > placed.market.filled THEN NoProbe
                    ELSE [scen.probe EXCEPT !.executable = executable]
       IN scen' = [scen EXCEPT !.at = IF probe = NoProbe THEN "failed" ELSE "probe",
                               !.probe = probe]
    /\ UNCHANGED <<placed, quotes>>

SubmitProbe ==
    /\ scen.at = "probe"
    /\ \E n \in 0..scen.probe.qty :
         /\ placed' = [placed EXCEPT !.probe = Filling(SellOrder("probe"), n)]
         /\ scen' = [scen EXCEPT !.at = "poll", !.seen = placed'.probe]
    /\ UNCHANGED quotes

(* One round of the polling loop, which stops at the first fill it sees or  *)
(* at the deadline.                                                         *)
PollProbe ==
    /\ scen.at = "poll"
    /\ scen' = [scen EXCEPT !.seen = placed.probe,
                  !.at = IF placed.probe.filled > 0 THEN "settle" ELSE "poll"]
    /\ UNCHANGED <<placed, quotes>>
PollDeadline ==
    /\ scen.at = "poll"
    /\ scen' = [scen EXCEPT !.at = "settle"]
    /\ UNCHANGED <<placed, quotes>>

Verdict(pass) == [scen EXCEPT !.at = IF pass THEN "passed" ELSE "failed"]

LenientSettle ==
    /\ scen.at = "settle"
    /\ placed' = IF placed.probe.state = "OPEN"
                   THEN [placed EXCEPT !.probe.state = "CANCELLED"] ELSE placed
    /\ scen' = Verdict(scen.limitOk /\ scen.seen.filled > 0
                         /\ scen.seen.filled < scen.seen.qty)
    /\ UNCHANGED quotes

KeepPartial ==
    /\ scen.at = "settle"
    /\ placed' = IF scen.seen.filled = 0 /\ placed.probe.state = "OPEN"
                   THEN [placed EXCEPT !.probe.state = "CANCELLED"] ELSE placed
    /\ scen' = Verdict(scen.limitOk /\ scen.seen.filled > 0
                         /\ scen.seen.filled < scen.seen.qty)
    /\ UNCHANGED quotes

(* partial_ok is judged on the last answer seen; what is not known to be    *)
(* over is cancelled, and a refused cancel raises.                          *)
SettleProbe ==
    /\ scen.at = "settle"
    /\ LET over == scen.seen.state \in {"FILLED", "CANCELLED"}
           partialOk == scen.seen.filled > 0 /\ scen.seen.filled < scen.seen.qty
       IN IF ~over /\ placed.probe.state # "OPEN"
            THEN scen' = Raised /\ UNCHANGED placed
            ELSE /\ placed' = IF over THEN placed
                              ELSE [placed EXCEPT !.probe.state = "CANCELLED"]
                 /\ scen' = Verdict(scen.limitOk /\ partialOk)
    /\ UNCHANGED quotes

(* A call is refused, times out before it reaches the exchange, or, for a   *)
(* read, fails: nothing changes at the exchange.                            *)
CallRaises ==
    /\ scen.at \notin {"passed", "failed", "raised"}
    /\ scen' = Raised
    /\ UNCHANGED <<placed, quotes>>

(* AmbiguousExecution: the exchange accepted the order, the answer is lost. *)
AnswerLost(o) ==
    /\ scen.at = o /\ SellOrder(o).qty > 0
    /\ placed' = [placed EXCEPT ![o] = SellOrder(o)]
    /\ scen' = Raised
    /\ UNCHANGED quotes

(* The exchange: an open order is filled further.                           *)
FillOpenOrder ==
    /\ \E o \in {"limit", "probe"} :
         /\ placed[o].state = "OPEN"
         /\ \E n \in placed[o].filled + 1 .. placed[o].qty :
              placed' = [placed EXCEPT ![o] = Filling(@, n)]
    /\ UNCHANGED <<scen, quotes>>

(* The exchange: other participants move the book and the last price.       *)
QuotesMove ==
    /\ quotes.moves < MaxQuoteMoves
    /\ quotes' \in [book : Books, ticker : Tickers, moves : {quotes.moves + 1}]
    /\ UNCHANGED <<scen, placed>>

ScenarioNext ==
    \/ SelectAutoTarget \/ ExplicitSymbol \/ SizeAcquisition \/ ProbePreflight
    \/ MarketBuy \/ LimitSell \/ CancelLimit \/ RecheckProbe \/ SubmitProbe
    \/ PollProbe \/ PollDeadline \/ SettleProbe \/ CallRaises
    \/ \E o \in {"limit", "probe"} : AnswerLost(o)
    \/ FillOpenOrder \/ QuotesMove

ScenarioSpec == ScenarioInit /\ [][ScenarioNext]_scenarioVars

-----------------------------------------------------------------------------
(* all_pass is the exchange's truth and not a reading that time overtook:   *)
(* the acquisition was filled, the resting order was cancelled, and the     *)
(* probe ended cancelled with a fill strictly between nothing and all.      *)
PassIsEarned ==
    scen.at = "passed" =>
        /\ placed.market.filled >= scen.qty
        /\ placed.limit.state = "CANCELLED"
        /\ placed.probe.state = "CANCELLED"
        /\ 0 < placed.probe.filled /\ placed.probe.filled < placed.probe.qty

(* A scenario that returns, with whatever verdict, leaves no order open.    *)
NothingLeftOpen ==
    scen.at \in {"passed", "failed"} =>
        \A o \in DOMAIN placed : placed[o].state # "OPEN"

(* A sell the scenario decided on stays within the operator's cap, 90% of   *)
(* the free balance, the exchange's notional range and its lot sizes,       *)
(* however the book and the ticker moved since they were read.              *)
SellsStayWithinCaps ==
    scen.at # "start" =>
        \A o \in {"limit", "probe"} :
           LET order == placed[o]  f == Listed[scen.s]
               notional == order.qty * order.price
           IN order # NoOrder =>
                /\ notional <= MaxNotional /\ notional * 100 <= f.free * 90
                /\ f.maxNotional > 0 => notional <= f.maxNotional
                /\ notional >= f.minNotional
                /\ f.minQty <= order.qty /\ order.qty <= f.maxQty
                /\ order.qty % f.step = 0

\* binance_testnet_acceptance.py: the scenario stays within its caps, leaves no
\* order open when it returns, and passes only when it did what it claims.
ScenarioIsClean == NothingLeftOpen /\ PassIsEarned /\ SellsStayWithinCaps
=============================================================================
