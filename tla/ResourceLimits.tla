--------------------------- MODULE ResourceLimits ---------------------------
(***************************************************************************)
(* The two bounded resources between the exchange and the program:          *)
(* RateLimitBudget, the fixed windows that REST calls are counted in, a      *)
(* primary budget and the fallback that is asked when it is exhausted; and   *)
(* PriorityEventBuffer, the bounded queue between the market streams and     *)
(* their consumer. An event is its priority (0 is the most urgent) and the   *)
(* number the counter gave it.                                               *)
(***************************************************************************)
EXTENDS Integers, FiniteSets, Functions

CONSTANTS Limit,        \* of each budget, with its interval
          Interval,
          Reserve,      \* limit * .15, kept from low priority
          Weights,      \* of a call
          MaxRateTime,  \* bound on the clock
          MaxConfigures \* bound on reconfigurations

ASSUME BudgetAssumption ==
  /\ Limit \in Nat \ {0} /\ Interval \in Nat \ {0} /\ Reserve \in 0..Limit
  /\ Weights \subseteq Nat \ {0} /\ MaxRateTime \in Nat /\ MaxConfigures \in Nat

BudgetKeys == {"primary", "fallback"}

VARIABLES budgets,  \* used and window_started; no fallback may be configured
          rateNow,
          spent,    \* history: the weight granted at each time, per budget
          renewed   \* history: when a budget in use was configured again

rateVars == <<budgets, rateNow, spent, renewed>>

RateInit ==
  /\ budgets \in {[k \in K |-> [used |-> 0, started |-> 0]] : K \in {BudgetKeys, {"primary"}}}
  /\ rateNow = 0
  /\ spent = [k \in BudgetKeys |-> [t \in 0..MaxRateTime |-> 0]]
  /\ renewed = {}

RateTick ==
  /\ rateNow < MaxRateTime /\ rateNow' = rateNow + 1
  /\ UNCHANGED <<budgets, spent, renewed>>

\* configure, of a key that is in use: a new Budget, with nothing used.
Configure(k) ==
  /\ Cardinality(renewed) < MaxConfigures /\ <<k, rateNow>> \notin renewed
  /\ budgets' = [budgets EXCEPT ![k] = [used |-> 0, started |-> rateNow]]
  /\ renewed' = renewed \cup {<<k, rateNow>>}
  /\ UNCHANGED <<rateNow, spent>>

\* Mutation of Window: the new window keeps the old start.
WindowKeepsStart(k) ==
  IF rateNow - budgets[k].started >= Interval
  THEN [used |-> 0, started |-> budgets[k].started] ELSE budgets[k]

\* The budget as allow finds it: a window that is over starts again now.
Window(k) ==
  IF rateNow - budgets[k].started >= Interval
  THEN [used |-> 0, started |-> rateNow] ELSE budgets[k]

Granted(k, weight, priority) ==
  Window(k).used + weight <= Limit - (IF priority = "low" THEN Reserve ELSE 0)

\* What allow leaves of the budget.
After(k, weight, priority) ==
  IF Granted(k, weight, priority)
  THEN [Window(k) EXCEPT !.used = @ + weight] ELSE Window(k)

Charged(k, weight) == [spent EXCEPT ![k][rateNow] = @ + weight]

\* allow.
Allow(weight, priority) ==
  /\ budgets' = [budgets EXCEPT !["primary"] = After("primary", weight, priority)]
  /\ spent' = IF Granted("primary", weight, priority) THEN Charged("primary", weight) ELSE spent
  /\ UNCHANGED <<rateNow, renewed>>

\* allow_with_fallback: the fallback is asked, and its window renewed, only when
\* the primary refuses.
AllowWithFallback(weight) ==
  LET refused == ~Granted("primary", weight, "normal")
      second == refused /\ "fallback" \in DOMAIN budgets
  IN  /\ budgets' = [k \in DOMAIN budgets |->
                       IF k = "primary" \/ second THEN After(k, weight, "normal") ELSE budgets[k]]
      /\ spent' = IF ~refused THEN Charged("primary", weight)
                  ELSE IF second /\ Granted("fallback", weight, "normal")
                       THEN Charged("fallback", weight)
                       ELSE spent
      /\ UNCHANGED <<rateNow, renewed>>

RateNext ==
  \/ RateTick
  \/ \E k \in DOMAIN budgets : Configure(k)
  \/ \E w \in Weights, p \in {"normal", "low"} : Allow(w, p)
  \/ \E w \in Weights : AllowWithFallback(w)

RateSpec == RateInit /\ [][RateNext]_rateVars

-----------------------------------------------------------------------------
(* PriorityEventBuffer.                                                    *)

CONSTANTS Priorities,  \* of the categories, a set of naturals
          BufferSize,  \* maxsize
          MaxPuts      \* bound on the counter

ASSUME BufferAssumption ==
  Priorities \subseteq Nat /\ BufferSize \in Nat \ {0} /\ MaxPuts \in Nat

VARIABLES buffer,   \* _heap
          puts,     \* _counter
          lost      \* history: the events dropped

bufferVars == <<buffer, puts, lost>>

BufferInit == buffer = {} /\ puts = 0 /\ lost = {}

\* The order of the tuples in the heap.
Ahead(a, b) == a.priority < b.priority \/ (a.priority = b.priority /\ a.number < b.number)

\* Mutation of Worst: the oldest event makes room.
WorstByAge(S) == CHOOSE e \in S : \A other \in S : e.number <= other.number

Worst(S) == CHOOSE e \in S : \A other \in S \ {e} : Ahead(other, e)

\* put: room, or the worst event makes room for a more urgent one, or it is lost.
Put(priority) ==
  LET item == [priority |-> priority, number |-> puts]
      kept == IF Cardinality(buffer) < BufferSize THEN buffer \cup {item}
              ELSE IF priority < Worst(buffer).priority
                   THEN (buffer \ {Worst(buffer)}) \cup {item}
                   ELSE buffer
  IN  /\ puts < MaxPuts
      /\ puts' = puts + 1
      /\ buffer' = kept
      /\ lost' = lost \cup ((buffer \cup {item}) \ kept)

\* get: the head of the heap.
Get ==
  \E e \in buffer :
    /\ \A other \in buffer \ {e} : Ahead(e, other)
    /\ buffer' = buffer \ {e}
    /\ UNCHANGED <<puts, lost>>

BufferNext == (\E p \in Priorities : Put(p)) \/ Get

BufferSpec == BufferInit /\ [][BufferNext]_bufferVars

-----------------------------------------------------------------------------
(* Properties.                                                             *)

\* RateLimitBudget: wherever the fixed windows fall, no span of Interval time
\* units sees more than twice the limit on a budget, and each configure within it
\* adds at most one limit.  The exchange counts in windows of its own, so this is
\* the load it may meet.
SpanWithinTwiceLimit ==
  \A k \in DOMAIN budgets, t \in 0..MaxRateTime :
    LET span == t..(t + Interval - 1)
    IN  SumFunctionOnSet(spent[k], span \cap 0..MaxRateTime)
          <= (2 + Cardinality({u \in span : <<k, u>> \in renewed})) * Limit

\* put, one step: what is lost is behind everything a full buffer keeps.
LosesTheLeast ==
  \A e \in lost' \ lost :
    /\ Cardinality(buffer') = BufferSize
    /\ \A k \in buffer' : Ahead(k, e)

\* PriorityEventBuffer: only a full buffer loses an event, and then everything it
\* keeps is more urgent than the one it loses, or as urgent and older.
OverflowLosesTheLeast == [][LosesTheLeast]_bufferVars
=============================================================================
