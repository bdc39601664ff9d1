-------------------------- MODULE CondorEconomics --------------------------
(***************************************************************************)
(* The economics of the 0DTE iron condor: the conservative fill and the    *)
(* settlement of a day, the economics batch (validation/condor_economics.  *)
(* py), and the exit rules simulated minute by minute on the same fills    *)
(* (validation/exit_rules.py).  Prices are whole numbers of a tick.        *)
(*                                                                         *)
(* A day is [labelled, ranged, chain, entry, quotes, close]: it has a      *)
(* label, it has tail distances, its chain can be normalized, the entry    *)
(* minute, the time-ordered quotes, and the closing price.                 *)
(***************************************************************************)
EXTENDS Integers, Sequences, FiniteSets, FiniteSetsExt

CONSTANTS
    Strikes,        \* [sp, lp, sc, lc]: the strikes select_iron_condor_strikes gives
    SessionClose,   \* minute of the session close
    FeePoints,      \* opening fees of one condor in points
    Profit,         \* ExitRule.profit_fraction in halves
    StopMultiple,   \* ExitRule.stop_multiple
    TimeExit        \* ExitRule.time_exit_et as a minute

Legs == {"sp", "lp", "sc", "lc"}

(* Wings are positive and alike; settle_condor refuses others.             *)
ASSUME EconomicsAssumption ==
    /\ Strikes \in [Legs -> Nat]
    /\ Strikes.lp < Strikes.sp /\ Strikes.lc - Strikes.sc = Strikes.sp - Strikes.lp
    /\ SessionClose \in Nat /\ FeePoints \in Nat /\ TimeExit \in Nat
    /\ Profit \in 1..2 /\ StopMultiple \in Nat \ {0}

ExitRules == {"HOLD", "PROFIT_TARGET", "STOP_LOSS", "TIME_EXIT"}

(* A side of the book that is not quoted; a leg never quoted has neither.  *)
NoPrice == -1
NoQuote == [bid |-> NoPrice, ask |-> NoPrice]

(* OptionQuote (features/day_structure.py), and a day with its ChainDay.   *)
OptionQuote == [leg : Legs, ts : Nat, bid : Int, ask : Int]
DayRecord ==
    [labelled : BOOLEAN, ranged : BOOLEAN, chain : BOOLEAN, entry : Nat,
     quotes : Seq(OptionQuote), close : Nat \ {0}]

(* A batch that ended in an exception has no report.                       *)
Raised == [raised |-> TRUE]

Wing == Strikes.sp - Strikes.lp

-----------------------------------------------------------------------------
(* _latest_quotes_at_or_before, and the forward-only quote pointer of      *)
(* simulate_exit: the last quote of a leg with ts <= t.                    *)
BugLatestQuote(quotes, leg, t) ==
    LET known == {i \in DOMAIN quotes : quotes[i].leg = leg /\ quotes[i].ts <= t + 1}
    IN  IF known = {} THEN NoQuote ELSE quotes[Max(known)]

LatestQuote(quotes, leg, t) ==
    LET known == {i \in DOMAIN quotes : quotes[i].leg = leg /\ quotes[i].ts <= t}
    IN  IF known = {} THEN NoQuote ELSE quotes[Max(known)]

(* _sell_price: the bid, if there is one to collect.                       *)
SellPrice(q) == IF q.bid <= 0 THEN NoPrice ELSE q.bid

(* _buy_price: the ask.  OptionQuote refuses a crossed book.               *)
BuyPrice(q) == q.ask

(* price_condor: shorts sold at the bid, longs bought at the ask.          *)
FillPrices(day) ==
    LET At(leg) == LatestQuote(day.quotes, leg, day.entry)
    IN  [sp |-> SellPrice(At("sp")), sc |-> SellPrice(At("sc")),
         lp |-> BuyPrice(At("lp")), lc |-> BuyPrice(At("lc"))]

(* _close_cost: shorts bought back at the ask, longs sold at the bid.      *)
ClosePrices(day, minute) ==
    LET At(leg) == LatestQuote(day.quotes, leg, minute)
    IN  [sp |-> BuyPrice(At("sp")), sc |-> BuyPrice(At("sc")),
         lp |-> SellPrice(At("lp")), lc |-> SellPrice(At("lc"))]

Usable(prices) == \A leg \in Legs : prices[leg] # NoPrice
NetOf(prices)  == prices.sp + prices.sc - prices.lp - prices.lc

Priceable(day) == Usable(FillPrices(day))
Credit(day)    == NetOf(FillPrices(day))

(* settle_condor: the intrinsic loss, capped by the wing.                  *)
Settlement(close) ==
    LET Over(x) == Max({0, x})
        loss == Over(Strikes.sp - close) + Over(close - Strikes.sc)
                  - (Over(Strikes.lp - close) + Over(close - Strikes.lc))
    IN  Min({Over(loss), Wing})

-----------------------------------------------------------------------------
(* evaluate_day on a priceable day: DayEconomics refuses a negative        *)
(* maximum loss, so a credit above the wing raises.                        *)
DayRaises(day) == Credit(day) > Wing

DayPnl(day) == Credit(day) - Settlement(day.close)

(* The join of run_economics_batch and run_exit_comparison: what becomes   *)
(* of each day of the window.                                              *)
DaysWith(days, what) ==
    {i \in DOMAIN days :
        CASE what = "labels"    -> ~days[i].labelled /\ days[i].ranged
          [] what = "distances" -> days[i].labelled /\ ~days[i].ranged
          [] what = "chain"     -> days[i].labelled /\ days[i].ranged /\ ~days[i].chain
          [] what = "unpriceable" ->
                 days[i].labelled /\ days[i].ranged /\ days[i].chain /\ ~Priceable(days[i])
          [] what = "priced" ->
                 days[i].labelled /\ days[i].ranged /\ days[i].chain /\ Priceable(days[i])}

(* summarize, and _summarize_rule: the counts and the totals of a function *)
(* from the priced days to what each made.                                 *)
Summary(days, pnl, fee) ==
    LET priced == DaysWith(days, "priced")
        Made(each) == MapThenSumSet(LAMBDA i : pnl[i] - each, priced)
    IN  [raised      |-> FALSE,
         priced      |-> Cardinality(priced),
         unpriceable |-> Cardinality(DaysWith(days, "unpriceable")),
         chain       |-> Cardinality(DaysWith(days, "chain")),
         labels      |-> Cardinality(DaysWith(days, "labels")),
         distances   |-> Cardinality(DaysWith(days, "distances")),
         total       |-> Made(0),
         net         |-> Made(fee)]

(* run_economics_batch: one day that raises takes the batch with it.       *)
EconomicsBatch(days) ==
    IF \E i \in DaysWith(days, "priced") : DayRaises(days[i]) THEN Raised
    ELSE Summary(days, [i \in DaysWith(days, "priced") |-> DayPnl(days[i])], FeePoints)

-----------------------------------------------------------------------------
(* The trigger of a rule at a minute that can be evaluated.                *)
Triggers(rule, credit, cost, minute) ==
    CASE rule = "HOLD"          -> FALSE
      [] rule = "PROFIT_TARGET" -> 2 * cost <= credit * (2 - Profit)
      [] rule = "STOP_LOSS"     -> cost >= credit * (1 + StopMultiple)
      [] rule = "TIME_EXIT"     -> minute >= TimeExit

(* simulate_exit: the first minute after the entry, up to the close, whose *)
(* quotes can be evaluated and trigger the rule, or expiry.                *)
SimulateExit(day, rule) ==
    LET Cost(m) == NetOf(ClosePrices(day, m))
        fired == {m \in (day.entry + 1)..SessionClose :
                     Usable(ClosePrices(day, m))
                     /\ Triggers(rule, Credit(day), Cost(m), m)}
    IN  IF fired = {}
        THEN [reason |-> "EXPIRY", at |-> SessionClose,
              cost |-> Settlement(day.close), pnl |-> DayPnl(day)]
        ELSE [reason |-> rule, at |-> Min(fired),
              cost |-> Cost(Min(fired)), pnl |-> Credit(day) - Cost(Min(fired))]

RulePnl(days, rule) ==
    [i \in DaysWith(days, "priced") |-> SimulateExit(days[i], rule).pnl]

(* run_exit_comparison: every rule on the same fills.  An entry at or      *)
(* after the close raises.                                                 *)
BugExitComparison(days) ==
    IF \E i \in DaysWith(days, "priced") : days[i].entry >= SessionClose
    THEN [rule \in ExitRules |-> Raised]
    ELSE [rule \in ExitRules |->
             [Summary(days, RulePnl(days, rule), 0)
              EXCEPT !.unpriceable = IF rule = "HOLD" THEN 0 ELSE @]]

ExitComparison(days) ==
    IF \E i \in DaysWith(days, "priced") : days[i].entry >= SessionClose
    THEN [rule \in ExitRules |-> Raised]
    ELSE [rule \in ExitRules |-> Summary(days, RulePnl(days, rule), 0)]
=============================================================================
