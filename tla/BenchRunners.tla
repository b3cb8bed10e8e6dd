----------------------------- MODULE BenchRunners -----------------------------
(***************************************************************************)
(* The batches of core/apps/risk_runner.c and core/apps/blend_runner.c: a  *)
(* fixed formula makes an input of each number, and the runner counts the  *)
(* decisions.  The inputs repeat with a period, so the counts of a batch   *)
(* are those of its whole periods and of the rest.                         *)
(*                                                                         *)
(* The clock, the memory statistics and the printing are left out.         *)
(***************************************************************************)
EXTENDS DecisionCore

\* How many of 0 .. count - 1 satisfy a predicate of the given period.
Count(holds(_), period, count) ==
    LET within(n) == Cardinality({i \in 0 .. n - 1 : holds(i)})
        rest == within(count % period)
    IN (count \div period) * within(period) + rest

-----------------------------------------------------------------------------
(* risk_runner.c: values in units of 100; the numbers that choose an input  *)
(* repeat after 21, 9, and 100 steps.                                      *)

Exit(i) ==
    alpha_check_rule_based_exit(
        [quantity |-> 1, avg_fill_price |-> 100, current_price |-> 90 + (i % 21)],
        alpha_risk_config_default)

DailyBlocked(i) == alpha_is_daily_loss_blocked((i % 9) - 5, alpha_risk_config_default)

BuyAllowed(i) ==
    LET intended == ((i * 7) % 20) + 1
        denominator == alpha_max_position_denominator(i % 2 = 0, 100 + (i % 100), 100, intended)
    IN alpha_max_position_allows_buy(alpha_risk_config_default, i % 25, intended, denominator)

risk_batch(count) ==
    [take_profit |-> Count(LAMBDA i : Exit(i) = "TAKE_PROFIT", 21, count),
     stop_loss |-> Count(LAMBDA i : Exit(i) = "STOP_LOSS", 21, count),
     daily_blocked |-> Count(DailyBlocked, 9, count),
     buy_allowed |-> Count(BuyAllowed, 100, count)]

-----------------------------------------------------------------------------
(* blend_runner.c *)

BlendPeriod == 2700   \* of i % 27, 100 and 5 together

SLOT == <<<<"BUY", "SELL", "HOLD">>, <<"HOLD", "BUY", "SELL">>, <<"SELL", "HOLD", "BUY">>>>

Slot(i, j) == SLOT[j][((i \div 3 ^ (j - 1)) % 3) + 1]

blend_case(i) ==
    alpha_blend_signals([j \in 1 .. 3 |->
        [signal |-> Slot(i, j), confidence |-> (i * j) % 100, weight |-> ((i + j - 1) % 5) + 1]])

\* The counts doubles allow: every case on the threshold may be a BUY or not.
blend_batch(count) ==
    LET said(i) == {blend.signal : blend \in blend_case(i)}
    IN Count(LAMBDA i : said(i) = {"BUY"}, BlendPeriod, count)
       .. Count(LAMBDA i : "BUY" \in said(i), BlendPeriod, count)

-----------------------------------------------------------------------------
\* The decisions taken one by one are the ones the programs took: the counts
\* both runners printed for the batches of bench/results/20260831 (run_batch)
\* come out of the model, those of the blending up to the cases that lie exactly
\* on the threshold.
RunnersReproduceRecords ==
    list[1] = "tables" =>
        /\ risk_batch(100000) =
               [take_profit |-> 28570, stop_loss |-> 19048, daily_blocked |-> 33334,
                buy_allowed |-> 81000]
        /\ 56890 \in blend_batch(200000)
=============================================================================
