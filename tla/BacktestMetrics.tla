---------------------------- MODULE BacktestMetrics ----------------------------
(***************************************************************************)
(* The metrics of a backtest, core/src/backtest/metrics.c: those that need *)
(* no root and no power, in exact fractions.                               *)
(***************************************************************************)
EXTENDS BacktestEngine, SequencesExt, Fractions

\* Mutant: the peak is never raised.
FirstPeak(peak, value) == peak

RaisedPeak(peak, value) == IF value > peak THEN value ELSE peak

compute_mdd ==
    LET step(acc, snapshot) ==
            LET peak == RaisedPeak(acc.peak, snapshot.portfolio_value)
                dd == Fraction(snapshot.portfolio_value - peak, peak)
            IN [peak |-> peak, mdd |-> IF peak # 0 /\ Less(dd, acc.mdd) THEN dd ELSE acc.mdd]
    IN FoldLeft(step, [peak |-> snapshots[1].portfolio_value, mdd |-> Fraction(0, 1)],
                snapshots).mdd

\* FIFO matching of buys and sells: the summed days and the number of matches.
compute_avg_holding_days(list) ==
    LET step(acc, t) ==
            IF t.side = "BUY" THEN [acc EXCEPT !.queue = Append(@, t.bar_date)]
            ELSE IF acc.queue = <<>> THEN acc
            ELSE LET bought == Head(acc.queue)
                 IN [queue |-> Tail(acc.queue), matched |-> acc.matched + 1,
                     days |-> acc.days + IF t.bar_date > bought THEN t.bar_date - bought ELSE 0]
    IN FoldLeft(step, [queue |-> <<>>, days |-> 0, matched |-> 0], list)

\* Over the capital, which the engine takes as it is given.
total_return ==
    Fraction(snapshots[Len(snapshots)].portfolio_value - Scale * Capital, Scale * Capital)

\* The share of the sales with a profit; no sale, no rate.
win_rate ==
    LET sells == SelectSeq(trades, LAMBDA t : t.side = "SELL")
        wins == SelectSeq(sells, LAMBDA t : t.pnl > 0)
    IN IF sells = <<>> THEN Fraction(0, 1) ELSE Fraction(Len(wins), Len(sells))

baseline_return ==
    LET first == snapshots[1].close_price
        last == snapshots[Len(snapshots)].close_price
    IN IF first > 0 THEN Fraction(last - first, first) ELSE Fraction(0, 1)

\* What needs no root and no power; without a bar all is 0.
alpha_compute_metrics ==
    [total_return |-> total_return, baseline_return |-> baseline_return,
     max_drawdown |-> compute_mdd, win_rate |-> win_rate,
     holding |-> compute_avg_holding_days(trades)]

-----------------------------------------------------------------------------
Sum(f(_), list) == FoldLeft(LAMBDA acc, t : acc + f(t), 0, list)
Of(side) == SelectSeq(trades, LAMBDA t : t.side = side)

\* The maximum drawdown is the worst fall from any day to any later day.
DrawdownIsWorstFall ==
    snapshots # <<>> =>
        LET value(i) == snapshots[i].portfolio_value
            days == {p \in (1 .. Len(snapshots)) \X (1 .. Len(snapshots)) :
                        p[1] <= p[2] /\ value(p[1]) > 0}
            falls == {Fraction(value(p[2]) - value(p[1]), value(p[1])) : p \in days}
        IN /\ \A f \in falls : ~Less(f, alpha_compute_metrics.max_drawdown)
           /\ compute_mdd.n = 0 \/ \E f \in falls : ~Less(compute_mdd, f)

\* The days a sale came after its buy, 0 when the bars ran backwards.
HeldFor(i) ==
    LET days == trades[2 * i].bar_date - trades[2 * i - 1].bar_date
    IN IF days > 0 THEN days ELSE 0

\* alpha_compute_metrics tells the truth about the run: the drawdown is the
\* worst fall; the FIFO matching pairs every sale with its own buy; when every
\* sale counts as won and nothing is held, the account has lost less than the
\* buys cost; and holding from the first bar on gains no more than the baseline
\* the result is compared with.
MetricsTellTheTrades ==
    snapshots # <<>> =>
        LET pairs == Len(trades) \div 2
            result == alpha_compute_metrics
        IN /\ DrawdownIsWorstFall
           /\ result.holding.matched = pairs
           /\ result.holding.days = Sum(HeldFor, [i \in 1 .. pairs |-> i])
           /\ position_qty = 0 /\ pairs > 0 /\ result.win_rate.n = result.win_rate.d =>
                  result.total_return.n > -Sum(LAMBDA t : t.total_cost, Of("BUY"))
           /\ Len(trades) = 1 /\ snapshots[1].position_qty > 0 /\ result.baseline_return.n >= 0 =>
                  ~Less(result.baseline_return, result.total_return)
=============================================================================
