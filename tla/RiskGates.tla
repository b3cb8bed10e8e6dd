------------------------------ MODULE RiskGates ------------------------------
(***************************************************************************)
(* The risk decisions: the exits and the drawdown gate of risk/gates.c and *)
(* the position limit of portfolio/sizing.c.  Prices and values are whole  *)
(* and percentages are exact.  Indices count from 1.                       *)
(***************************************************************************)
EXTENDS Integers, Sequences, FiniteSets, SequencesExt, FiniteSetsExt, Fractions

alpha_risk_config_default ==
    [max_position_pct |-> 20, daily_loss_limit_pct |-> 3, individual_stop_loss_pct |-> 7,
     take_profit_pct |-> 5, portfolio_drawdown_limit_pct |-> 8]

Whole(pct) == Fraction(pct, 1)

Eligible(p) == p.quantity > 0 /\ p.avg_fill_price > 0 /\ p.current_price > 0
PnlPct(p) == Fraction(100 * (p.current_price - p.avg_fill_price), p.avg_fill_price)

alpha_check_rule_based_exit(p, config) ==
    IF ~Eligible(p) THEN "NONE"
    ELSE IF AtLeast(PnlPct(p), Whole(config.take_profit_pct)) THEN "TAKE_PROFIT"
    ELSE IF AtLeast(Whole(-config.individual_stop_loss_pct), PnlPct(p)) THEN "STOP_LOSS"
    ELSE "NONE"

\* The indices that fire, in input order, with their kinds.
alpha_check_rule_based_exits(positions, config) ==
    SelectSeq([i \in 1 .. Len(positions) |->
                  [index |-> i, kind |-> alpha_check_rule_based_exit(positions[i], config)]],
              LAMBDA fired : fired.kind # "NONE")

\* Mutant: the old weakest is forgotten when a weaker one comes.
Forgets(acc) == acc.second

Demoted(acc) == acc.first

\* One pass that keeps the two weakest positions; 0 is none.
WeakestTwo(positions) ==
    LET weaker(i, j) == j = 0 \/ Less(PnlPct(positions[i]), PnlPct(positions[j]))
        look(acc, i) ==
            IF ~Eligible(positions[i]) THEN acc
            ELSE IF weaker(i, acc.first) THEN [first |-> i, second |-> Demoted(acc)]
            ELSE IF weaker(i, acc.second) THEN [acc EXCEPT !.second = i]
            ELSE acc
        end == FoldLeft(look, [first |-> 0, second |-> 0], [i \in 1 .. Len(positions) |-> i])
    IN SelectSeq(<<end.first, end.second>>, LAMBDA i : i # 0)

\* Nothing is sold before the drawdown reaches the limit.
alpha_check_portfolio_drawdown(positions, equity, baseline, config) ==
    IF \/ equity <= 0 \/ baseline <= 0
       \/ Less(Whole(-config.portfolio_drawdown_limit_pct),
               Fraction(100 * (equity - baseline), baseline))
    THEN <<>> ELSE WeakestTwo(positions)

alpha_is_daily_loss_blocked(pct, config) == pct <= -config.daily_loss_limit_pct

-----------------------------------------------------------------------------
(* sizing.c *)

alpha_max_position_denominator(is_paper, total, seed, intended) ==
    IF is_paper THEN Max({total, seed, 1}) ELSE Max({total + intended, 1})

\* Mutant: a weight of exactly the limit is blocked.
AllowsBelow(config, existing, intended, denominator) ==
    Less(Fraction(100 * (existing + intended), denominator), Whole(config.max_position_pct))

alpha_max_position_allows_buy(config, existing, intended, denominator) ==
    AtLeast(Whole(config.max_position_pct), Fraction(100 * (existing + intended), denominator))
=============================================================================
