----------------------------- MODULE DecisionCore -----------------------------
(***************************************************************************)
(* Pure decisions of core/src, run on every short list of inputs: the      *)
(* screener (indicators/screener.c) and the blending of signals            *)
(* (portfolio/blending.c) here, the risk decisions (RiskGates) and the     *)
(* normalised market data (MarketData) from their modules.                 *)
(*                                                                         *)
(* Numbers are exact: percentages are whole, quotients are fractions.      *)
(* Where the exact value lies on a boundary, doubles may lie on either     *)
(* side of it, by the order of a sum: a blend is the set of the results    *)
(* they allow.  Indices count from 1.                                      *)
(***************************************************************************)
EXTENDS RiskGates, MarketData

CONSTANTS
    MaxLength,    \* bound: the length of a list
    Candidates,   \* [passes, score] of the screener
    Inputs,       \* [signal, confidence, weight] of the blending, in percent
    Positions     \* [quantity, avg_fill_price, current_price] of the gates

ASSUME LengthAssumption == MaxLength \in Nat

VARIABLE list    \* the input, <<kind, items>>

-----------------------------------------------------------------------------
(* screener.c *)

ALPHA_SCREENER_MIN_DATA_DAYS == 5
VolumeSurge == 2          \* the thresholds of constants.h: a ratio,
ChangeThreshold == 3000   \* and thousandths of a percent

\* bars[1] is today, the others the window before it.
alpha_screener_score(bars) ==
    LET past == FoldLeft(LAMBDA acc, bar : acc + bar.volume, 0, Tail(bars))
        ratio == IF past > 0 THEN Fraction(bars[1].volume * (Len(bars) - 1), past) ELSE Fraction(0, 1)
        change == IF bars[1].change = <<>> THEN Fraction(0, 1)
                  ELSE Magnitude(Fraction(bars[1].change[1], 1))
    IN IF Len(bars) < ALPHA_SCREENER_MIN_DATA_DAYS THEN [passes |-> FALSE, score |-> Fraction(0, 1)]
       ELSE [passes |-> \/ AtLeast(ratio, Fraction(VolumeSurge, 1))
                        \/ AtLeast(change, Fraction(ChangeThreshold, 1)),
             score |-> Plus(Fraction(ratio.n, ratio.d * VolumeSurge),
                            Fraction(change.n, change.d * ChangeThreshold))]

\* Mutant: the last of equal scores wins.
BeatsOrTies(a, b) == a.score >= b.score

Beats(a, b) == a.score > b.score

\* The scan for the best index not taken yet, 0 when there is none.
BestLeft(items, taken) ==
    FoldLeft(LAMBDA best, i :
                IF ~items[i].passes \/ Contains(taken, i) THEN best
                ELSE IF best = 0 \/ Beats(items[i], items[best]) THEN i ELSE best,
             0, [i \in 1 .. Len(items) |-> i])

alpha_screener_select(items, cap) ==
    LET round(taken, k) ==
            LET best == BestLeft(items, taken)
            IN IF best = 0 THEN taken ELSE Append(taken, best)
    IN FoldLeft(round, <<>>, [k \in 1 .. cap |-> k])

-----------------------------------------------------------------------------
(* blending.c *)

ALPHA_BLEND_THRESHOLD == 15    \* percent

\* alpha_round_dp of a double close to n / d, in units of the last place: both
\* neighbours of a half.
Nearest(n, d) ==
    {m \in {n \div d, (n \div d) + 1} : 2 * (m * d - n) \in -d .. d}

\* The comparisons with the threshold of a double close to n percent of d.
SignalsOf(n, d) ==
    LET t == ALPHA_BLEND_THRESHOLD * d
    IN (IF n >= t THEN {"BUY"} ELSE {}) \union (IF n <= -t THEN {"SELL"} ELSE {})
       \union (IF n \in -t .. t THEN {"HOLD"} ELSE {})

clamp(x, high) == IF x < 0 THEN 0 ELSE IF x > high THEN high ELSE x

signal_score(signal) == IF signal = "BUY" THEN 1 ELSE IF signal = "SELL" THEN -1 ELSE 0

Total(f(_), items) == FoldLeft(LAMBDA acc, x : acc + f(x), 0, items)

Weight(input) == IF input.weight > 0 THEN input.weight ELSE 0

\* The weights before they are divided by their sum; equal ones when all are 0.
Weights(items) ==
    IF Total(Weight, items) > 0 THEN [i \in 1 .. Len(items) |-> Weight(items[i])]
    ELSE [i \in 1 .. Len(items) |-> 1]

\* The confidence in ten-thousandths, the score in millionths.
alpha_blend_signals(items) ==
    LET w == Weights(items)
        all == Total(LAMBDA x : x, w)
        sum(f(_)) == FoldLeft(LAMBDA acc, i : acc + w[i] * f(items[i]), 0,
                              [i \in 1 .. Len(items) |-> i])
        score == sum(LAMBDA x : signal_score(x.signal) * clamp(x.confidence, 100))
        confidence == sum(LAMBDA x : clamp(x.confidence, 100))
        saying(signal) == \E x \in Range(items) : x.signal = signal
    IN IF items = <<>>
       THEN {[signal |-> "HOLD", confidence |-> 0, weighted_score |-> 0, conflict |-> FALSE]}
       ELSE [signal : SignalsOf(score, all), confidence : Nearest(100 * confidence, all),
             weighted_score : Nearest(10000 * score, all),
             conflict : {saying("BUY") /\ saying("SELL")}]

\* The legs that are there, weighted by the ratio (in percent).
alpha_blend_ab(a, b, ratio) ==
    LET share == clamp(ratio, 100)
        leg(x, weight) == [signal |-> x.signal, confidence |-> x.confidence, weight |-> weight]
    IN alpha_blend_signals((IF a = <<>> THEN <<>> ELSE <<leg(a[1], 100 - share)>>)
                           \o (IF b = <<>> THEN <<>> ELSE <<leg(b[1], share)>>))

-----------------------------------------------------------------------------
\* Lists that grow an item at a time, and the tables whose inputs the
\* properties enumerate themselves.
ListInit ==
    list \in {<<kind, <<>>>> : kind \in {"candidates", "inputs", "positions", "tables"}}

Items ==
    [candidates |-> Candidates, inputs |-> Inputs, positions |-> Positions, tables |-> {}]

ListNext ==
    /\ Len(list[2]) < MaxLength
    /\ \E item \in Items[list[1]] : list' = <<list[1], Append(list[2], item)>>

-----------------------------------------------------------------------------
\* The indices in S by a strict order, equals in input order.
Stable(S, before(_, _)) ==
    SetToSortSeq(S, LAMBDA i, j : before(i, j) \/ (~before(j, i) /\ i < j))

Take(s, n) == SubSeq(s, 1, IF n < Len(s) THEN n ELSE Len(s))

\* What the screener makes of a day, from the prices on: a move of the threshold
\* or more passes even after rounding, a candidate that passes scores at least
\* one, and one that scores two passes.
ScoresAreConsistent ==
    \A volumes \in [1 .. 5 -> {0, 1, 4}], today \in {<<>>, <<97>>, <<103>>, <<2000>>},
       yesterday \in {<<>>, <<0>>, <<100>>} :
        LET change == alpha_compute_change_pct(today, yesterday)
            bars == [i \in 1 .. 5 |-> [volume |-> volumes[i], change |-> change]]
            result == alpha_screener_score(bars)
        IN /\ change # <<>> /\ today \in {<<97>>, <<103>>} => result.passes
           /\ result.passes => AtLeast(result.score, Fraction(1, 1))
           /\ AtLeast(result.score, Fraction(2, 1)) => result.passes
           /\ ~alpha_screener_score(Tail(bars)).passes

\* "Order by score descending (stable on ties = input order), and write up to
\* cap indices": alpha_screener_select's repeated scan is that sort, of scores
\* that agree with what alpha_screener_score lets pass.
ScreenerRanks ==
    /\ list[1] = "candidates" => \A cap \in 0 .. MaxLength + 1 :
        LET items == list[2]
            passing == {i \in 1 .. Len(items) : items[i].passes}
        IN alpha_screener_select(items, cap)
           = Take(Stable(passing, LAMBDA i, j : items[i].score > items[j].score), cap)
    /\ list[1] = "tables" => ScoresAreConsistent

\* A buy that is allowed in two parts is allowed whole, and the first of them too.
SizingIsMonotone ==
    \A is_paper \in BOOLEAN, total, seed \in {0, 1, 10, 11},
       existing \in 0 .. 3, first, second \in 0 .. 3 :
        LET allows(held, intended) ==
                alpha_max_position_allows_buy(alpha_risk_config_default, held, intended,
                    alpha_max_position_denominator(is_paper, total, seed, intended))
        IN /\ allows(existing, first) /\ allows(existing + first, second) =>
                  allows(existing, first + second)
           /\ allows(existing, first + second) => allows(existing, first)

\* "Select the weakest two by pnl_pct, stable on ties":
\* alpha_check_portfolio_drawdown's single pass is the head of the stable sort,
\* nothing is sold above the limit, and it never sells what the exits would keep
\* or sell at a profit while it leaves a position at its stop loss.
GatesPickTheWeakest ==
    /\ list[1] = "positions" => \A equity \in {0, 91, 92, 93} :
        LET items == list[2]
            eligible == {i \in 1 .. Len(items) : Eligible(items[i])}
            sold == alpha_check_portfolio_drawdown(items, equity, 100, alpha_risk_config_default)
            exits == alpha_check_rule_based_exits(items, alpha_risk_config_default)
            stopped == {e.index : e \in {f \in Range(exits) : f.kind = "STOP_LOSS"}}
        IN /\ sold = IF equity \notin {91, 92} THEN <<>>
                     ELSE Take(Stable(eligible,
                                      LAMBDA i, j : Less(PnlPct(items[i]), PnlPct(items[j]))), 2)
           /\ sold # <<>> => stopped \subseteq Range(sold) \/ Range(sold) \subseteq stopped
           /\ {e.index : e \in Range(exits)}
              = {i \in eligible : \/ 20 * items[i].current_price >= 21 * items[i].avg_fill_price
                                  \/ 100 * items[i].current_price <= 93 * items[i].avg_fill_price}
    /\ list[1] = "tables" => SizingIsMonotone

\* An instrument id gives back the ticker it was made from, dots included, and
\* its market up to the two that share a suffix, in a buffer as much smaller as
\* the suffix is long (alpha_from_instrument_id splits at the last dot); and a
\* change that is kept is within the limit and on the side of the move
\* (alpha_compute_change_pct).
MarketDataIsKept ==
    list[1] = "tables" =>
        /\ \A ticker \in {<<"a">>, <<"a", "b">>, <<"a", "KQ">>, <<"a", "b", "US">>},
              market \in Markets, n \in 3 .. 12 :
            \A id \in Range(alpha_to_instrument_id(ticker, market, n)) :
                alpha_from_instrument_id(id, n - 3)
                = <<ticker, IF market = "NASDAQ" THEN "NYSE" ELSE market>>
        /\ \A current \in {0, 2, 3, 32, 33, 34, 1000}, previous \in {-1, 0, 1, 3, 64, 91} :
            \A change \in Range(alpha_compute_change_pct(<<current>>, <<previous>>)) :
                /\ previous > 0 /\ change \in -100000 .. 999999
                /\ change > 0 => current > previous
                /\ change < 0 => current < previous

Swapped(input) ==
    [input EXCEPT !.signal = IF @ = "BUY" THEN "SELL" ELSE IF @ = "SELL" THEN "BUY" ELSE @]
Mirrored(blend) == [Swapped(blend) EXCEPT !.weighted_score = -@]

\* "Absent legs are excluded": with one leg only, the result is that leg's,
\* whatever the ratio would have given it.
LoneLegDecides ==
    Len(list[2]) = 1 => \A ratio \in {-1, 0, 30, 100, 101} :
        LET whole == alpha_blend_signals(<<[list[2][1] EXCEPT !.weight = 1]>>)
        IN /\ alpha_blend_ab(list[2], <<>>, ratio) = whole
           /\ alpha_blend_ab(<<>>, list[2], ratio) = whole

\* The blend favours no side, and no position in the list unless the score lies on
\* the threshold or a figure it reports on a half; the score it reports is never
\* beyond the confidence it reports, half a unit of the latter aside, nor on the
\* other side of the threshold than its signal; a leg alone decides.
BlendIsFair ==
    list[1] = "inputs" =>
        LET items == list[2]
            blends == alpha_blend_signals(items)
            other == alpha_blend_signals([i \in 1 .. Len(items) |-> Swapped(items[i])])
        IN /\ alpha_blend_signals(Reverse(items)) = blends
           /\ other = {Mirrored(blend) : blend \in blends}
           /\ (\E a, b \in blends : a.signal # b.signal) =>
                  \A blend \in blends : blend.weighted_score \in {-150000, 150000}
           /\ \A blend \in blends \union other :
                /\ blend.weighted_score <= 100 * blend.confidence + 50 /\ blend.confidence <= 10000
                /\ blend.signal = "BUY" => blend.weighted_score >= 150000
                /\ blend.weighted_score > 150000 => blend.signal = "BUY"
           /\ LoneLegDecides

\* Whom the screener selects and what a blend says depend on what the inputs are
\* worth, and on nothing else but how doubles round a score on the threshold:
\* alpha_screener_select and alpha_blend_signals.
SelectionIsFair == ScreenerRanks /\ BlendIsFair
=============================================================================
