---------------------------- MODULE BacktestEngine ----------------------------
(***************************************************************************)
(* The backtest, core/src/backtest: engine.c with cost_model.c, one bar a  *)
(* step.                                                                   *)
(*                                                                         *)
(* Prices and capital are whole; rates are whole multiples of 1/Scale; so  *)
(* money is counted in units of 1/Scale and every sum is exact.  What the  *)
(* code's doubles do to a decision is kept: a cost comes out up to Ulp too *)
(* high or too low, and a quotient within Ulp of a whole number on either  *)
(* side of it.                                                             *)
(***************************************************************************)
EXTENDS Integers, Sequences

CONSTANTS
    Capital,          \* config->initial_capital
    Prices,           \* the closing prices a bar may have
    Gaps,             \* the days from one bar to the next; a file need not be in order
    Bars,             \* the number of bars, n
    Scale, CommissionRate, TaxRate, SlippageRate,
    Ulp               \* the rounding of an amount, in units of 1/Scale

ASSUME CapitalAssumption == Capital \in Nat \ {0}
ASSUME PricesAssumption == Prices \subseteq Nat /\ Gaps \subseteq Int
ASSUME RatesAssumption == {CommissionRate, TaxRate, SlippageRate, Ulp} \subseteq Nat
ASSUME ScaleAssumption == Scale \in Nat \ {0} /\ Bars \in Nat /\ 2 * Ulp <= Scale

VARIABLES
    cash, position_qty, avg_buy_price, prev_portfolio_value,   \* engine_state_t
    bar_date, trades, snapshots

account == <<cash, position_qty, avg_buy_price, prev_portfolio_value, bar_date, trades, snapshots>>

Signals == {"BUY", "SELL", "HOLD", "CLOSE"}

-----------------------------------------------------------------------------
TaxFor(side) == IF side = "SELL" THEN TaxRate ELSE 0

\* cost.total; commission, tax and slippage are its three summands.
Charge(side, price, quantity) ==
    price * quantity * (CommissionRate + TaxFor(side) + SlippageRate)

\* The totals doubles may give; nothing costs nothing.
alpha_cost_calculate(side, price, quantity) ==
    LET total == Charge(side, price, quantity)
    IN IF total = 0 THEN {0} ELSE {c \in total - Ulp .. total + Ulp : c >= 0}

effective_price(price) == Scale * price + Charge("BUY", price, 1)

\* floor(cash / effective_price) in doubles.
Affordable(price) ==
    {q \in 0 .. cash + Ulp :
        /\ q * effective_price(price) <= cash + Ulp
        /\ (q + 1) * effective_price(price) > cash - Ulp}

\* Mutant: the rounding guard is gone.
Unguarded(price, q, c) == {<<q, c>>}

\* What is bought, and what it costs; the outlay is compared as it will be paid.
Guarded(price, q, c) ==
    IF Scale * price * q + c > cash THEN {q - 1} \X alpha_cost_calculate("BUY", price, q - 1)
    ELSE {<<q, c>>}

Trade(side, price, quantity, total_cost, pnl) ==
    [bar_date |-> bar_date', side |-> side, price |-> price, quantity |-> quantity,
     total_cost |-> total_cost, pnl |-> pnl]

Stay == UNCHANGED <<cash, position_qty, avg_buy_price, trades>>

open_position(price) ==
    IF effective_price(price) <= 0 THEN Stay
    ELSE \E q \in Affordable(price) : \E c \in alpha_cost_calculate("BUY", price, q) :
         \E bought \in Guarded(price, q, c) :
            IF bought[1] <= 0 THEN Stay
            ELSE /\ cash' = cash - (Scale * price * bought[1] + bought[2])
                 /\ avg_buy_price' = price
                 /\ position_qty' = bought[1]
                 /\ trades' = Append(trades, Trade("BUY", price, bought[1], bought[2], 0))

close_position(price) ==
    \E c \in alpha_cost_calculate("SELL", price, position_qty) :
        LET pnl == Scale * (price - avg_buy_price) * position_qty - c
        IN /\ cash' = cash + (Scale * price * position_qty - c)
           /\ position_qty' = 0 /\ avg_buy_price' = 0
           /\ trades' = Append(trades, Trade("SELL", price, position_qty, c, pnl))

\* daily_return_pct is kept as the fraction [gain, base]; no base, no return.
take_snapshot(price) ==
    LET value == cash' + Scale * position_qty' * price
        gain == IF prev_portfolio_value > 0 THEN value - prev_portfolio_value ELSE 0
    IN /\ prev_portfolio_value' = value
       /\ snapshots' = Append(snapshots,
              [bar_date |-> bar_date', close_price |-> price, position_qty |-> position_qty',
               portfolio_value |-> value,
               gain |-> gain, base |-> prev_portfolio_value])

BacktestInit ==
    /\ cash = Scale * Capital /\ position_qty = 0 /\ avg_buy_price = 0
    /\ prev_portfolio_value = Scale * Capital
    /\ bar_date = 0 /\ trades = <<>> /\ snapshots = <<>>

Opens(signal) == signal = "BUY" /\ position_qty = 0

\* One turn of alpha_backtest_run's loop, on whatever the signal source says.
Bar(price, gap, signal) ==
    /\ Len(snapshots) < Bars
    /\ bar_date' = bar_date + gap
    /\ IF Opens(signal) THEN open_position(price)
       ELSE IF signal \in {"SELL", "CLOSE"} /\ position_qty > 0 THEN close_position(price)
       ELSE Stay
    /\ take_snapshot(price)

BacktestNext == \E price \in Prices, gap \in Gaps, signal \in Signals : Bar(price, gap, signal)

-----------------------------------------------------------------------------
\* What trades do to the account, apart from the price of what they hold.
Net(t) == IF t.side = "SELL" THEN t.pnl ELSE -t.total_cost

Booked(list) ==
    LET booked[n \in 0 .. Len(list)] == IF n = 0 THEN 0 ELSE booked[n - 1] + Net(list[n])
    IN booked[Len(list)]

\* Buys and sells alternate, and each sale closes the whole of the buy before it.
SalesCloseTheirBuy ==
    \A i \in 1 .. Len(trades) :
        /\ trades[i].side = IF i % 2 = 1 THEN "BUY" ELSE "SELL"
        /\ i % 2 = 0 => trades[i].quantity = trades[i - 1].quantity

\* "All-cash integer-share buy with the rounding guard": what a buy leaves does
\* not exceed the price of one share by more than the rounding.  It may be that
\* price: cash for a whole number of shares may buy one less.
SpendsAllItMay == position_qty > 0 => cash < effective_price(avg_buy_price) + 2 * Ulp

\* The account balances, whatever the bars and the signals: no buy overdraws it
\* or leaves more than a share's worth (open_position), and what is left in
\* cash is the capital, plus the profits of the closed trades, less the costs of
\* the buys and the price paid for what is held (close_position: a trade's pnl
\* leaves out what its buy cost).
BooksBalance ==
    /\ {cash, position_qty, avg_buy_price, prev_portfolio_value} \subseteq Nat
    /\ Len(trades) <= Len(snapshots)
    /\ SpendsAllItMay /\ SalesCloseTheirBuy
    /\ cash = Scale * Capital + Booked(trades) - Scale * avg_buy_price * position_qty
=============================================================================
