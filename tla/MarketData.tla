------------------------------ MODULE MarketData ------------------------------
(***************************************************************************)
(* market_data/market_data.c: instrument ids and the day's change.         *)
(*                                                                         *)
(* A text is the sequence of its parts between dots, each part a word of a *)
(* known width.  A double is <<x>> with x a whole number, or <<>> where it *)
(* is missing or not finite; a change is a fraction of a percent, and its  *)
(* rounded value a number of thousandths of a percent.                     *)
(***************************************************************************)
EXTENDS Integers, Sequences, SequencesExt, FiniteSetsExt, Fractions

Markets == {"KOSPI", "KOSDAQ", "NYSE", "NASDAQ"}

market_suffix(market) ==
    IF market = "KOSDAQ" THEN "KQ" ELSE IF market \in {"NYSE", "NASDAQ"} THEN "US" ELSE "KS"

suffix_market(suffix) ==
    IF suffix = "KQ" THEN "KOSDAQ" ELSE IF suffix = "US" THEN "NYSE" ELSE "KOSPI"

\* strlen, with the dots; a suffix has two letters, any other part one.
Length(text) ==
    FoldLeft(LAMBDA acc, part : acc + IF part \in {"KS", "KQ", "US"} THEN 2 ELSE 1,
             Len(text) - 1, text)

\* <<id>>, or <<>> when it and its terminator do not fit in n bytes.
alpha_to_instrument_id(ticker, market, n) ==
    LET id == Append(ticker, market_suffix(market))
    IN IF Length(id) >= n THEN <<>> ELSE <<id>>

\* Mutant: the id is split at its first dot.
SplitFirst(id) == [raw |-> <<Head(id)>>, suffix |-> id[2]]

Split(id) == [raw |-> Front(id), suffix |-> Last(id)]

\* <<raw, market>>, or <<>> when the raw code does not fit in n bytes.
alpha_from_instrument_id(id, n) ==
    LET parts == IF Len(id) = 1 THEN [raw |-> id, suffix |-> "KS"] ELSE Split(id)
    IN IF Length(parts.raw) >= n THEN <<>> ELSE <<parts.raw, suffix_market(parts.suffix)>>

-----------------------------------------------------------------------------
ALPHA_MAX_ABS_CHANGE_PCT == Fraction(999999, 1000)

Magnitude(f) == IF f.n < 0 THEN Fraction(-f.n, f.d) ELSE f

\* The nearest whole number to n / d, half to even, as alpha_round_dp's printf.
Rounded(n, d) ==
    LET down == n \div d
        twice == 2 * (n % d)
    IN IF twice < d \/ (twice = d /\ down % 2 = 0) THEN down ELSE down + 1

alpha_sanitize_change_pct(value) ==
    IF Less(ALPHA_MAX_ABS_CHANGE_PCT, Magnitude(value)) THEN <<>>
    ELSE <<Rounded(1000 * value.n, value.d)>>

alpha_compute_change_pct(current, previous) ==
    IF previous = <<>> \/ current = <<>> THEN <<>>
    ELSE IF previous[1] <= 0 THEN <<>>
    ELSE alpha_sanitize_change_pct(Fraction(100 * (current[1] - previous[1]), previous[1]))
=============================================================================
