-------------------------------- MODULE MCCore --------------------------------
(***************************************************************************)
(* The core and the cache on small inputs.  A behaviour walks through the  *)
(* dates, builds one list for the decisions, runs a backtest, is a run of  *)
(* the backtest program, or is one of the cache's keys.  The lists have    *)
(* ties, values at and beyond every clamp, and positions the gates must    *)
(* skip.                                                                   *)
(***************************************************************************)
EXTENDS CalendarWalk, BenchRunners, BacktestMetrics, BacktestRunner, MCBreaker

MCCandidates == [passes : BOOLEAN, score : 0 .. 2]
MCGaps == {-1, 2}
MCInputs == [signal : {"BUY", "SELL", "CLOSE"}, confidence : {-1, 40, 120}, weight : {-1, 1, 2}]
Position(avg, now) == [quantity |-> 1, avg_fill_price |-> avg, current_price |-> now]
MCPositions ==
    {Position(0, 1), Position(1, 0), [Position(2, 1) EXCEPT !.quantity = 0],
     Position(2, 1), Position(4, 2), Position(2, 2), Position(2, 3),
     Position(20, 21), Position(100, 93)}

Init ==
    /\ kind \in {"walk", "list", "backtest", "runner", "lockout", "ticks"}
    /\ BacktestInit /\ BreakerInit /\ TicksInit
    /\ WalkInit /\ (kind # "walk" => date[1] = FirstYear)
    /\ IF kind = "list" THEN ListInit ELSE list = <<"none", <<>>>>
    /\ IF kind = "runner" THEN RunnerInit
       ELSE /\ at = "idle" /\ command = "none" /\ heap = {} /\ fixture = Nothing
            /\ count = Zero /\ filled = Zero /\ samples = 0 /\ misused = FALSE

Next ==
    /\ kind' = kind
    /\ \/ kind = "walk" /\ WalkNext /\ UNCHANGED <<list, account, runner, breaker, ticks>>
       \/ kind = "list" /\ ListNext /\ UNCHANGED <<walk, account, runner, breaker, ticks>>
       \/ kind = "backtest" /\ BacktestNext /\ UNCHANGED <<walk, list, runner, breaker, ticks>>
       \/ kind = "runner" /\ RunnerNext /\ UNCHANGED <<walk, list, account, breaker, ticks>>
       \/ CacheNext /\ UNCHANGED <<walk, list, account, runner>>

Spec == Init /\ [][Next]_<<kind, walk, list, account, runner, breaker, ticks>>
=============================================================================
