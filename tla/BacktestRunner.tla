---------------------------- MODULE BacktestRunner ----------------------------
(***************************************************************************)
(* core/apps/backtest_runner.c with backtest_fixture.c, and the buffers of *)
(* alpha_backtest_run: who owns which block of memory, on every path on    *)
(* which a file is missing or malformed or an allocation fails.            *)
(*                                                                         *)
(* The backtest itself is BacktestEngine; a run here only takes and gives  *)
(* back its buffers.  How often the benchmark repeats a run is left to the *)
(* clock.                                                                  *)
(***************************************************************************)
EXTENDS Integers

CONSTANTS
    MaxItems,   \* bound: the bars, and the signals, of a file
    Trials      \* cmd_bench's trials

ASSUME RunnerAssumption == MaxItems \in Nat /\ Trials \in Nat \ {0}

VARIABLES
    at,         \* where main is
    command,    \* argv[1]
    heap,       \* the live blocks
    fixture,    \* what each pointer of the fixture holds, "null" or a block
    count,      \* bar_count and signal_count
    filled,     \* how many of the bars, and of the signals, are read
    samples,    \* the trials timed so far
    misused     \* a block was freed that is not live, or read where it is not filled

runner == <<at, command, heap, fixture, count, filled, samples, misused>>

Pointers == {"prices", "dates", "signal_days", "signal_values"}
Nothing == [p \in Pointers |-> "null"]
Zero == [bars |-> 0, signals |-> 0]

\* free of a set of pointers, where "null" is nothing.
Free(blocks) ==
    LET freed == blocks \ {"null"}
    IN heap' = heap \ freed /\ misused' = (misused \/ ~(freed \subseteq heap))

Held(pointers) == {fixture[p] : p \in pointers}

RunnerInit ==
    /\ at = "main" /\ command \in {"run", "bench", "other"}
    /\ heap = {} /\ fixture = Nothing /\ count = Zero /\ filled = Zero
    /\ samples = 0 /\ misused = FALSE

-----------------------------------------------------------------------------
(* alpha_fixture_load *)

\* Wrong arguments, a rounding mode that cannot be set or a file that cannot be
\* read end the program; otherwise the document is there.
OpenFile ==
    /\ at = "main"
    /\ \/ at' = "exit" /\ heap' = heap
       \/ at' = "config" /\ heap' = heap \union {"doc"}
    /\ UNCHANGED <<command, fixture, count, filled, samples, misused>>

\* Mutant: a fixture that cannot be loaded keeps what it has.
LoadFailsKeeping ==
    /\ Free({"doc"}) /\ at' = "exit"
    /\ fixture' = Nothing /\ count' = Zero

\* The end of the load with an error: the document and the fixture are freed.
LoadFails ==
    /\ Free({"doc"} \union Held(Pointers)) /\ at' = "exit"
    /\ fixture' = Nothing /\ count' = Zero

parse_config ==
    /\ at = "config" /\ at' \in {"bars", "load_fails"}
    /\ UNCHANGED <<command, heap, fixture, count, filled, samples, misused>>

\* The two arrays of a table of n items: each malloc may fail, and one of 0 bytes
\* may return NULL.
Allocate(table, n, pair, next) ==
    \E given \in SUBSET pair :
        /\ fixture' = [p \in Pointers |-> IF p \in given THEN p ELSE fixture[p]]
        /\ heap' = heap \union given
        /\ count' = [count EXCEPT ![table] = n]
        /\ at' = IF given = pair THEN next ELSE "load_fails"
        /\ UNCHANGED misused

parse_bars ==
    /\ at = "bars"
    /\ \/ at' = "load_fails" /\ UNCHANGED <<heap, fixture, count, misused>>
       \/ \E n \in 0 .. MaxItems : Allocate("bars", n, {"prices", "dates"}, "bars_fill")
    /\ UNCHANGED <<command, filled, samples>>

\* The signals are optional.
parse_signals ==
    /\ at = "signals"
    /\ \/ \E n \in 0 .. MaxItems :
             Allocate("signals", n, {"signal_days", "signal_values"}, "signals_fill")
       \/ at' = "loaded" /\ UNCHANGED <<heap, fixture, count, misused>>
    /\ UNCHANGED <<command, filled, samples>>

\* One turn of the loop over a table: an item may be malformed.
Fill(table, here, next) ==
    /\ at = here
    /\ IF filled[table] = count[table]
       THEN at' = next /\ filled' = filled
       ELSE \/ at' = at /\ filled' = [filled EXCEPT ![table] = @ + 1]
            \/ at' = "load_fails" /\ filled' = filled
    /\ UNCHANGED <<command, heap, fixture, count, samples, misused>>

LoadEnds ==
    /\ \/ at = "load_fails" /\ LoadFails
       \/ /\ at = "loaded" /\ Free({"doc"})
          /\ at' = IF command = "other" THEN "free" ELSE command
          /\ UNCHANGED <<fixture, count>>
    /\ UNCHANGED <<command, filled, samples>>

-----------------------------------------------------------------------------
(* The commands. *)

\* The engine reads every bar of the two arrays and scans the signal table.
Readable ==
    /\ Held({"prices", "dates"}) \subseteq heap /\ filled.bars = count.bars
    /\ count.signals > 0 => Held({"signal_days", "signal_values"}) \subseteq heap
    /\ filled.signals = count.signals

\* run_once with alpha_backtest_run: a configuration it refuses, buffers it
\* cannot get (and then gives back), or a result with its buffers, none when
\* there are no bars.
Runs(refused, done) ==
    /\ misused' = (misused \/ ~Readable)
    /\ \/ at' = refused /\ heap' = heap
       \/ at' = done /\ heap' = heap \union IF count.bars = 0 THEN {} ELSE {"trades", "snapshots"}

cmd_run ==
    /\ at = "run" /\ Runs("free", "printed")
    /\ UNCHANGED <<command, fixture, count, filled, samples>>

\* alpha_backtest_result_free of the run's result.
result_free == Free(IF count.bars = 0 THEN {"null"} ELSE {"trades", "snapshots"})

cmd_run_ends ==
    /\ at = "printed" /\ result_free /\ at' = "free"
    /\ UNCHANGED <<command, fixture, count, filled, samples>>

\* The runs that find the number of iterations, and then those of the trials.
cmd_bench ==
    /\ \/ at = "bench" /\ Runs("free", "bench_ran")
       \/ at = "trial" /\ Runs("trial_failed", "trial_ran")
    /\ UNCHANGED <<command, fixture, count, filled, samples>>

\* A run is over: another one, or the two arrays of the trials.
cmd_bench_scaled ==
    /\ at = "bench_ran" /\ result_free
    /\ at' \in {"bench", "arrays"}
    /\ UNCHANGED <<command, fixture, count, filled, samples>>

cmd_bench_arrays ==
    /\ at = "arrays"
    /\ \E given \in SUBSET {"samples", "totals"} :
          IF given = {"samples", "totals"} THEN at' = "trial" /\ heap' = heap \union given
          ELSE at' = "free" /\ heap' = heap
    /\ UNCHANGED <<command, fixture, count, filled, samples, misused>>

cmd_bench_trial ==
    /\ at = "trial_ran" /\ result_free
    /\ \/ at' = "trial" /\ samples' = samples
       \/ /\ samples' = samples + 1
          /\ at' = IF samples + 1 < Trials THEN "trial" ELSE "bench_printed"
    /\ UNCHANGED <<command, fixture, count, filled>>

cmd_bench_ends ==
    /\ at \in {"trial_failed", "bench_printed"}
    /\ Free({"samples", "totals"}) /\ at' = "free"
    /\ UNCHANGED <<command, fixture, count, filled, samples>>

alpha_fixture_free ==
    /\ at = "free" /\ Free(Held(Pointers)) /\ at' = "exit"
    /\ fixture' = Nothing /\ count' = Zero
    /\ UNCHANGED <<command, filled, samples>>

RunnerNext ==
    \/ OpenFile \/ parse_config \/ parse_bars \/ Fill("bars", "bars_fill", "signals")
    \/ parse_signals \/ Fill("signals", "signals_fill", "loaded") \/ LoadEnds
    \/ cmd_run \/ cmd_run_ends
    \/ cmd_bench \/ cmd_bench_scaled \/ cmd_bench_arrays \/ cmd_bench_trial \/ cmd_bench_ends
    \/ alpha_fixture_free

-----------------------------------------------------------------------------
\* "Owns its heap buffers; release with alpha_fixture_free": whatever fails on
\* the way, no block is freed twice or read before it is filled, every pointer of
\* the fixture is a live block, and at the end none is left.
RunnerOwnsItsBlocks ==
    /\ ~misused /\ Held(Pointers) \subseteq heap \union {"null"}
    /\ at = "exit" => heap = {}
    /\ at = "bench_printed" => samples = Trials
=============================================================================
