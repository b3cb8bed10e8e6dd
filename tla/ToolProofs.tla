----------------------------- MODULE ToolProofs -----------------------------
(***************************************************************************)
(* Proofs about the programs around the drivers: the blocks of the         *)
(* backtest program, the books of the backtest itself, and the verdict on  *)
(* the concurrent adapters, for every number of tasks and of iterations.   *)
(***************************************************************************)
EXTENDS BacktestRunner, BacktestEngine, EdgeAdapter, SeqLemmas, WellFoundedInduction,
        TLAPS

-----------------------------------------------------------------------------
(* The backtest program. *)

\* The program alone.
RunnerSpec == RunnerInit /\ [][RunnerNext]_runner

\* Where a run of the program may be.
Loading == {"config", "bars", "bars_fill", "signals", "signals_fill", "loaded", "load_fails"}
Ready == {"loaded", "run", "printed", "bench", "bench_ran", "arrays", "trial", "trial_ran",
          "trial_failed", "bench_printed", "free"}
Places == {"main", "exit"} \union Loading \union Ready

\* The types.
RunnerType ==
    /\ at \in Places /\ command \in {"run", "bench", "other"}
    /\ fixture \in [Pointers -> Pointers \union {"null"}]
    /\ count \in [bars : Nat, signals : Nat] /\ filled \in [bars : Nat, signals : Nat]
    /\ samples \in Nat

\* Every live block has one owner: the fixture, the document while it is read,
\* a result until it is freed, and the arrays of the trials.
Owned ==
    {p \in Pointers : fixture[p] # "null"}
    \union (IF at \in Loading THEN {"doc"} ELSE {})
    \union (IF at \in {"printed", "bench_ran", "trial_ran"} /\ count.bars # 0
            THEN {"trades", "snapshots"} ELSE {})
    \union (IF at \in {"trial", "trial_ran", "trial_failed", "bench_printed"}
            THEN {"samples", "totals"} ELSE {})

\* How far the tables are read at each place.
Progress ==
    /\ \A p \in Pointers : fixture[p] \in {p, "null"}
    /\ at \in {"main", "config", "bars"} => filled = Zero
    /\ at \in {"main", "config", "bars", "exit"} => fixture = Nothing /\ count = Zero
    /\ at \in {"bars_fill", "signals"} \union {"signals_fill"} \union Ready =>
           fixture["prices"] = "prices" /\ fixture["dates"] = "dates"
    /\ at \in {"bars_fill", "signals"} =>
           fixture["signal_days"] = "null" /\ fixture["signal_values"] = "null"
           /\ count.signals = 0 /\ filled.signals = 0
    /\ at \in {"signals", "signals_fill"} \union Ready => filled.bars = count.bars
    /\ at = "signals_fill" \/ (at \in Ready /\ count.signals > 0) =>
           fixture["signal_days"] = "signal_days" /\ fixture["signal_values"] = "signal_values"
    /\ at \in Ready => filled.signals = count.signals

\* The trials timed so far.
Timed ==
    IF at \in {"trial", "trial_ran", "trial_failed"} THEN samples < Trials
    ELSE IF at = "bench_printed" THEN samples = Trials
    ELSE at \in {"free", "exit"} \/ samples = 0

\* The blocks that are allocated are those the program still owns.
RunnerInv == RunnerType /\ heap = Owned /\ misused = FALSE /\ Progress /\ Timed

\* What the pointers hold is live, ...
LEMMA HeldIsLive ==
    ASSUME RunnerInv, NEW P \in SUBSET Pointers
    PROVE  Held(P) \ {"null"} \subseteq heap
  BY DEF Held, RunnerInv, Progress, Owned

\* ... and once the tables are loaded the engine can read them.
LEMMA ReadyIsReadable ==
    ASSUME RunnerInv, at \in Ready
    PROVE  Readable
<1>1. Held({"prices", "dates"}) \subseteq heap
  <2>1. Held({"prices", "dates"}) = {"prices", "dates"}
    BY Zenon DEF Held, RunnerInv, Progress
  <2>2. QED
    BY <2>1, HeldIsLive, Zenon DEF Pointers
<1>2. ASSUME count.signals > 0 PROVE Held({"signal_days", "signal_values"}) \subseteq heap
  <2>1. Held({"signal_days", "signal_values"}) = {"signal_days", "signal_values"}
    BY <1>2 DEF Held, RunnerInv, Progress
  <2>2. QED
    BY <2>1, HeldIsLive, Zenon DEF Pointers
<1>3. QED
  BY <1>1, <1>2, Zenon DEF Readable, RunnerInv, Progress

\* What malloc gives goes to the fixture.
LEMMA AllocatedIsOwned ==
    ASSUME RunnerInv, at \in {"bars", "signals"}, NEW table, NEW n, NEW next \in Loading,
           NEW pair \in SUBSET Pointers, Allocate(table, n, pair, next)
    PROVE  heap' = Owned'
<1>1. PICK given \in SUBSET pair :
        /\ fixture' = [p \in Pointers |-> IF p \in given THEN p ELSE fixture[p]]
        /\ heap' = heap \union given
        /\ at' \in Loading
  BY Zenon DEF Allocate, Loading
<1>2. {p \in Pointers : fixture'[p] # "null"} = {p \in Pointers : fixture[p] # "null"} \union given
  BY <1>1, Zenon DEF Pointers
<1>3. QED
  BY <1>1, <1>2, ZenonT(40) DEF Owned, RunnerInv, Loading

\* RunnerInv is inductive.
LEMMA RunnerInvInit == RunnerInit => RunnerInv
  BY RunnerAssumption DEF RunnerInit, RunnerInv, RunnerType, Owned, Progress, Timed, Places, Loading,
     Ready, Pointers, Nothing, Zero

LEMMA RunnerInvNext == RunnerInv /\ [RunnerNext]_runner => RunnerInv'
<1> SUFFICES ASSUME RunnerInv, [RunnerNext]_runner PROVE RunnerInv'
  OBVIOUS
<1> USE RunnerAssumption DEF RunnerInv, RunnerType, Places, Loading, Ready, Pointers, Nothing, Zero
<1>1. CASE OpenFile
  <2>1. RunnerType'
    BY <1>1, Zenon DEF OpenFile, Progress
  <2>2. heap' = Owned'
    BY <1>1 DEF OpenFile, Owned
  <2>3. misused' = FALSE
    BY <1>1, Zenon DEF OpenFile, Owned, Progress
  <2>4. Progress'
    BY <1>1, Zenon DEF OpenFile, Progress
  <2>5. Timed'
    BY <1>1, Zenon DEF OpenFile, Timed
  <2>6. QED
    BY <2>1, <2>2, <2>3, <2>4, <2>5, Zenon DEF RunnerInv
<1>2. CASE parse_config
  <2>1. RunnerType'
    BY <1>2, Zenon DEF parse_config, Progress
  <2>2. heap' = Owned'
    BY <1>2, Zenon DEF parse_config, Owned, Progress, Held
  <2>3. misused' = FALSE
    BY <1>2, Zenon DEF parse_config, Owned, Progress
  <2>4. Progress'
    BY <1>2, Zenon DEF parse_config, Progress
  <2>5. Timed'
    BY <1>2, Zenon DEF parse_config, Timed
  <2>6. QED
    BY <2>1, <2>2, <2>3, <2>4, <2>5, Zenon DEF RunnerInv
<1>3. CASE parse_bars
  <2>1. RunnerType'
    BY <1>3 DEF parse_bars, Allocate, Progress
  <2>2. heap' = Owned'
    BY <1>3, AllocatedIsOwned, Zenon DEF parse_bars, Owned
  <2>3. misused' = FALSE
    BY <1>3, Zenon DEF parse_bars, Allocate, Owned, Progress
  <2>4. Progress'
    BY <1>3 DEF parse_bars, Allocate, Progress
  <2>5. Timed'
    BY <1>3, Zenon DEF parse_bars, Allocate, Timed
  <2>6. QED
    BY <2>1, <2>2, <2>3, <2>4, <2>5, Zenon DEF RunnerInv
<1>4. CASE Fill("bars", "bars_fill", "signals")
  <2>1. RunnerType'
    BY <1>4 DEF Fill, Progress
  <2>2. heap' = Owned'
    BY <1>4 DEF Fill, Owned, Progress, Held
  <2>3. misused' = FALSE
    BY <1>4, Zenon DEF Fill, Owned, Progress
  <2>4. Progress'
    BY <1>4 DEF Fill, Progress
  <2>5. Timed'
    BY <1>4, Zenon DEF Fill, Timed
  <2>6. QED
    BY <2>1, <2>2, <2>3, <2>4, <2>5, Zenon DEF RunnerInv
<1>5. CASE parse_signals
  <2>1. RunnerType'
    BY <1>5 DEF parse_signals, Allocate, Progress
  <2>2. heap' = Owned'
    BY <1>5, AllocatedIsOwned, Zenon DEF parse_signals, Owned
  <2>3. misused' = FALSE
    BY <1>5, Zenon DEF parse_signals, Allocate, Owned, Progress
  <2>4. Progress'
    BY <1>5 DEF parse_signals, Allocate, Progress
  <2>5. Timed'
    BY <1>5, Zenon DEF parse_signals, Allocate, Timed
  <2>6. QED
    BY <2>1, <2>2, <2>3, <2>4, <2>5, Zenon DEF RunnerInv
<1>6. CASE Fill("signals", "signals_fill", "loaded")
  <2>1. RunnerType'
    BY <1>6 DEF Fill, Progress
  <2>2. heap' = Owned'
    BY <1>6, Zenon DEF Fill, Owned, Progress, Held
  <2>3. misused' = FALSE
    BY <1>6, Zenon DEF Fill, Owned, Progress
  <2>4. Progress'
    BY <1>6 DEF Fill, Progress
  <2>5. Timed'
    BY <1>6, Zenon DEF Fill, Timed
  <2>6. QED
    BY <2>1, <2>2, <2>3, <2>4, <2>5, Zenon DEF RunnerInv
<1>7. CASE LoadEnds
  <2>1. RunnerType'
    BY <1>7 DEF LoadEnds, LoadFails, Free, Progress
  <2>2. heap' = Owned'
    BY <1>7 DEF LoadEnds, LoadFails, Free, Owned, Progress, Held
  <2>3. misused' = FALSE
    BY <1>7, HeldIsLive, Zenon DEF LoadEnds, LoadFails, Free, Owned
  <2>4. Progress'
    BY <1>7 DEF LoadEnds, LoadFails, Free, Progress
  <2>5. Timed'
    BY <1>7, Zenon DEF LoadEnds, LoadFails, Free, Timed
  <2>6. QED
    BY <2>1, <2>2, <2>3, <2>4, <2>5, Zenon DEF RunnerInv
<1>8. CASE cmd_run
  <2>1. RunnerType'
    BY <1>8, Zenon DEF cmd_run, Runs, Progress
  <2>2. heap' = Owned'
    BY <1>8 DEF cmd_run, Runs, Owned, Progress, Held
  <2>3. misused' = FALSE
    BY <1>8, ReadyIsReadable, Zenon DEF cmd_run, Runs
  <2>4. Progress'
    BY <1>8, Zenon DEF cmd_run, Runs, Progress
  <2>5. Timed'
    BY <1>8, Zenon DEF cmd_run, Runs, Timed
  <2>6. QED
    BY <2>1, <2>2, <2>3, <2>4, <2>5, Zenon DEF RunnerInv
<1>9. CASE cmd_run_ends
  <2>1. RunnerType'
    BY <1>9, Zenon DEF cmd_run_ends, result_free, Free, Progress
  <2>2. heap' = Owned'
    BY <1>9 DEF cmd_run_ends, result_free, Free, Owned, Progress, Held
  <2>3. misused' = FALSE
    BY <1>9, Zenon DEF cmd_run_ends, result_free, Free, Owned, Progress
  <2>4. Progress'
    BY <1>9, Zenon DEF cmd_run_ends, result_free, Free, Progress
  <2>5. Timed'
    BY <1>9, Zenon DEF cmd_run_ends, result_free, Free, Timed
  <2>6. QED
    BY <2>1, <2>2, <2>3, <2>4, <2>5, Zenon DEF RunnerInv
<1>10. CASE cmd_bench
  <2>1. RunnerType'
    BY <1>10, Zenon DEF cmd_bench, Runs, Progress
  <2>2. heap' = Owned'
    BY <1>10 DEF cmd_bench, Runs, Owned, Progress, Held
  <2>3. misused' = FALSE
    BY <1>10, ReadyIsReadable, Zenon DEF cmd_bench, Runs
  <2>4. Progress'
    BY <1>10, Zenon DEF cmd_bench, Runs, Progress
  <2>5. Timed'
    BY <1>10, Zenon DEF cmd_bench, Runs, Timed
  <2>6. QED
    BY <2>1, <2>2, <2>3, <2>4, <2>5, Zenon DEF RunnerInv
<1>11. CASE cmd_bench_scaled
  <2>1. RunnerType'
    BY <1>11, Zenon DEF cmd_bench_scaled, result_free, Free, Progress
  <2>2. heap' = Owned'
    BY <1>11 DEF cmd_bench_scaled, result_free, Free, Owned, Progress, Held
  <2>3. misused' = FALSE
    BY <1>11, Zenon DEF cmd_bench_scaled, result_free, Free, Owned, Progress
  <2>4. Progress'
    BY <1>11, Zenon DEF cmd_bench_scaled, result_free, Free, Progress
  <2>5. Timed'
    BY <1>11, Zenon DEF cmd_bench_scaled, result_free, Free, Timed
  <2>6. QED
    BY <2>1, <2>2, <2>3, <2>4, <2>5, Zenon DEF RunnerInv
<1>12. CASE cmd_bench_arrays
  <2>1. RunnerType'
    BY <1>12, Zenon DEF cmd_bench_arrays, Progress
  <2>2. heap' = Owned'
    BY <1>12 DEF cmd_bench_arrays, Owned, Progress, Held
  <2>3. misused' = FALSE
    BY <1>12, Zenon DEF cmd_bench_arrays, Owned, Progress
  <2>4. Progress'
    BY <1>12, Zenon DEF cmd_bench_arrays, Progress
  <2>5. Timed'
    BY <1>12 DEF cmd_bench_arrays, Timed
  <2>6. QED
    BY <2>1, <2>2, <2>3, <2>4, <2>5, Zenon DEF RunnerInv
<1>13. CASE cmd_bench_trial
  <2>1. RunnerType'
    BY <1>13 DEF cmd_bench_trial, result_free, Free, Progress
  <2>2. heap' = Owned'
    BY <1>13 DEF cmd_bench_trial, result_free, Free, Owned, Progress, Held
  <2>3. misused' = FALSE
    BY <1>13, Zenon DEF cmd_bench_trial, result_free, Free, Owned, Progress
  <2>4. Progress'
    BY <1>13, Zenon DEF cmd_bench_trial, result_free, Free, Progress
  <2>5. Timed'
    BY <1>13 DEF cmd_bench_trial, result_free, Free, Timed
  <2>6. QED
    BY <2>1, <2>2, <2>3, <2>4, <2>5, Zenon DEF RunnerInv
<1>14. CASE cmd_bench_ends
  <2>1. RunnerType'
    BY <1>14, Zenon DEF cmd_bench_ends, Free, Progress
  <2>2. heap' = Owned'
    BY <1>14 DEF cmd_bench_ends, Free, Owned, Progress, Held
  <2>3. misused' = FALSE
    BY <1>14, Zenon DEF cmd_bench_ends, Free, Owned, Progress
  <2>4. Progress'
    BY <1>14, Zenon DEF cmd_bench_ends, Free, Progress
  <2>5. Timed'
    BY <1>14, Zenon DEF cmd_bench_ends, Free, Timed
  <2>6. QED
    BY <2>1, <2>2, <2>3, <2>4, <2>5, Zenon DEF RunnerInv
<1>15. CASE alpha_fixture_free
  <2>1. RunnerType'
    BY <1>15, Zenon DEF alpha_fixture_free, Free, Progress
  <2>2. heap' = Owned'
    BY <1>15 DEF alpha_fixture_free, Free, Owned, Progress, Held
  <2>3. misused' = FALSE
    BY <1>15, HeldIsLive, Zenon DEF alpha_fixture_free, Free, Owned
  <2>4. Progress'
    BY <1>15, Zenon DEF alpha_fixture_free, Free, Progress
  <2>5. Timed'
    BY <1>15, Zenon DEF alpha_fixture_free, Free, Timed
  <2>6. QED
    BY <2>1, <2>2, <2>3, <2>4, <2>5, Zenon DEF RunnerInv
<1>16. CASE UNCHANGED runner
  BY <1>16 DEF runner, Owned, Progress, Timed
<1>17. QED
  BY <1>1, <1>2, <1>3, <1>4, <1>5, <1>6, <1>7, <1>8, <1>9, <1>10, <1>11, <1>12, <1>13, <1>14, <1>15, <1>16, Zenon DEF RunnerNext

\* Whatever fails on the way, backtest_runner frees every block once, reads none
\* before it is filled, and leaves none at its end; cmd_bench prints what it has
\* timed.
THEOREM RunnerOwnership == RunnerSpec => []RunnerOwnsItsBlocks
<1>1. RunnerInv => RunnerOwnsItsBlocks
  <2> SUFFICES ASSUME RunnerInv PROVE RunnerOwnsItsBlocks
    OBVIOUS
  <2>1. Held(Pointers) \subseteq heap \union {"null"}
    BY HeldIsLive, Zenon
  <2>2. at = "exit" => heap = {}
    BY Zenon DEF RunnerInv, Owned, Progress, Nothing, Loading
  <2>3. QED
    BY <2>1, <2>2, Zenon DEF RunnerInv, Timed, RunnerOwnsItsBlocks
<1>2. QED
  BY <1>1, RunnerInvInit, RunnerInvNext, PTL DEF RunnerSpec

-----------------------------------------------------------------------------
(* The concurrent adapters: how the iterations are dealt out. *)

\* The iterations of task t.
Share(t) == First[t] .. First[t] + distribute(t) - 1

\* The first iteration of a task, in closed form.
Offset(t) ==
    (t - 1) * (Repeat \div Concurrency)
    + (IF t - 1 < (Repeat % Concurrency) THEN t - 1 ELSE (Repeat % Concurrency))

\* A non-empty set of natural numbers has a least element.
LEMMA Least ==
    ASSUME NEW S \in SUBSET Nat, S # {}
    PROVE  \E x \in S : \A y \in S : x <= y
<1>1. \E x \in S : \A y \in S : ~(<<y, x>> \in OpToRel(<, Nat))
  BY NatLessThanWellFounded, WFMin, Zenon
<1>2. PICK x \in S : \A y \in S : ~(<<y, x>> \in OpToRel(<, Nat))
  BY <1>1, ZenonT(40)
<1>3. ASSUME NEW y \in S, y < x PROVE FALSE
  <2>1. <<y, x>> \in Nat \X Nat /\ <<y, x>>[1] = y /\ <<y, x>>[2] = x
    OBVIOUS
  <2>2. <<y, x>> \in OpToRel(<, Nat)
    BY <1>3, <2>1, Zenon DEF OpToRel
  <2>3. QED
    BY <1>2, <2>2, Zenon
<1>4. \A y \in S : x <= y
  BY <1>3, SMT
<1>5. QED
  BY <1>4, Zenon

\* Tasks and iterations are at least one.
LEMMA EdgeSizes == Concurrency \in Nat \ {0} /\ Repeat \in Nat \ {0}
  BY EdgeAssumption, SMT

\* The iterations divide among the tasks with a remainder.
LEMMA Division ==
    /\ Repeat \div Concurrency \in Nat /\ Repeat % Concurrency \in 0 .. Concurrency - 1
    /\ Repeat = Concurrency * (Repeat \div Concurrency) + (Repeat % Concurrency)
  BY EdgeSizes

\* Each task begins where the one before it ends.
LEMMA OffsetSteps ==
    /\ Offset(1) = 0 /\ Offset(Concurrency + 1) = Repeat
    /\ \A t \in 1 .. Concurrency + 1 : Offset(t) \in Nat
    /\ \A t \in EdgeTasks : distribute(t) \in Nat /\ Offset(t + 1) = Offset(t) + distribute(t)
<1> DEFINE q == Repeat \div Concurrency
           r == Repeat % Concurrency
<1>1. q \in Nat /\ r \in 0 .. Concurrency - 1 /\ Repeat = Concurrency * q + r /\ Concurrency \in Nat \ {0}
  BY Division, EdgeSizes, Zenon
<1>2. \A t : Offset(t) = (t - 1) * q + (IF t - 1 < r THEN t - 1 ELSE r)
  BY Zenon DEF Offset
<1>3. \A t : distribute(t) = q + (IF t - 1 < r THEN 1 ELSE 0)
  BY Zenon DEF distribute
<1> HIDE DEF q, r
<1>4. \A n \in Nat : n * q \in Nat /\ (n + 1) * q = n * q + q
  BY <1>1
<1>5. Offset(1) = 0
  BY <1>1, <1>2, <1>4
<1>6. Offset(Concurrency + 1) = Repeat
  BY <1>1, <1>2
<1>7. \A t \in 1 .. Concurrency + 1 : Offset(t) \in Nat
  BY <1>1, <1>2, <1>4
<1>8. ASSUME NEW t \in EdgeTasks PROVE distribute(t) \in Nat /\ Offset(t + 1) = Offset(t) + distribute(t)
  <2>1. t \in Nat /\ t - 1 \in Nat /\ t = (t - 1) + 1 /\ (t + 1) - 1 = t
    BY <1>1, <1>8 DEF EdgeTasks
  <2>2. t * q = (t - 1) * q + q /\ (t - 1) * q \in Nat
    BY <1>4, <2>1, Zenon
  <2>3. Offset(t + 1) = t * q + (IF t < r THEN t ELSE r)
    BY <1>2, <2>1, Zenon
  <2>4. QED
    BY <1>1, <1>2, <1>3, <2>1, <2>2, <2>3
<1>9. QED
  BY <1>5, <1>6, <1>7, <1>8, Zenon

\* The offsets only grow.
LEMMA OffsetGrows ==
    ASSUME NEW t \in EdgeTasks, NEW s \in 1 .. Concurrency + 1, t < s
    PROVE  Offset(t) + distribute(t) <= Offset(s)
<1> DEFINE S == {n \in Nat : t < n /\ n <= s /\ Offset(n) < Offset(t + 1)}
<1>1. t \in Nat /\ t + 1 \in Nat /\ s \in Nat /\ Concurrency \in Nat
  BY EdgeSizes DEF EdgeTasks
<1>2. ASSUME S # {} PROVE FALSE
  <2>1. PICK n \in S : \A m \in S : n <= m
    BY <1>2, Least, Zenon
  <2>2. n \in Nat /\ t < n /\ n <= s /\ Offset(n) < Offset(t + 1)
    BY <2>1, Zenon
  <2>3. n # t + 1
    BY <1>1, <2>2, OffsetSteps DEF EdgeTasks
  <2>4. n - 1 \in EdgeTasks /\ (n - 1) + 1 = n /\ t < n - 1 /\ n - 1 <= s /\ n - 1 < n /\ n - 1 \in Nat
    BY <1>1, <2>2, <2>3 DEF EdgeTasks
  <2>5. Offset(n) = Offset(n - 1) + distribute(n - 1) /\ distribute(n - 1) \in Nat /\ Offset(n - 1) \in Nat
    BY <1>1, <2>4, OffsetSteps DEF EdgeTasks
  <2>6. Offset(t + 1) \in Nat
    BY <1>1, OffsetSteps DEF EdgeTasks
  <2>7. n - 1 \in S
    BY <2>2, <2>4, <2>5, <2>6
  <2>8. QED
    BY <2>1, <2>4, <2>7
<1>3. Offset(t + 1) <= Offset(s)
  <2>1. s \notin S
    BY <1>2, Zenon
  <2>2. Offset(t + 1) \in Nat /\ Offset(s) \in Nat
    BY <1>1, OffsetSteps DEF EdgeTasks
  <2>3. QED
    BY <1>1, <2>1, <2>2
<1>4. QED
  BY <1>3, OffsetSteps, Zenon

\* first += iterations: the running sum is the offset.
LEMMA FirstIsOffset ==
    ASSUME NEW t \in EdgeTasks
    PROVE  First[t] = Offset(t)
<1> DEFINE f == [i \in EdgeTasks |-> Offset(i)]
<1>1. Concurrency \in Nat /\ t \in Nat /\ EdgeTasks \subseteq Nat
  BY EdgeSizes DEF EdgeTasks
<1>2. f = [i \in EdgeTasks |-> IF i = 1 THEN 0 ELSE f[i - 1] + distribute(i - 1)]
  <2>1. ASSUME NEW i \in EdgeTasks PROVE Offset(i) = IF i = 1 THEN 0 ELSE f[i - 1] + distribute(i - 1)
    <3>1. CASE i = 1
      BY <3>1, OffsetSteps, Zenon
    <3>2. CASE i # 1
      <4>1. i - 1 \in EdgeTasks /\ (i - 1) + 1 = i
        BY <1>1, <3>2 DEF EdgeTasks
      <4>2. QED
        BY <3>2, <4>1, OffsetSteps, Zenon
    <3>3. QED
      BY <3>1, <3>2, Zenon
  <2>2. QED
    BY <2>1, Zenon
<1> HIDE DEF f
<1>3. First = [i \in EdgeTasks |-> IF i = 1 THEN 0 ELSE First[i - 1] + distribute(i - 1)]
  BY <1>2, Zenon DEF First
<1> DEFINE S == {n \in EdgeTasks : First[n] # Offset(n)}
<1>4. ASSUME S # {} PROVE FALSE
  <2>1. PICK n \in S : \A m \in S : n <= m
    BY <1>1, <1>4, Least, Zenon
  <2>2. n \in EdgeTasks /\ n \in Nat /\ First[n] # Offset(n)
    BY <1>1, <2>1, Zenon
  <2>3. CASE n = 1
    BY <1>3, <2>2, <2>3, OffsetSteps, Zenon
  <2>4. CASE n # 1
    <3>1. n - 1 \in EdgeTasks /\ (n - 1) + 1 = n /\ n - 1 < n /\ n - 1 \in Nat
      BY <1>1, <2>2, <2>4 DEF EdgeTasks
    <3>2. n - 1 \notin S
      BY <2>1, <2>2, <3>1
    <3>3. First[n - 1] = Offset(n - 1)
      BY <3>1, <3>2, Zenon
    <3>4. First[n] = First[n - 1] + distribute(n - 1)
      BY <1>3, <2>2, <2>4, Zenon
    <3>5. QED
      BY <2>2, <3>1, <3>3, <3>4, OffsetSteps, Zenon
  <2>5. QED
    BY <2>3, <2>4, Zenon
<1>5. QED
  BY <1>4, Zenon

\* Every task's share lies among the iterations, no two tasks have one in
\* common, ...
LEMMA SharesAreDisjoint ==
    ASSUME NEW t \in EdgeTasks
    PROVE  /\ First[t] \in Nat /\ distribute(t) \in Nat /\ First[t] + distribute(t) <= Repeat
           /\ \A s \in EdgeTasks : s # t => Share(s) \intersect Share(t) = {}
<1>1. Concurrency \in Nat /\ t \in Nat /\ t \in 1 .. Concurrency + 1 /\ Concurrency + 1 \in 1 .. Concurrency + 1 /\ t < Concurrency + 1
  BY EdgeSizes DEF EdgeTasks
<1>2. First[t] = Offset(t) /\ Offset(t) \in Nat /\ distribute(t) \in Nat
  BY <1>1, FirstIsOffset, OffsetSteps, Zenon
<1>3. First[t] + distribute(t) <= Repeat
  BY <1>1, <1>2, OffsetGrows, OffsetSteps, Zenon
<1>4. ASSUME NEW s \in EdgeTasks, s # t PROVE Share(s) \intersect Share(t) = {}
  <2>1. s \in 1 .. Concurrency + 1 /\ s \in Nat /\ First[s] = Offset(s) /\ Offset(s) \in Nat /\ distribute(s) \in Nat
    BY <1>1, FirstIsOffset, OffsetSteps DEF EdgeTasks
  <2>2. First[s] + distribute(s) <= First[t] \/ First[t] + distribute(t) <= First[s]
    <3>1. CASE s < t
      BY <1>1, <1>2, <2>1, <3>1, OffsetGrows, Zenon
    <3>2. CASE t < s
      BY <1>1, <1>2, <2>1, <3>2, OffsetGrows, Zenon
    <3>3. QED
      BY <1>1, <1>4, <2>1, <3>1, <3>2
  <2>3. QED
    BY <1>2, <2>1, <2>2 DEF Share
<1>5. QED
  BY <1>2, <1>3, <1>4, Zenon

\* ... and every iteration is some task's.
LEMMA SharesCover ==
    ASSUME NEW i \in 0 .. Repeat - 1
    PROVE  \E t \in EdgeTasks : i \in Share(t)
<1> DEFINE S == {n \in EdgeTasks : i < Offset(n + 1)}
<1>1. Concurrency \in Nat \ {0} /\ Concurrency \in EdgeTasks /\ EdgeTasks \subseteq Nat /\ Repeat \in Nat /\ i \in Nat /\ i < Repeat
  BY EdgeSizes DEF EdgeTasks
<1>2. Concurrency \in S
  BY <1>1, OffsetSteps, Zenon
<1>3. PICK t \in S : \A m \in S : t <= m
  BY <1>1, <1>2, Least, Zenon
<1>4. t \in EdgeTasks /\ t \in Nat /\ i < Offset(t + 1) /\ Offset(t) \in Nat /\ distribute(t) \in Nat
      /\ First[t] = Offset(t) /\ Offset(t + 1) = Offset(t) + distribute(t)
  BY <1>1, <1>3, OffsetSteps, FirstIsOffset DEF EdgeTasks
<1>5. Offset(t) <= i
  <2>1. CASE t = 1
    BY <1>1, <2>1, OffsetSteps
  <2>2. CASE t # 1
    <3>1. t - 1 \in EdgeTasks /\ (t - 1) + 1 = t /\ t - 1 < t /\ t - 1 \in Nat
      BY <1>1, <1>4, <2>2 DEF EdgeTasks
    <3>2. t - 1 \notin S
      BY <1>3, <1>4, <3>1
    <3>3. QED
      BY <1>1, <1>4, <3>1, <3>2
  <2>3. QED
    BY <2>1, <2>2, Zenon
<1>6. QED
  BY <1>1, <1>4, <1>5 DEF Share

-----------------------------------------------------------------------------
(* The concurrent adapters: the verdict. *)

\* The adapter alone.
EdgeSpec == EdgeInit /\ [][EdgeNext]_edge

\* The state of a task.
TaskState == [at : {"spawned", "barrier", "next", "sent"}, left : Nat, iteration : Nat, op : Operations]

\* The types.
EdgeType ==
    /\ adapter_of \in [lang : {"rust", "python"}, case : {"redis", "db"}]
    /\ stage \in {"setup", "work", "collect", "emitted", "exited"}
    /\ task \in [EdgeTasks -> TaskState]
    /\ stored \in SUBSET Golden /\ errors \in Nat /\ disturbed \in BOOLEAN
    /\ completions \in [EdgeTokens -> Nat] /\ answered \in [EdgeTokens -> Nat]

\* A task works through its share, and through no other.
Placed ==
    \A t \in EdgeTasks :
        /\ First[t] <= task[t].iteration
        /\ task[t].iteration + task[t].left = First[t] + distribute(t)
        /\ task[t].left = 0 => task[t].op = 1
        /\ task[t].at = "sent" => task[t].left > 0
        /\ stage = "setup" => task[t].at = "spawned" /\ task[t].op = 1 /\ task[t].iteration = First[t]
        /\ stage \in {"collect", "emitted"} => task[t].left = 0

\* The operation o of the iteration i is over.
Over(t, i, o) == i < task[t].iteration \/ (i = task[t].iteration /\ o < task[t].op)

\* What is not over has left no trace, ...
Untouched ==
    \A t \in EdgeTasks : \A i \in Share(t), o \in Operations :
        /\ ~Over(t, i, o) => answered[<<i, o>>] = 0 /\ completions[<<i, o>>] = 0
        /\ Rust /\ i = task[t].iteration => completions[<<i, o>>] = 0

\* ... without an error everything that is over was answered and is counted once, ...
Counted ==
    errors = 0 =>
        \A t \in EdgeTasks : \A i \in Share(t), o \in Operations :
            Over(t, i, o) =>
                /\ answered[<<i, o>>] = 1
                /\ ~Rust \/ i < task[t].iteration => completions[<<i, o>>] = 1

\* ... and an error stands for an operation that was not answered as expected.
Missed ==
    errors > 0 =>
        \E t \in EdgeTasks : \E i \in Share(t), o \in Operations :
            Over(t, i, o) /\ answered[<<i, o>>] = 0

\* While nothing from outside disturbs the trial the rows of a task's earlier
\* operations are there.
Undisturbed ==
    ~disturbed =>
        /\ errors = 0 /\ stage # "exited"
        /\ stage = "work" => \A t \in EdgeTasks :
              /\ task[t].op > 1 => 1 \in stored
              /\ Database /\ task[t].op > 2 => 2 \in stored
              /\ First[t] < task[t].iteration => stored = Golden
        /\ stage = "collect" => stored = Golden
        /\ stage \in {"collect", "emitted"} => terminal = Golden

\* Each task is in its share, and what it has completed is what was answered.
EdgeInv == EdgeType /\ Placed /\ Untouched /\ Counted /\ Missed /\ Undisturbed

\* The adapter does not change.
LEMMA SameAdapter ==
    ASSUME adapter_of' = adapter_of
    PROVE  /\ Rust' = Rust /\ Database' = Database /\ Golden' = Golden
           /\ Golden \in SUBSET {1, 2} /\ 1 \in Golden /\ (Database <=> 2 \in Golden)
  BY DEF Rust, Database, Golden

\* What the invariant says of one task.
LEMMA TaskType ==
    ASSUME EdgeInv, NEW t \in EdgeTasks
    PROVE  /\ task[t] \in TaskState /\ task[t].at \in {"spawned", "barrier", "next", "sent"}
           /\ task[t].left \in Nat /\ task[t].iteration \in Nat /\ task[t].op \in 1 .. 3
           /\ First[t] \in Nat /\ distribute(t) \in Nat /\ First[t] + distribute(t) <= Repeat
           /\ Repeat \in Nat /\ Share(t) \subseteq 0 .. Repeat - 1
<1>1. /\ task[t] \in TaskState /\ task[t].at \in {"spawned", "barrier", "next", "sent"}
      /\ task[t].left \in Nat /\ task[t].iteration \in Nat /\ task[t].op \in 1 .. 3
  BY Zenon DEF EdgeInv, EdgeType, TaskState, Operations
<1>2. /\ First[t] \in Nat /\ distribute(t) \in Nat /\ First[t] + distribute(t) <= Repeat /\ Repeat \in Nat
  BY SharesAreDisjoint, EdgeSizes, Zenon
<1>3. Share(t) \subseteq 0 .. Repeat - 1
  BY <1>2 DEF Share
<1>4. QED
  BY <1>1, <1>2, <1>3, Zenon

\* The current iteration of a task that is not done is one of its share, and of
\* no other's.
LEMMA CurrentIsOwn ==
    ASSUME EdgeInv, NEW t \in EdgeTasks, task[t].left > 0
    PROVE  /\ task[t].iteration \in Share(t)
           /\ \A s \in EdgeTasks : s # t => task[t].iteration \notin Share(s)
<1>1. task[t].iteration \in Share(t)
  BY TaskType DEF EdgeInv, Placed, Share
<1>2. QED
  BY <1>1, SharesAreDisjoint, Zenon

-----------------------------------------------------------------------------
\* A task goes on to the next operation, or to the next iteration.
OthersStay(t) ==
    /\ task' \in [EdgeTasks -> TaskState] /\ \A s \in EdgeTasks : s # t => task'[s] = task[s]
    /\ task'[t].at = "next"

\* Task t goes on to its next operation.
StepsOn(t) ==
    /\ OthersStay(t) /\ task[t].op < 3
    /\ task'[t].left = task[t].left /\ task'[t].iteration = task[t].iteration
    /\ task'[t].op = task[t].op + 1

\* Task t goes on to its next iteration.
TurnsOver(t) ==
    /\ OthersStay(t)
    /\ task'[t].left = task[t].left - 1 /\ task'[t].iteration = task[t].iteration + 1
    /\ task'[t].op = 1

\* A task between iterations.
LEMMA NextIterationFields ==
    ASSUME EdgeInv, NEW t \in EdgeTasks, task[t].left > 0
    PROVE  /\ NextIteration(t) \in TaskState /\ NextIteration(t).at = "next"
           /\ NextIteration(t).left = task[t].left - 1
           /\ NextIteration(t).iteration = task[t].iteration + 1 /\ NextIteration(t).op = 1
<1>1. task[t].left - 1 \in Nat /\ task[t].iteration + 1 \in Nat
  BY TaskType
<1>2. QED
  BY <1>1 DEF NextIteration, TaskState, Operations

LEMMA IterationTurns ==
    ASSUME EdgeInv, NEW t \in EdgeTasks, task[t].left > 0, task' = [task EXCEPT ![t] = NextIteration(t)]
    PROVE  TurnsOver(t)
<1>1. PICK r \in TaskState : /\ r = NextIteration(t) /\ r.at = "next" /\ r.left = task[t].left - 1
                             /\ r.iteration = task[t].iteration + 1 /\ r.op = 1
  BY NextIterationFields, Zenon
<1>2. task \in [EdgeTasks -> TaskState] /\ task' = [task EXCEPT ![t] = r]
  BY <1>1, Zenon DEF EdgeInv, EdgeType
<1>3. QED
  BY <1>1, <1>2, Zenon DEF TurnsOver, OthersStay

LEMMA OperationMoves ==
    ASSUME EdgeInv, NEW t \in EdgeTasks, task[t].left > 0, OperationEnds(t)
    PROVE  IF task[t].op = 3 THEN TurnsOver(t) ELSE StepsOn(t)
<1>1. CASE task[t].op = 3
  BY <1>1, IterationTurns, Zenon DEF OperationEnds, EdgeInv, EdgeType
<1>2. CASE task[t].op # 3
  <2>1. task[t].op + 1 \in Operations /\ task[t].op < 3
    BY <1>2, TaskType DEF Operations
  <2>2. PICK r \in TaskState : /\ r = NextOperation(t) /\ r.at = "next" /\ r.op = task[t].op + 1
                               /\ r.left = task[t].left /\ r.iteration = task[t].iteration
    <3>1. task[t] \in TaskState
      BY TaskType, Zenon
    <3>2. /\ NextOperation(t).at = "next" /\ NextOperation(t).op = task[t].op + 1
          /\ NextOperation(t).left = task[t].left /\ NextOperation(t).iteration = task[t].iteration
      BY <3>1, Zenon DEF TaskState, NextOperation
    <3>3. NextOperation(t) \in TaskState
      BY <2>1, <3>1, Zenon DEF TaskState, NextOperation
    <3>4. QED
      BY <3>2, <3>3, Zenon
  <2>3. task' = [task EXCEPT ![t] = r]
    BY <1>2, <2>2, Zenon DEF OperationEnds
  <2>4. task \in [EdgeTasks -> TaskState]
    BY Zenon DEF EdgeInv, EdgeType
  <2>5. QED
    BY <2>1, <2>2, <2>3, <2>4 DEF StepsOn, OthersStay
<1>3. QED
  BY <1>1, <1>2, Zenon

\* A task that moves on stays in its share.
LEMMA PlacedMoves ==
    ASSUME EdgeInv, NEW t \in EdgeTasks, task[t].left > 0, task[t].at \in {"next", "sent"},
           stage' = stage, StepsOn(t) \/ TurnsOver(t)
    PROVE  Placed'
<1> SUFFICES ASSUME NEW s \in EdgeTasks
             PROVE  /\ First[s] <= task'[s].iteration
                    /\ task'[s].iteration + task'[s].left = First[s] + distribute(s)
                    /\ task'[s].left = 0 => task'[s].op = 1
                    /\ task'[s].at = "sent" => task'[s].left > 0
                    /\ stage' = "setup" => task'[s].at = "spawned" /\ task'[s].op = 1 /\ task'[s].iteration = First[s]
                    /\ stage' \in {"collect", "emitted"} => task'[s].left = 0
  BY Zenon DEF Placed
<1>1. CASE s # t
  BY <1>1, SMTT(30) DEF StepsOn, TurnsOver, OthersStay, EdgeInv, Placed
<1>2. CASE s = t
  <2>1. stage \notin {"setup", "collect", "emitted"}
    BY DEF EdgeInv, Placed
  <2>2. QED
    BY <1>2, <2>1, TaskType DEF StepsOn, TurnsOver, OthersStay, EdgeInv, Placed
<1>3. QED
  BY <1>1, <1>2, Zenon

\* What becomes over: the operation, or the rest of the iteration.
LEMMA OverMoves ==
    ASSUME EdgeInv, NEW t \in EdgeTasks, task[t].left > 0, StepsOn(t) \/ TurnsOver(t),
           NEW s \in EdgeTasks, NEW i \in Share(s), NEW o \in Operations
    PROVE  /\ Over(s, i, o) => Over(s, i, o)'
           /\ s = t /\ i = task[t].iteration /\ o = task[t].op => Over(s, i, o)' /\ ~Over(s, i, o)
           /\ Over(s, i, o)' /\ ~Over(s, i, o) =>
                 /\ s = t /\ i = task[t].iteration
                 /\ StepsOn(t) => o = task[t].op
           /\ i = task'[s].iteration /\ TurnsOver(t) /\ s = t => ~Over(s, i, o)
<1>1. /\ i \in Nat /\ o \in Nat /\ task[s].iteration \in Nat /\ task[s].op \in Nat
      /\ task[t].iteration \in Nat /\ task[t].op \in Nat
  BY TaskType, SMTT(30) DEF Operations
<1>2. CASE s # t
  BY <1>1, <1>2, ZenonT(40) DEF StepsOn, TurnsOver, OthersStay, Over
<1>3. CASE s = t
  BY <1>1, <1>3 DEF StepsOn, TurnsOver, Over, Operations
<1>4. QED
  BY <1>2, <1>3, Zenon

-----------------------------------------------------------------------------
\* An iteration is given up: its operation is over and was not answered.
LEMMA FailureTallies ==
    ASSUME EdgeInv, NEW t \in EdgeTasks, task[t].left > 0, TurnsOver(t), errors' = errors + 1,
           UNCHANGED <<adapter_of, completions, answered>>
    PROVE  Untouched' /\ Counted' /\ Missed'
<1>1. errors' \in Nat /\ errors' > 0 /\ Rust' = Rust
  BY SameAdapter DEF EdgeInv, EdgeType
<1>2. Untouched'
  <2> SUFFICES ASSUME NEW s \in EdgeTasks, NEW i \in Share(s), NEW o \in Operations
               PROVE  /\ ~Over(s, i, o)' => answered[<<i, o>>] = 0 /\ completions[<<i, o>>] = 0
                      /\ Rust /\ i = task'[s].iteration => completions[<<i, o>>] = 0
    BY <1>1, Zenon DEF Untouched
  <2>1. ~Over(s, i, o)' => ~Over(s, i, o)
    BY OverMoves, Zenon
  <2>2. ASSUME Rust, i = task'[s].iteration PROVE completions[<<i, o>>] = 0
    <3>1. CASE s = t
      <4>1. ~Over(s, i, o)
        BY <2>2, <3>1, OverMoves
      <4>2. QED
        BY <4>1, Zenon DEF EdgeInv, Untouched
    <3>2. CASE s # t
      BY <2>2, <3>2, Zenon DEF TurnsOver, OthersStay, EdgeInv, Untouched
    <3>3. QED
      BY <3>1, <3>2, Zenon
  <2>3. QED
    BY <2>1, <2>2, Zenon DEF EdgeInv, Untouched
<1>3. Missed'
  <2>1. PICK i \in Share(t), o \in Operations : i = task[t].iteration /\ o = task[t].op
    BY CurrentIsOwn, TaskType, Zenon DEF Operations
  <2>2. Over(t, i, o)' /\ ~Over(t, i, o)
    BY <2>1, OverMoves
  <2>3. answered'[<<i, o>>] = 0
    BY <2>2, Zenon DEF EdgeInv, Untouched
  <2>4. QED
    BY <2>2, <2>3, Zenon DEF Missed
<1>4. QED
  BY <1>1, <1>2, <1>3 DEF Counted

\* The token of the operation, and the tokens it adds to the completions.
Hit(t, i, o) == i = task[t].iteration /\ o = task[t].op
\* The tokens that task t completes.
Counts(t, i, o) == i = task[t].iteration /\ (IF Rust THEN task[t].op = 3 ELSE o = task[t].op)

\* One completion of each, and none of another.
LEMMA CompletedTokens ==
    ASSUME EdgeInv, NEW t \in EdgeTasks, task[t].left > 0, completions' = Completed(t)
    PROVE  /\ completions' \in [EdgeTokens -> Nat]
           /\ \A i \in 0 .. Repeat - 1, o \in Operations :
                 /\ Counts(t, i, o) => completions'[<<i, o>>] = completions[<<i, o>>] + 1
                 /\ ~Counts(t, i, o) => completions'[<<i, o>>] = completions[<<i, o>>]
<1> DEFINE ended == IF ~Rust THEN {Token(t)}
                    ELSE IF task[t].op = 3 THEN {task[t].iteration} \X Operations ELSE {}
<1>1. completions' = [k \in EdgeTokens |-> completions[k] + IF k \in ended THEN 1 ELSE 0]
  BY Zenon DEF Completed
<1>2. \A i \in 0 .. Repeat - 1, o \in Operations :
        <<i, o>> \in ended <=> Counts(t, i, o)
  BY Zenon DEF Token, Counts
<1> HIDE DEF ended
<1>3. \A i \in 0 .. Repeat - 1, o \in Operations : <<i, o>> \in EdgeTokens
  BY Zenon DEF EdgeTokens
<1>4. completions' \in [EdgeTokens -> Nat]
  BY <1>1 DEF EdgeInv, EdgeType
<1>5. \A k \in EdgeTokens : completions[k] \in Nat
  BY Zenon DEF EdgeInv, EdgeType
<1>6. \A i \in 0 .. Repeat - 1, o \in Operations :
        /\ Counts(t, i, o) => completions'[<<i, o>>] = completions[<<i, o>>] + 1
        /\ ~Counts(t, i, o) => completions'[<<i, o>>] = completions[<<i, o>>]
  <2> SUFFICES ASSUME NEW i \in 0 .. Repeat - 1, NEW o \in Operations
               PROVE  /\ Counts(t, i, o) => completions'[<<i, o>>] = completions[<<i, o>>] + 1
                      /\ ~Counts(t, i, o) => completions'[<<i, o>>] = completions[<<i, o>>]
    BY Zenon
  <2>1. <<i, o>> \in EdgeTokens /\ (<<i, o>> \in ended <=> Counts(t, i, o)) /\ completions[<<i, o>>] \in Nat
    BY <1>2, <1>3, <1>5, Zenon
  <2>2. completions'[<<i, o>>] = completions[<<i, o>>] + IF <<i, o>> \in ended THEN 1 ELSE 0
    BY <1>1, <2>1, Zenon
  <2>3. QED
    BY <2>1, <2>2
<1>7. QED
  BY <1>4, <1>6, Zenon

\* One answer of one token.
LEMMA AnsweredToken ==
    ASSUME EdgeInv, NEW t \in EdgeTasks, task[t].left > 0,
           answered' = [answered EXCEPT ![Token(t)] = @ + 1]
    PROVE  /\ answered' \in [EdgeTokens -> Nat]
           /\ \A i \in 0 .. Repeat - 1, o \in Operations :
                 /\ Hit(t, i, o) => answered'[<<i, o>>] = answered[<<i, o>>] + 1
                 /\ ~Hit(t, i, o) => answered'[<<i, o>>] = answered[<<i, o>>]
<1>1. Token(t) \in EdgeTokens
  BY CurrentIsOwn, TaskType, Zenon DEF Token, EdgeTokens, Operations
<1>2. \A i \in 0 .. Repeat - 1, o \in Operations :
        <<i, o>> \in EdgeTokens /\ (<<i, o>> = Token(t) <=> Hit(t, i, o))
  BY Zenon DEF Token, EdgeTokens, Hit
<1>3. answered \in [EdgeTokens -> Nat]
  BY Zenon DEF EdgeInv, EdgeType
<1>4. QED
  BY <1>1, <1>2, <1>3

\* An operation is over, with the answer or with another one.
LEMMA OperationTallies ==
    ASSUME EdgeInv, NEW t \in EdgeTasks, task[t].left > 0, OperationEnds(t),
           \/ answered' = [answered EXCEPT ![Token(t)] = @ + 1] /\ errors' = errors
           \/ ~Rust /\ answered' = answered /\ errors' = errors + 1
    PROVE  Untouched' /\ Counted' /\ Missed'
<1> DEFINE it == task[t].iteration
           op == task[t].op
<1>1. /\ Rust' = Rust /\ errors \in Nat /\ it \in Share(t) /\ op \in Operations /\ it \in Nat /\ op \in 1 .. 3
      /\ \A s \in EdgeTasks : s # t => it \notin Share(s)
  BY SameAdapter, CurrentIsOwn, TaskType, Zenon DEF EdgeInv, EdgeType, OperationEnds, Operations
<1>2. (op = 3 => TurnsOver(t)) /\ (op # 3 => StepsOn(t))
  BY OperationMoves, Zenon
<1>3. \A s \in EdgeTasks : \A i \in Share(s) : i \in 0 .. Repeat - 1
  BY TaskType
<1>a. \A s \in EdgeTasks : \A i \in Share(s), o \in Operations :
        /\ Counts(t, i, o) => completions'[<<i, o>>] = completions[<<i, o>>] + 1
        /\ ~Counts(t, i, o) => completions'[<<i, o>>] = completions[<<i, o>>]
  BY <1>3, CompletedTokens, Zenon DEF OperationEnds
<1>b. \A s \in EdgeTasks : \A i \in Share(s), o \in Operations :
        /\ Hit(t, i, o) /\ errors' = errors => answered'[<<i, o>>] = answered[<<i, o>>] + 1
        /\ ~Hit(t, i, o) \/ errors' # errors => answered'[<<i, o>>] = answered[<<i, o>>]
  <2>1. CASE answered' = [answered EXCEPT ![Token(t)] = @ + 1] /\ errors' = errors
    <3>1. answered' = [answered EXCEPT ![Token(t)] = @ + 1]
      BY <2>1
    <3>2. \A i \in 0 .. Repeat - 1, o \in Operations :
            /\ Hit(t, i, o) => answered'[<<i, o>>] = answered[<<i, o>>] + 1
            /\ ~Hit(t, i, o) => answered'[<<i, o>>] = answered[<<i, o>>]
      BY <3>1, AnsweredToken, Zenon
    <3>3. QED
      BY <1>3, <2>1, <3>2, Zenon
  <2>2. CASE answered' = answered /\ errors' = errors + 1
    <3>1. errors' # errors
      BY <1>1, <2>2
    <3>2. QED
      BY <2>2, <3>1, Zenon
  <2>3. QED
    BY <2>1, <2>2, Zenon
<1>4. \A s \in EdgeTasks : \A i \in Share(s), o \in Operations :
        (Hit(t, i, o) \/ Counts(t, i, o)) => s = t
  BY <1>1, Zenon DEF Hit, Counts
<1> HIDE DEF it, op
<1>5. ASSUME NEW s \in EdgeTasks, NEW i \in Share(s), NEW o \in Operations
      PROVE  /\ Over(s, i, o) => Over(s, i, o)' /\ ~Hit(t, i, o)
             /\ s = t /\ Hit(t, i, o) => Over(s, i, o)' /\ ~Over(s, i, o)
             /\ s = t /\ Counts(t, i, o) => Over(s, i, o)' /\ (Rust => task'[s].iteration = it + 1)
             /\ Over(s, i, o)' /\ ~Over(s, i, o) => s = t /\ Hit(t, i, o)
             /\ i = task'[s].iteration => i = task[s].iteration \/ ~Over(s, i, o)
             /\ Rust /\ i < task'[s].iteration /\ ~(i < task[s].iteration) => s = t /\ Counts(t, i, o)
  <2>1. /\ i \in Nat /\ o \in 1 .. 3 /\ task[s].iteration \in Nat /\ task[s].op \in 1 .. 3
        /\ task[t].iteration = it /\ task[t].op = op
    BY TaskType DEF Operations, it, op
  <2>2. CASE s # t
    <3>1. task'[s] = task[s]
      BY <1>2, <2>2, Zenon DEF TurnsOver, StepsOn, OthersStay
    <3>2. ~Hit(t, i, o) /\ ~Counts(t, i, o)
      BY <1>4, <2>2, ZenonT(40)
    <3>3. QED
      BY <2>2, <3>1, <3>2, Zenon DEF Over
  <2>3. CASE s = t /\ op = 3
    BY <1>1, <1>2, <2>1, <2>3, SMTT(30) DEF TurnsOver, Over, Hit, Counts
  <2>4. CASE s = t /\ op # 3
    BY <1>1, <1>2, <2>1, <2>4 DEF StepsOn, Over, Hit, Counts
  <2>5. QED
    BY <2>2, <2>3, <2>4, Zenon
<1>6. Untouched'
  <2> SUFFICES ASSUME NEW s \in EdgeTasks, NEW i \in Share(s), NEW o \in Operations
               PROVE  /\ ~Over(s, i, o)' => answered'[<<i, o>>] = 0 /\ completions'[<<i, o>>] = 0
                      /\ Rust /\ i = task'[s].iteration => completions'[<<i, o>>] = 0
    BY <1>1, Zenon DEF Untouched
  <2>1. ASSUME ~Over(s, i, o)' PROVE ~Hit(t, i, o) /\ ~Counts(t, i, o) /\ ~Over(s, i, o)
    BY <1>4, <1>5, <2>1, Zenon
  <2>2. ASSUME Rust, i = task'[s].iteration PROVE ~Counts(t, i, o)
    <3>1. ASSUME Counts(t, i, o) PROVE i = it
      BY <3>1, Zenon DEF Counts, it
    <3>2. QED
      <4>1. Counts(t, i, o) => task'[s].iteration = it + 1
        BY <1>4, <1>5, <2>2, Zenon
      <4>2. QED
        BY <1>1, <2>2, <3>1, <4>1
  <2>3. ASSUME ~Over(s, i, o)' PROVE answered'[<<i, o>>] = 0 /\ completions'[<<i, o>>] = 0
    <3>1. answered[<<i, o>>] = 0 /\ completions[<<i, o>>] = 0
      BY <2>1, <2>3, Zenon DEF EdgeInv, Untouched
    <3>2. QED
      BY <1>a, <1>b, <2>1, <2>3, <3>1, Zenon
  <2>4. ASSUME Rust, i = task'[s].iteration PROVE completions'[<<i, o>>] = 0
    <3>1. completions[<<i, o>>] = 0
      BY <1>5, <2>4, ZenonT(40) DEF EdgeInv, Untouched
    <3>2. QED
      BY <1>a, <2>2, <2>4, <3>1, Zenon
  <2>5. QED
    BY <2>3, <2>4, Zenon
<1>7. Counted'
  <2> SUFFICES ASSUME errors' = 0, NEW s \in EdgeTasks, NEW i \in Share(s), NEW o \in Operations, Over(s, i, o)'
               PROVE  /\ answered'[<<i, o>>] = 1
                      /\ ~Rust \/ i < task'[s].iteration => completions'[<<i, o>>] = 1
    BY <1>1, Zenon DEF Counted
  <2>1. errors = 0 /\ errors' = errors
    BY <1>1
  <2>2. answered'[<<i, o>>] = 1
    <3>1. CASE Over(s, i, o)
      <4>1. answered[<<i, o>>] = 1 /\ ~Hit(t, i, o)
        BY <1>5, <2>1, <3>1, Zenon DEF EdgeInv, Counted
      <4>2. QED
        BY <1>b, <4>1, Zenon
    <3>2. CASE ~Over(s, i, o)
      <4>1. answered[<<i, o>>] = 0 /\ Hit(t, i, o)
        BY <1>5, <3>2, ZenonT(40) DEF EdgeInv, Untouched
      <4>2. answered'[<<i, o>>] = 0 + 1
        BY <1>b, <2>1, <4>1, Zenon
      <4>3. QED
        BY <4>2
    <3>3. QED
      BY <3>1, <3>2, Zenon
  <2>3. ASSUME ~Rust PROVE completions'[<<i, o>>] = 1
    <3>1. Counts(t, i, o) <=> Hit(t, i, o)
      BY <2>3, Zenon DEF Hit, Counts
    <3>2. CASE Over(s, i, o)
      <4>1. completions[<<i, o>>] = 1 /\ ~Counts(t, i, o)
        BY <1>5, <2>1, <2>3, <3>1, <3>2, Zenon DEF EdgeInv, Counted
      <4>2. QED
        BY <1>a, <4>1, Zenon
    <3>3. CASE ~Over(s, i, o)
      <4>1. completions[<<i, o>>] = 0 /\ Counts(t, i, o)
        BY <1>5, <3>1, <3>3, ZenonT(40) DEF EdgeInv, Untouched
      <4>2. completions'[<<i, o>>] = 0 + 1
        BY <1>a, <4>1, Zenon
      <4>3. QED
        BY <4>2
    <3>4. QED
      BY <3>2, <3>3, Zenon
  <2>4. ASSUME Rust, i < task'[s].iteration PROVE completions'[<<i, o>>] = 1
    <3>1. CASE i < task[s].iteration
      <4>1. Over(s, i, o)
        BY <3>1, Zenon DEF Over
      <4>2. completions[<<i, o>>] = 1
        BY <2>1, <3>1, <4>1, Zenon DEF EdgeInv, Counted
      <4>3. ~Counts(t, i, o)
        <5>1. ASSUME Counts(t, i, o) PROVE FALSE
          <6>1. s = t /\ i = it /\ it = task[t].iteration
            BY <1>4, <5>1, Zenon DEF Counts, it
          <6>2. QED
            BY <1>1, <3>1, <6>1
        <5>2. QED
          BY <5>1, Zenon
      <4>4. QED
        BY <1>a, <4>2, <4>3, Zenon
    <3>2. CASE ~(i < task[s].iteration)
      <4>1. s = t /\ Counts(t, i, o)
        BY <1>5, <2>4, <3>2, Zenon
      <4>2. i = task[s].iteration
        BY <4>1, Zenon DEF Counts, it
      <4>3. completions[<<i, o>>] = 0
        BY <2>4, <4>2, Zenon DEF EdgeInv, Untouched
      <4>4. completions'[<<i, o>>] = 0 + 1
        BY <1>a, <4>1, <4>3, Zenon
      <4>5. QED
        BY <4>4
    <3>3. QED
      BY <3>1, <3>2, Zenon
  <2>5. QED
    BY <2>2, <2>3, <2>4, Zenon
<1>8. Missed'
  <2> SUFFICES ASSUME errors' > 0 PROVE Missed'
    BY Zenon DEF Missed
  <2>1. CASE errors' = errors
    <3>1. PICK s \in EdgeTasks : \E i \in Share(s), o \in Operations : Over(s, i, o) /\ answered[<<i, o>>] = 0
      BY <2>1, Zenon DEF EdgeInv, Missed
    <3>2. PICK i \in Share(s), o \in Operations : Over(s, i, o) /\ answered[<<i, o>>] = 0
      BY <3>1, Zenon
    <3>3. Over(s, i, o)' /\ answered'[<<i, o>>] = 0
      BY <1>5, <1>b, <3>2, Zenon
    <3>4. QED
      BY <3>3, Zenon DEF Missed
  <2>2. CASE errors' # errors
    <3>1. PICK i \in Share(t), o \in Operations : Hit(t, i, o)
      BY <1>1, Zenon DEF Hit, it, op
    <3>2. Over(t, i, o)' /\ ~Over(t, i, o)
      BY <1>5, <3>1, Zenon
    <3>3. answered[<<i, o>>] = 0
      BY <3>2, Zenon DEF EdgeInv, Untouched
    <3>4. answered'[<<i, o>>] = 0
      BY <1>b, <2>2, <3>3, Zenon
    <3>5. QED
      BY <3>2, <3>4, Zenon DEF Missed
  <2>3. QED
    BY <2>1, <2>2, Zenon
<1>9. QED
  BY <1>6, <1>7, <1>8

-----------------------------------------------------------------------------
\* What changes no iteration, no operation and no tally keeps the tallies.
LEMMA TalliesStay ==
    ASSUME EdgeInv, adapter_of' = adapter_of, completions' = completions, errors' = errors,
           answered' = answered,
           \A s \in EdgeTasks : task'[s].iteration = task[s].iteration /\ task'[s].op = task[s].op
    PROVE  Untouched' /\ Counted' /\ Missed'
<1>1. Rust' = Rust
  BY SameAdapter, Zenon
<1>2. \A s \in EdgeTasks : \A i \in Share(s), o \in Operations : Over(s, i, o)' = Over(s, i, o)
  BY Zenon DEF Over
<1>3. Untouched'
  BY <1>1, <1>2, Zenon DEF EdgeInv, Untouched
<1>4. Counted'
  BY <1>1, <1>2 DEF EdgeInv, Counted
<1>5. Missed'
  BY <1>2, Zenon DEF EdgeInv, Missed
<1>6. QED
  BY <1>3, <1>4, <1>5, Zenon

\* A task that has sent a command is at work; while nothing disturbs the trial the
\* adapter is in its middle stage.
LEMMA SentIsWorking ==
    ASSUME EdgeInv, NEW t \in EdgeTasks, task[t].at = "sent"
    PROVE  /\ task[t].left > 0 /\ stage \notin {"setup", "collect", "emitted"}
           /\ ~disturbed => stage = "work"
<1>1. task[t].left > 0 /\ stage \notin {"setup", "collect", "emitted"}
  BY TaskType DEF EdgeInv, Placed
<1>2. QED
  BY <1>1, Zenon DEF EdgeInv, EdgeType, Undisturbed

\* The effect of a command stays within the golden state.
LEMMA EffectIsGolden ==
    ASSUME EdgeInv, NEW t \in EdgeTasks
    PROVE  /\ stored \in SUBSET Golden /\ Effect(t) \in SUBSET Golden /\ stored \subseteq Effect(t)
           /\ Writes(t) => task[t].op \in Effect(t)
           /\ Golden \in SUBSET {1, 2} /\ 1 \in Golden /\ (Database <=> 2 \in Golden)
<1>1. stored \in SUBSET Golden
  BY Zenon DEF EdgeInv, EdgeType
<1>2. Golden \in SUBSET {1, 2} /\ 1 \in Golden /\ (Database <=> 2 \in Golden)
  BY DEF Golden
<1>3. Writes(t) => task[t].op \in Golden
  BY <1>2, Zenon DEF Writes
<1>4. QED
  BY <1>1, <1>2, <1>3, Zenon DEF Effect

\* Only what comes from outside makes a reply differ from the expected one.
LEMMA MismatchIsDisturbance ==
    ASSUME EdgeInv, NEW t \in EdgeTasks, task[t].at = "sent", ~AsExpected(t)
    PROVE  disturbed = TRUE
<1> SUFFICES ASSUME ~disturbed PROVE FALSE
  BY Zenon DEF EdgeInv, EdgeType
<1>1. /\ task[t].op > 1 => 1 \in stored
      /\ Database /\ task[t].op > 2 => 2 \in stored
  BY SentIsWorking, Zenon DEF EdgeInv, Undisturbed
<1>2. task[t].op \in 1 .. 3 /\ stored \in SUBSET Golden
  BY TaskType, EffectIsGolden, Zenon
<1>3. task[t].op # 1 /\ (Database => task[t].op # 2)
  BY Zenon DEF AsExpected, Writes
<1>4. CASE Database
  <2>1. stored = {1, 2}
    <3>1. 1 \in stored /\ 2 \in stored
      BY <1>1, <1>2, <1>3, <1>4
    <3>2. stored \in SUBSET {1, 2}
      BY <1>2, <1>4, Zenon DEF Golden
    <3>3. QED
      BY <3>1, <3>2, ZenonT(40)
  <2>2. QED
    BY <1>4, <2>1, ZenonT(40) DEF AsExpected
<1>5. CASE ~Database
  <2>1. stored = {1}
    <3>1. 1 \in stored
      BY <1>1, <1>2, <1>3
    <3>2. stored \in SUBSET {1}
      BY <1>2, <1>5, Zenon DEF Golden
    <3>3. QED
      BY <3>1, <3>2, Zenon
  <2>2. QED
    BY <1>5, <2>1, Zenon DEF AsExpected
<1>6. QED
  BY <1>4, <1>5, Zenon

-----------------------------------------------------------------------------
\* The actions one by one keep the invariant.
LEMMA AnswersStep ==
    ASSUME EdgeInv, NEW t \in EdgeTasks, Answers(t)
    PROVE  EdgeInv'
<1>1. /\ task[t].at = "sent" /\ AsExpected(t) /\ stored' = Effect(t) /\ errors' = errors
      /\ disturbed' = disturbed /\ OperationEnds(t) /\ stage' = stage /\ adapter_of' = adapter_of
      /\ terminal' = terminal /\ completions' = Completed(t)
      /\ answered' = [answered EXCEPT ![Token(t)] = @ + 1]
  BY DEF Answers, OperationEnds
<1>2. task[t].left > 0 /\ stage \notin {"setup", "collect", "emitted"}
  BY <1>1, SentIsWorking, Zenon
<1>3. /\ task[t].op = 3 => TurnsOver(t)
      /\ task[t].op # 3 => StepsOn(t)
  BY <1>1, <1>2, OperationMoves, ZenonT(40)
<1>4. Golden' = Golden /\ Database' = Database
  BY <1>1, SameAdapter, ZenonT(40)
<1>5. EdgeType'
  <2>1. task' \in [EdgeTasks -> TaskState]
    BY <1>3, Zenon DEF TurnsOver, StepsOn, OthersStay
  <2>2. completions' \in [EdgeTokens -> Nat]
    BY <1>1, <1>2, CompletedTokens, Zenon
  <2>3. answered' \in [EdgeTokens -> Nat]
    BY <1>1, <1>2, AnsweredToken, Zenon
  <2>4. stored' \in SUBSET Golden'
    BY <1>1, <1>4, EffectIsGolden, Zenon
  <2>5. QED
    BY <1>1, <2>1, <2>2, <2>3, <2>4, Zenon DEF EdgeInv, EdgeType
<1>6. Placed'
  BY <1>1, <1>2, <1>3, PlacedMoves, Zenon
<1>7. Untouched' /\ Counted' /\ Missed'
  BY <1>1, <1>2, OperationTallies, Zenon
<1>8. Undisturbed'
  <2> SUFFICES ASSUME ~disturbed, stage = "work", NEW s \in EdgeTasks
               PROVE  /\ task'[s].op > 1 => 1 \in stored'
                      /\ Database /\ task'[s].op > 2 => 2 \in stored'
                      /\ First[s] < task'[s].iteration => stored' = Golden
    BY <1>1, <1>2, <1>4, Zenon DEF EdgeInv, Undisturbed
  <2>1. /\ \A u \in EdgeTasks : /\ task[u].op > 1 => 1 \in stored
                                /\ Database /\ task[u].op > 2 => 2 \in stored
                                /\ First[u] < task[u].iteration => stored = Golden
        /\ task[t].op \in 1 .. 3
    BY TaskType, Zenon DEF EdgeInv, Undisturbed
  <2>2. /\ stored \subseteq stored' /\ stored' \in SUBSET Golden
        /\ Writes(t) => task[t].op \in stored'
        /\ Golden \in SUBSET {1, 2} /\ 1 \in Golden /\ (Database <=> 2 \in Golden)
    BY <1>1, EffectIsGolden
  <2>3. CASE s # t
    <3>1. task'[s] = task[s]
      BY <1>3, <2>3, Zenon DEF TurnsOver, StepsOn, OthersStay
    <3>2. stored = Golden => stored' = Golden
      BY <2>2, Zenon
    <3>3. QED
      BY <2>1, <2>2, <3>1, <3>2, Zenon
  <2>4. CASE s = t /\ task[t].op = 3
    <3>1. ~Writes(t)
      BY <2>4 DEF Writes
    <3>2. 1 \in stored /\ (Database => 2 \in stored)
      BY <2>1, <2>4
    <3>3. stored' = Golden
      BY <2>2, <3>2, Zenon
    <3>4. task'[s].op = 1
      BY <1>3, <2>4, Zenon DEF TurnsOver
    <3>5. QED
      BY <3>3, <3>4
  <2>5. CASE s = t /\ task[t].op # 3
    <3>1. task'[s].op = task[t].op + 1 /\ task'[s].iteration = task[s].iteration
      BY <1>3, <2>5, Zenon DEF StepsOn
    <3>2. CASE task[t].op = 1
      <4>1. 1 \in stored'
        BY <2>2, <3>2, Zenon DEF Writes
      <4>2. task'[s].op = 2 /\ (First[s] < task'[s].iteration => stored = Golden)
        BY <2>1, <3>1, <3>2
      <4>3. stored = Golden => stored' = Golden
        BY <2>2, Zenon
      <4>4. QED
        BY <4>1, <4>2, <4>3
    <3>3. CASE task[t].op = 2
      <4>1. 1 \in stored' /\ (Database => 2 \in stored')
        BY <2>1, <2>2, <3>3 DEF Writes
      <4>2. QED
        BY <2>1, <2>2, <2>5, <3>1, <3>3, <4>1, ZenonT(40)
    <3>4. QED
      BY <2>1, <2>5, <3>2, <3>3
  <2>6. QED
    BY <2>3, <2>4, <2>5, Zenon
<1>9. QED
  BY <1>5, <1>6, <1>7, <1>8, Zenon DEF EdgeInv

\* An iteration fails in a trial that is disturbed.
LEMMA FailureStep ==
    ASSUME EdgeInv, NEW t \in EdgeTasks, task[t].left > 0, task[t].at \in {"next", "sent"},
           IterationFails(t), stored' \in SUBSET Golden, disturbed' = TRUE
    PROVE  EdgeInv'
<1>1. /\ errors' = errors + 1 /\ stage' = stage /\ adapter_of' = adapter_of /\ completions' = completions
      /\ answered' = answered /\ task' = [task EXCEPT ![t] = NextIteration(t)]
  BY Zenon DEF IterationFails
<1>2. TurnsOver(t)
  BY <1>1, IterationTurns, Zenon
<1>3. EdgeType'
  <2>1. task' \in [EdgeTasks -> TaskState] /\ Golden' = Golden
    BY <1>1, <1>2, SameAdapter, Zenon DEF TurnsOver, OthersStay
  <2>2. QED
    BY <1>1, <2>1 DEF EdgeInv, EdgeType
<1>4. Placed'
  BY <1>1, <1>2, PlacedMoves, Zenon
<1>5. Untouched' /\ Counted' /\ Missed'
  BY <1>1, <1>2, FailureTallies, Zenon
<1>6. Undisturbed'
  BY Zenon DEF Undisturbed
<1>7. QED
  BY <1>3, <1>4, <1>5, <1>6, Zenon DEF EdgeInv

LEMMA MismatchesStep ==
    ASSUME EdgeInv, NEW t \in EdgeTasks, Mismatches(t)
    PROVE  EdgeInv'
<1>1. task[t].at = "sent" /\ ~AsExpected(t) /\ stored' = stored /\ disturbed' = disturbed
  BY Zenon DEF Mismatches
<1>2. task[t].left > 0 /\ disturbed' = TRUE
  BY <1>1, SentIsWorking, MismatchIsDisturbance, Zenon
<1>3. CASE Rust /\ IterationFails(t)
  BY <1>1, <1>2, <1>3, FailureStep, EffectIsGolden, Zenon
<1>4. CASE ~Rust /\ errors' = errors + 1 /\ OperationEnds(t) /\ answered' = answered
  <2>1. completions' = Completed(t) /\ stage' = stage /\ adapter_of' = adapter_of
    BY <1>4, Zenon DEF OperationEnds
  <2>2. TurnsOver(t) \/ StepsOn(t)
    BY <1>2, <1>4, OperationMoves, ZenonT(40)
  <2>3. EdgeType'
    <3>1. task' \in [EdgeTasks -> TaskState]
      BY <2>2, Zenon DEF TurnsOver, StepsOn, OthersStay
    <3>2. completions' \in [EdgeTokens -> Nat]
      BY <1>2, <2>1, CompletedTokens, Zenon
    <3>3. Golden' = Golden
      BY <2>1, SameAdapter, Zenon
    <3>4. QED
      BY <1>1, <1>4, <2>1, <3>1, <3>2, <3>3 DEF EdgeInv, EdgeType
  <2>4. Placed'
    BY <1>1, <1>2, <2>1, <2>2, PlacedMoves, Zenon
  <2>5. Untouched' /\ Counted' /\ Missed'
    BY <1>2, <1>4, OperationTallies, Zenon
  <2>6. Undisturbed'
    BY <1>2, Zenon DEF Undisturbed
  <2>7. QED
    BY <2>3, <2>4, <2>5, <2>6, Zenon DEF EdgeInv
<1>5. QED
  BY <1>3, <1>4, Zenon DEF Mismatches, MismatchCounts

LEMMA BreaksStep ==
    ASSUME EdgeInv, NEW t \in EdgeTasks, CommandBreaks(t) \/ AcquireTimesOut(t)
    PROVE  EdgeInv'
<1>1. /\ IterationFails(t) /\ disturbed' = TRUE /\ stored' \in {stored, Effect(t)}
      /\ task[t].at \in {"next", "sent"} /\ task[t].left > 0
  BY SentIsWorking, Zenon DEF CommandBreaks, AcquireTimesOut
<1>2. stored' \in SUBSET Golden
  BY <1>1, EffectIsGolden, Zenon
<1>3. QED
  BY <1>1, <1>2, FailureStep, Zenon

\* A task moves, and keeps its iteration and its operation.
LEMMA MovesStep ==
    ASSUME EdgeInv, NEW t \in EdgeTasks, Starts(t) \/ Sends(t)
    PROVE  EdgeInv'
<1>1. UNCHANGED <<adapter_of, stage, stored, completions, errors, terminal, answered, disturbed>> /\ stage = "work"
  BY Zenon DEF Starts, Sends
<1>2. \A s \in EdgeTasks :
        /\ task'[s] \in TaskState /\ task'[s].iteration = task[s].iteration /\ task'[s].op = task[s].op
        /\ task'[s].left = task[s].left /\ (task'[s].at = "sent" => task[s].at = "sent" \/ task[s].left > 0)
  <2>1. \A s \in EdgeTasks : task[s] \in TaskState
    BY TaskType, Zenon
  <2>2. task \in [EdgeTasks -> TaskState]
    BY Zenon DEF EdgeInv, EdgeType
  <2>3. CASE Starts(t)
    BY <2>1, <2>3 DEF Starts, TaskState
  <2>4. CASE Sends(t)
    BY <2>1, <2>2, <2>4 DEF Sends, TaskState
  <2>5. QED
    BY <2>3, <2>4, ZenonT(40)
<1>3. EdgeType'
  <2>1. task' \in [EdgeTasks -> TaskState]
    <3>1. CASE Starts(t)
      BY <1>2, <3>1, ZenonT(40) DEF Starts
    <3>2. CASE Sends(t)
      BY <1>2, <3>2, Zenon DEF Sends, EdgeInv, EdgeType
    <3>3. QED
      BY <3>1, <3>2, Zenon
  <2>2. QED
    BY <1>1, <2>1, SameAdapter, Zenon DEF EdgeInv, EdgeType
<1>4. Placed'
  BY <1>1, <1>2 DEF EdgeInv, Placed
<1>5. Untouched' /\ Counted' /\ Missed'
  BY <1>1, <1>2, TalliesStay, Zenon
<1>6. Undisturbed'
  BY <1>1, <1>2, SameAdapter, Zenon DEF EdgeInv, Undisturbed
<1>7. QED
  BY <1>3, <1>4, <1>5, <1>6, Zenon DEF EdgeInv

LEMMA SetupStep ==
    ASSUME EdgeInv, EdgeSetup
    PROVE  EdgeInv'
<1>1. /\ UNCHANGED <<adapter_of, task, completions, errors, terminal, answered>> /\ stage = "setup"
      /\ \/ stage' = "work" /\ stored' = {} /\ disturbed' = disturbed
         \/ stage' = "exited" /\ stored' \in {stored, {}} /\ disturbed' = TRUE
  BY Zenon DEF EdgeSetup
<1>2. EdgeType'
  BY <1>1, SameAdapter, Zenon DEF EdgeInv, EdgeType
<1>3. Placed'
  BY <1>1, ZenonT(40) DEF EdgeInv, Placed
<1>4. Untouched' /\ Counted' /\ Missed'
  BY <1>1, TalliesStay, Zenon
<1>5. Undisturbed'
  <2>1. \A t \in EdgeTasks : task[t].op = 1 /\ task[t].iteration = First[t] /\ First[t] \in Nat
    BY <1>1, TaskType, Zenon DEF EdgeInv, Placed
  <2>2. QED
    BY <1>1, <2>1 DEF EdgeInv, Undisturbed
<1>6. QED
  BY <1>2, <1>3, <1>4, <1>5, Zenon DEF EdgeInv

LEMMA DisturbedStep ==
    ASSUME EdgeInv, Deleted \/ CollectFails
    PROVE  EdgeInv'
<1>1. /\ UNCHANGED <<adapter_of, task, completions, errors, terminal, answered>> /\ stage # "setup"
      /\ stage' \in {stage, "exited"} /\ stored' \in {stored, {}} /\ disturbed' = TRUE
  BY Zenon DEF Deleted, CollectFails, Joined
<1>2. EdgeType'
  BY <1>1, SameAdapter, Zenon DEF EdgeInv, EdgeType
<1>3. Placed'
  BY <1>1 DEF EdgeInv, Placed
<1>4. Untouched' /\ Counted' /\ Missed'
  BY <1>1, TalliesStay, Zenon
<1>5. Undisturbed'
  BY <1>1, Zenon DEF Undisturbed
<1>6. QED
  BY <1>2, <1>3, <1>4, <1>5, Zenon DEF EdgeInv

LEMMA CollectFirstStep ==
    ASSUME EdgeInv, CollectFirst
    PROVE  EdgeInv'
<1>1. /\ UNCHANGED <<adapter_of, task, stored, completions, errors, answered, disturbed>>
      /\ stage = "work" /\ terminal' = stored /\ stage' \in {"collect", "exited"}
      /\ stored = Golden => stage' = "collect"
      /\ \A t \in EdgeTasks : task[t].left = 0
  BY Zenon DEF CollectFirst, Joined
<1>2. EdgeType'
  BY <1>1, SameAdapter, Zenon DEF EdgeInv, EdgeType
<1>3. Placed'
  BY <1>1, Zenon DEF EdgeInv, Placed
<1>4. Untouched' /\ Counted' /\ Missed'
  BY <1>1, TalliesStay, Zenon
<1>5. ~disturbed => stored = Golden
  <2>1. PICK t \in EdgeTasks : 0 \in Share(t)
    BY SharesCover, EdgeSizes, SMTT(30)
  <2>2. First[t] < task[t].iteration
    BY <1>1, <2>1, TaskType DEF EdgeInv, Placed, Share
  <2>3. QED
    BY <1>1, <2>2, ZenonT(40) DEF EdgeInv, Undisturbed
<1>6. Undisturbed'
  BY <1>1, <1>5, SameAdapter, Zenon DEF EdgeInv, Undisturbed
<1>7. QED
  BY <1>2, <1>3, <1>4, <1>6, Zenon DEF EdgeInv

LEMMA CollectRestStep ==
    ASSUME EdgeInv, CollectRest
    PROVE  EdgeInv'
<1>1. /\ UNCHANGED <<adapter_of, task, completions, errors, answered, disturbed>>
      /\ stage = "collect" /\ stage' \in {"emitted", "exited"} /\ stored' \in {stored, {}}
  BY Zenon DEF CollectRest
<1>2. terminal = Golden /\ stored = Golden => terminal' = Golden /\ stage' = "emitted"
  BY Zenon DEF CollectRest
<1>3. EdgeType'
  BY <1>1, SameAdapter, Zenon DEF EdgeInv, EdgeType
<1>4. Placed'
  BY <1>1, Zenon DEF EdgeInv, Placed
<1>5. Untouched' /\ Counted' /\ Missed'
  BY <1>1, TalliesStay, Zenon
<1>6. Undisturbed'
  <2> SUFFICES ASSUME ~disturbed PROVE Undisturbed'
    BY <1>1, ZenonT(40) DEF Undisturbed
  <2>1. errors = 0 /\ terminal' = Golden /\ stage' = "emitted"
    BY <1>1, <1>2, Zenon DEF EdgeInv, Undisturbed
  <2>2. QED
    BY <1>1, <2>1, SameAdapter, ZenonT(40) DEF Undisturbed
<1>7. QED
  BY <1>3, <1>4, <1>5, <1>6, Zenon DEF EdgeInv

\* EdgeInv is inductive.
LEMMA EdgeInitInv ==
    ASSUME EdgeInit
    PROVE  EdgeInv
<1>1. \A t \in EdgeTasks :
        /\ First[t] \in Nat /\ distribute(t) \in Nat /\ First[t] + distribute(t) <= Repeat
        /\ Share(t) \subseteq 0 .. Repeat - 1 /\ Share(t) \subseteq First[t] .. Repeat - 1
  BY SharesAreDisjoint, EdgeSizes DEF Share
<1>2. EdgeType
  <2>1. task \in [EdgeTasks -> TaskState]
    BY <1>1, SMTT(30) DEF EdgeInit, TaskState, Operations
  <2>2. QED
    BY <2>1, Zenon DEF EdgeInit, EdgeType
<1>3. Placed
  BY <1>1 DEF EdgeInit, Placed
<1>4. \A t \in EdgeTasks : \A i \in Share(t), o \in Operations : <<i, o>> \in EdgeTokens /\ ~Over(t, i, o)
  BY <1>1 DEF EdgeInit, EdgeTokens, Operations, Over
<1>5. Untouched /\ Counted /\ Missed
  BY <1>1, <1>4 DEF EdgeInit, Untouched, Counted, Missed
<1>6. Undisturbed
  BY <1>1, Zenon DEF EdgeInit, Undisturbed
<1>7. QED
  BY <1>2, <1>3, <1>5, <1>6, Zenon DEF EdgeInv

LEMMA EdgeStep ==
    ASSUME EdgeInv, [EdgeNext]_edge
    PROVE  EdgeInv'
<1>1. CASE UNCHANGED edge
  <2>1. UNCHANGED <<adapter_of, stage, task, stored, completions, errors, terminal, answered, disturbed>>
    BY <1>1, Zenon DEF edge
  <2>2. EdgeType' /\ Placed' /\ Undisturbed'
    BY <2>1, SameAdapter DEF EdgeInv, EdgeType, Placed, Undisturbed
  <2>3. Untouched' /\ Counted' /\ Missed'
    BY <2>1, TalliesStay, Zenon
  <2>4. QED
    BY <2>2, <2>3, ZenonT(40) DEF EdgeInv
<1>2. CASE \E t \in EdgeTasks : Starts(t) \/ Sends(t) \/ Answers(t) \/ Mismatches(t) \/ CommandBreaks(t)
                                \/ AcquireTimesOut(t)
  BY <1>2, MovesStep, AnswersStep, MismatchesStep, BreaksStep, ZenonT(40)
<1>3. QED
  BY <1>1, <1>2, SetupStep, DisturbedStep, CollectFirstStep, CollectRestStep, Zenon DEF EdgeNext

\* At the end every task has been through its share, so that the tallies speak of
\* every token.
LEMMA EdgeInvVerdict ==
    ASSUME EdgeInv
    PROVE  VerdictIsRight
<1> SUFFICES ASSUME stage \in {"emitted", "exited"}
             PROVE  /\ Eligible <=> /\ \A k \in EdgeTokens : answered[k] = 1
                                    /\ terminal = Golden /\ stage = "emitted"
                    /\ ~disturbed => Eligible
  BY Zenon DEF VerdictIsRight
<1>1. CASE stage = "exited"
  BY <1>1, Zenon DEF EdgeInv, Undisturbed, Eligible
<1>2. CASE stage = "emitted"
  <2>1. errors \in Nat
    BY Zenon DEF EdgeInv, EdgeType
  <2>2. \A t \in EdgeTasks : \A i \in Share(t) : i < task[t].iteration
    BY <1>2, TaskType DEF EdgeInv, Placed, Share
  <2>3. ASSUME errors = 0, NEW k \in EdgeTokens PROVE answered[k] = 1 /\ completions[k] = 1
    <3>1. PICK i \in 0 .. Repeat - 1, o \in Operations : k = <<i, o>>
      BY DEF EdgeTokens
    <3>2. PICK t \in EdgeTasks : i \in Share(t)
      BY SharesCover, Zenon
    <3>3. Over(t, i, o) /\ i < task[t].iteration
      BY <2>2, <3>2, Zenon DEF Over
    <3>4. QED
      BY <2>3, <3>1, <3>2, <3>3, Zenon DEF EdgeInv, Counted
  <2>4. ASSUME errors # 0 PROVE \E k \in EdgeTokens : answered[k] # 1
    <3>1. PICK t \in EdgeTasks : \E i \in Share(t), o \in Operations : Over(t, i, o) /\ answered[<<i, o>>] = 0
      <4>1. errors > 0
        BY <2>1, <2>4
      <4>2. QED
        BY <4>1, Zenon DEF EdgeInv, Missed
    <3>2. PICK i \in Share(t), o \in Operations : answered[<<i, o>>] = 0
      BY <3>1, Zenon
    <3>3. <<i, o>> \in EdgeTokens
      BY TaskType, Zenon DEF EdgeTokens
    <3>4. QED
      BY <3>2, <3>3
  <2>5. ~disturbed => errors = 0 /\ terminal = Golden
    BY <1>2, Zenon DEF EdgeInv, Undisturbed
  <2>6. QED
    BY <1>2, <2>3, <2>4, <2>5, ZenonT(40) DEF Eligible
<1>3. QED
  BY <1>1, <1>2, Zenon

\* For every number of tasks and of iterations, and whatever the interleaving and
\* the service do, the verdict on what a concurrent adapter prints is right
\* (run_case and the tasks of main.rs, run_redis and run_db of python_driver.py,
\* execute of run_driver_mvp2.py).
THEOREM EdgeVerdict == EdgeSpec => []VerdictIsRight
<1>1. EdgeInit => EdgeInv
  BY EdgeInitInv, Zenon
<1>2. EdgeInv /\ [EdgeNext]_edge => EdgeInv'
  BY EdgeStep, Zenon
<1>3. EdgeInv => VerdictIsRight
  BY EdgeInvVerdict, Zenon
<1>4. QED
  BY <1>1, <1>2, <1>3, PTL DEF EdgeSpec

-----------------------------------------------------------------------------
(* The backtest: sums over trades. *)

\* The backtest alone.
BacktestSpec == BacktestInit /\ [][BacktestNext]_account

\* A trade.
TradeRecord == [bar_date : Int, side : {"BUY", "SELL"}, price : Nat, quantity : Nat,
                total_cost : Nat, pnl : Int]

\* f has the sums of the first n entries, for n up to k.
Sums(f, k, list) == f = [n \in 0 .. k |-> IF n = 0 THEN 0 ELSE f[n - 1] + Net(list[n])]

\* What a trade brings in.
LEMMA NetIsInt == ASSUME NEW t \in TradeRecord PROVE Net(t) \in Int
  BY DEF Net, TradeRecord

\* One more sum.
LEMMA SumExtends ==
    ASSUME NEW k \in Nat, NEW list, NEW f, Sums(f, k, list)
    PROVE  \E g : Sums(g, k + 1, list)
<1> DEFINE g == [n \in 0 .. k + 1 |-> IF n = k + 1 THEN f[k] + Net(list[n]) ELSE f[n]]
<1>1. \A n \in 0 .. k : f[n] = IF n = 0 THEN 0 ELSE f[n - 1] + Net(list[n])
  BY Zenon DEF Sums
<1>2. ASSUME NEW n \in 0 .. k + 1 PROVE g[n] = IF n = 0 THEN 0 ELSE g[n - 1] + Net(list[n])
  <2>1. CASE n = k + 1
    <3>1. n - 1 \in 0 .. k + 1 /\ n - 1 = k /\ k # k + 1 /\ n # 0
      BY <2>1
    <3>2. g[n] = f[k] + Net(list[n]) /\ g[n - 1] = f[k]
      BY <2>1, <3>1, Zenon
    <3>3. QED
      BY <3>1, <3>2, Zenon
  <2>2. CASE n # k + 1 /\ n # 0
    <3>1. n \in 0 .. k /\ n - 1 \in 0 .. k + 1 /\ n - 1 # k + 1
      BY <2>2
    <3>2. g[n] = f[n] /\ g[n - 1] = f[n - 1]
      BY <2>2, <3>1, Zenon
    <3>3. QED
      BY <1>1, <2>2, <3>1, <3>2, Zenon
  <2>3. CASE n = 0
    <3>1. 0 \in 0 .. k /\ 0 # k + 1
      OBVIOUS
    <3>2. g[0] = f[0] /\ f[0] = 0
      BY <1>1, <2>3, <3>1, Zenon
    <3>3. QED
      BY <2>3, <3>2, Zenon
  <2>4. QED
    BY <2>1, <2>2, <2>3, Zenon
<1>3. Sums(g, k + 1, list)
  BY <1>2, Zenon DEF Sums
<1>4. QED
  BY <1>3, Zenon

\* The sums of any list of trades exist, and Booked is the last of them.
LEMMA SumExists ==
    ASSUME NEW list, NEW k \in Nat
    PROVE  \E f : Sums(f, k, list)
<1> DEFINE S == {n \in Nat : ~\E f : Sums(f, n, list)}
<1>1. \E f : Sums(f, 0, list)
  <2> DEFINE f == [n \in 0 .. 0 |-> 0]
  <2>1. \A n \in 0 .. 0 : n = 0
    OBVIOUS
  <2>2. Sums(f, 0, list)
    BY <2>1, Zenon DEF Sums
  <2>3. QED
    BY <2>2, Zenon
<1>2. ASSUME S # {} PROVE FALSE
  <2>1. PICK n \in S : \A m \in S : n <= m
    BY <1>2, Least, Zenon
  <2>2. n \in Nat /\ n # 0
    BY <1>1, <2>1, Zenon
  <2>3. n - 1 \in Nat /\ ~(n <= n - 1) /\ (n - 1) + 1 = n
    BY <2>2
  <2>4. PICK f : Sums(f, n - 1, list)
    BY <2>1, <2>3, Zenon
  <2>5. \E g : Sums(g, n, list)
    BY <2>3, <2>4, SumExtends, Zenon
  <2>6. QED
    BY <2>1, <2>5, Zenon
<1>3. QED
  BY <1>2, Zenon

LEMMA BookedBySums ==
    ASSUME NEW list \in Seq(TradeRecord)
    PROVE  \E f : Sums(f, Len(list), list) /\ Booked(list) = f[Len(list)]
<1> DEFINE f == CHOOSE g : Sums(g, Len(list), list)
<1>0. Len(list) \in Nat
  BY SMTT(30)
<1>1. \E g : Sums(g, Len(list), list)
  BY <1>0, SumExists, ZenonT(40)
<1>2. Sums(f, Len(list), list)
  BY <1>1, Zenon
<1>3. Booked(list) = f[Len(list)]
  BY Zenon DEF Booked, Sums
<1>4. QED
  BY <1>2, <1>3, Zenon

\* They are integers.
LEMMA SumsAreInt ==
    ASSUME NEW list \in Seq(TradeRecord), NEW f, Sums(f, Len(list), list), NEW n \in 0 .. Len(list)
    PROVE  f[n] \in Int
<1> DEFINE S == {m \in 0 .. Len(list) : f[m] \notin Int}
<1>0. S \subseteq Nat /\ Len(list) \in Nat
  OBVIOUS
<1>1. \A m \in 0 .. Len(list) : f[m] = IF m = 0 THEN 0 ELSE f[m - 1] + Net(list[m])
  BY Zenon DEF Sums
<1>2. ASSUME S # {} PROVE FALSE
  <2>1. PICK m \in S : \A j \in S : m <= j
    BY <1>0, <1>2, Least, Zenon
  <2>2. m # 0
    BY <1>1, <2>1
  <2>3. m - 1 \in 0 .. Len(list) /\ ~(m <= m - 1) /\ m \in 1 .. Len(list)
    BY <1>0, <2>1, <2>2
  <2>4. f[m - 1] \in Int
    BY <2>1, <2>3, Zenon
  <2>5. Net(list[m]) \in Int
    BY <2>3, Elements, NetIsInt, Zenon
  <2>6. QED
    BY <1>1, <2>1, <2>2, <2>4, <2>5
<1>3. QED
  BY <1>2, Zenon

\* The sum over trades, one trade at a time.
LEMMA BookedFacts ==
    /\ Booked(<<>>) = 0
    /\ \A list \in Seq(TradeRecord) :
          /\ Booked(list) \in Int
          /\ \A t \in TradeRecord : Booked(Append(list, t)) = Booked(list) + Net(t)
<1>1. Booked(<<>>) = 0
  <2>1. <<>> \in Seq(TradeRecord) /\ Len(<<>>) = 0 /\ 0 \in 0 .. 0
    OBVIOUS
  <2>2. PICK f : Sums(f, 0, <<>>) /\ Booked(<<>>) = f[0]
    BY <2>1, BookedBySums, Zenon
  <2>3. QED
    BY <2>1, <2>2, Zenon DEF Sums
<1>2. ASSUME NEW list \in Seq(TradeRecord) PROVE Booked(list) \in Int
  <2>1. PICK f : Sums(f, Len(list), list) /\ Booked(list) = f[Len(list)]
    BY BookedBySums, Zenon
  <2>2. Len(list) \in 0 .. Len(list)
    OBVIOUS
  <2>3. QED
    BY <2>1, <2>2, SumsAreInt, Zenon
<1>3. ASSUME NEW list \in Seq(TradeRecord), NEW t \in TradeRecord
      PROVE  Booked(Append(list, t)) = Booked(list) + Net(t)
  <2> DEFINE longer == Append(list, t)
  <2>1. /\ longer \in Seq(TradeRecord) /\ Len(longer) = Len(list) + 1 /\ Len(list) \in Nat
        /\ longer[Len(list) + 1] = t /\ \A i \in 1 .. Len(list) : longer[i] = list[i]
    BY AppendFacts
  <2> HIDE DEF longer
  <2>2. PICK f : Sums(f, Len(list), list) /\ Booked(list) = f[Len(list)]
    BY BookedBySums, Zenon
  <2>3. PICK g : Sums(g, Len(list) + 1, longer) /\ Booked(longer) = g[Len(list) + 1]
    BY <2>1, BookedBySums, Zenon
  <2>4. \A m \in 0 .. Len(list) : f[m] = IF m = 0 THEN 0 ELSE f[m - 1] + Net(list[m])
    BY <2>2, Zenon DEF Sums
  <2>5. \A m \in 0 .. Len(list) + 1 : g[m] = IF m = 0 THEN 0 ELSE g[m - 1] + Net(longer[m])
    BY <2>3, Zenon DEF Sums
  <2> DEFINE S == {m \in 0 .. Len(list) : f[m] # g[m]}
  <2>6. ASSUME S # {} PROVE FALSE
    <3>0. S \subseteq Nat
      OBVIOUS
    <3>1. PICK m \in S : \A j \in S : m <= j
      BY <2>6, <3>0, Least, Zenon
    <3>2. m \in 0 .. Len(list) + 1
      BY <2>1, <3>1
    <3>3. CASE m = 0
      BY <2>4, <2>5, <3>1, <3>2, <3>3, Zenon
    <3>4. CASE m # 0
      <4>1. m - 1 \in 0 .. Len(list) /\ ~(m <= m - 1) /\ m \in 1 .. Len(list)
        BY <2>1, <3>1, <3>4
      <4>2. f[m - 1] = g[m - 1] /\ longer[m] = list[m]
        BY <2>1, <3>1, <4>1, Zenon
      <4>3. QED
        BY <2>4, <2>5, <3>1, <3>2, <3>4, <4>2, ZenonT(40)
    <3>5. QED
      BY <3>3, <3>4, Zenon
  <2>7. /\ Len(list) \in 0 .. Len(list) /\ Len(list) + 1 \in 0 .. Len(list) + 1
        /\ Len(list) + 1 # 0 /\ (Len(list) + 1) - 1 = Len(list)
    BY <2>1
  <2>8. f[Len(list)] = g[Len(list)] /\ g[Len(list) + 1] = g[Len(list)] + Net(t)
    BY <2>1, <2>5, <2>6, <2>7, Zenon
  <2>9. Booked(longer) = Booked(list) + Net(t)
    BY <2>2, <2>3, <2>8, Zenon
  <2>10. QED
    BY <2>9, Zenon DEF longer
<1>4. QED
  BY <1>1, <1>2, <1>3, Zenon

-----------------------------------------------------------------------------
(* The backtest: the books. *)

\* A line of the equity curve.
SnapshotRecord == [bar_date : Int, close_price : Nat, position_qty : Nat, portfolio_value : Nat,
                   gain : Int, base : Nat]

\* What a trade finds: with a position, the last trade bought it.
BacktestInv ==
    /\ cash \in Nat /\ position_qty \in Nat /\ avg_buy_price \in Nat
    /\ prev_portfolio_value \in Nat /\ bar_date \in Int
    /\ trades \in Seq(TradeRecord) /\ snapshots \in Seq(SnapshotRecord)
    /\ position_qty = 0 => avg_buy_price = 0
    /\ Len(trades) % 2 = IF position_qty > 0 THEN 1 ELSE 0
    /\ position_qty > 0 => trades[Len(trades)].quantity = position_qty
    /\ BooksBalance

\* A sale is never charged more than its price.
RatesFit == CommissionRate + TaxRate + SlippageRate + Ulp <= Scale

\* What the assumptions say of the constants.
LEMMA BacktestConstants ==
    /\ Scale \in Nat \ {0} /\ Capital \in Nat \ {0} /\ Scale * Capital \in Nat
    /\ CommissionRate \in Nat /\ TaxRate \in Nat /\ SlippageRate \in Nat /\ Ulp \in Nat
    /\ 2 * Ulp <= Scale
    /\ Prices \subseteq Nat /\ Gaps \subseteq Int
  BY CapitalAssumption, PricesAssumption, RatesAssumption, ScaleAssumption, SMTT(30)

\* A cost is within the rounding of what the rates say.
LEMMA CostFacts ==
    ASSUME NEW side, NEW p \in Nat, NEW q \in Nat, NEW c \in alpha_cost_calculate(side, p, q)
    PROVE  /\ c \in Nat /\ Charge(side, p, q) \in Nat
           /\ Charge(side, p, q) - Ulp <= c /\ c <= Charge(side, p, q) + Ulp
           /\ Charge(side, p, q) = 0 => c = 0
<1>1. Charge(side, p, q) \in Nat /\ Ulp \in Nat
  <2>1. CommissionRate + TaxFor(side) + SlippageRate \in Nat /\ Ulp \in Nat
    BY BacktestConstants DEF TaxFor
  <2>2. \A r \in Nat : p * q * r \in Nat
    OBVIOUS
  <2>3. QED
    BY <2>1, <2>2, Zenon DEF Charge
<1>2. c \in IF Charge(side, p, q) = 0 THEN {0}
            ELSE {x \in Charge(side, p, q) - Ulp .. Charge(side, p, q) + Ulp : x >= 0}
  BY Zenon DEF alpha_cost_calculate
<1>3. QED
  BY <1>1, <1>2

\* The outlay before rounding is the same for each share, and a share costs more
\* than the rounding of two amounts.
LEMMA PriceFacts ==
    ASSUME NEW p \in Nat, NEW q \in Nat
    PROVE  /\ effective_price(p) \in Nat /\ Scale * p * q \in Nat
           /\ Scale * p * q + Charge("BUY", p, q) = q * effective_price(p)
           /\ effective_price(p) > 0 => effective_price(p) >= 2 * Ulp
<1> DEFINE r == CommissionRate + SlippageRate
<1>1. Scale \in Nat /\ r \in Nat /\ Ulp \in Nat /\ 2 * Ulp <= Scale
  BY BacktestConstants
<1>2. \A x \in Nat : Charge("BUY", p, x) = p * x * r
  BY BacktestConstants DEF Charge, TaxFor
<1> HIDE DEF r
<1>3. effective_price(p) = Scale * p + p * r
  BY <1>1, <1>2 DEF effective_price
<1>4. Scale * p * q \in Nat /\ Scale * p + p * r \in Nat
  BY <1>1
<1>5. Scale * p * q + p * q * r = q * (Scale * p + p * r)
  BY <1>1
<1>6. Scale * p + p * r > 0 => Scale * p + p * r >= 2 * Ulp
  <2>1. CASE p = 0
    BY <1>1, <2>1
  <2>2. CASE p # 0
    <3>1. Scale * p >= Scale /\ p * r >= 0 /\ Scale * p \in Nat /\ p * r \in Nat
      BY <1>1, <2>2
    <3>2. QED
      BY <1>1, <3>1
  <2>3. QED
    BY <2>1, <2>2
<1>7. QED
  BY <1>2, <1>3, <1>4, <1>5, <1>6

\* A sale is not charged more than it brings.
LEMMA SaleFacts ==
    ASSUME RatesFit, NEW p \in Nat, NEW q \in Nat, NEW c \in alpha_cost_calculate("SELL", p, q)
    PROVE  c \in Nat /\ Scale * p * q \in Nat /\ c <= Scale * p * q
<1> DEFINE r == CommissionRate + TaxRate + SlippageRate
           n == p * q
<1>1. Scale \in Nat /\ r \in Nat /\ Ulp \in Nat /\ r + Ulp <= Scale
  BY BacktestConstants DEF RatesFit
<1>2. Charge("SELL", p, q) = n * r
  BY DEF Charge, TaxFor
<1>3. n \in Nat /\ Scale * p * q = n * Scale
  BY <1>1
<1> HIDE DEF r, n
<1>4. c \in Nat /\ c <= n * r + Ulp /\ (n * r = 0 => c = 0)
  BY <1>2, CostFacts, Zenon
<1>5. CASE n = 0
  BY <1>1, <1>3, <1>4, <1>5
<1>6. CASE n # 0
  <2>1. n * r + Ulp <= n * r + n * Ulp
    BY <1>1, <1>3, <1>6
  <2>2. n * r + n * Ulp = n * (r + Ulp)
    BY <1>1, <1>3
  <2>3. \A x \in Nat : x <= Scale => n * x <= n * Scale /\ n * x \in Nat /\ n * Scale \in Nat
    BY <1>1, <1>3
  <2>4. n * (r + Ulp) <= n * Scale /\ n * (r + Ulp) \in Nat /\ n * Scale \in Nat
    BY <1>1, <2>3
  <2>5. n * r \in Nat /\ n * Ulp \in Nat
    BY <1>1, <1>3
  <2>6. QED
    BY <1>1, <1>3, <1>4, <2>1, <2>2, <2>4, <2>5
<1>7. QED
  BY <1>5, <1>6, Zenon

\* The guard makes good for the rounding: what is bought is paid for, and leaves
\* no more than the price of a share and the rounding of two amounts.
LEMMA GuardedIsPaid ==
    ASSUME cash \in Nat, NEW p \in Nat, effective_price(p) > 0,
           NEW q \in Affordable(p), NEW c \in alpha_cost_calculate("BUY", p, q),
           NEW bought \in Guarded(p, q, c), ~(bought[1] <= 0)
    PROVE  /\ bought[1] \in Nat \ {0} /\ bought[2] \in Nat
           /\ Scale * p * bought[1] + bought[2] <= cash
           /\ cash < Scale * p * bought[1] + bought[2] + effective_price(p) + 2 * Ulp
<1> DEFINE e == effective_price(p)
<1>0. Ulp \in Nat
  BY BacktestConstants
<1>1. q \in Nat /\ q * e <= cash + Ulp /\ (q + 1) * e > cash - Ulp
  BY <1>0 DEF Affordable
<1>2. e \in Nat /\ e >= 2 * Ulp
  BY PriceFacts, Zenon
<1>3. /\ c \in Nat /\ Scale * p * q \in Nat /\ Charge("BUY", p, q) \in Nat
      /\ Charge("BUY", p, q) - Ulp <= c /\ c <= Charge("BUY", p, q) + Ulp
      /\ Scale * p * q + Charge("BUY", p, q) = q * e
  BY <1>1, CostFacts, PriceFacts, Zenon
<1> HIDE DEF e
<1>4. q * e \in Nat /\ (q + 1) * e = q * e + e /\ (q - 1) * e = q * e - e
  BY <1>1, <1>2
<1>5. CASE Scale * p * q + c > cash
  <2>1. bought \in {q - 1} \X alpha_cost_calculate("BUY", p, q - 1)
    BY <1>5, Zenon DEF Guarded
  <2>2. bought[1] = q - 1 /\ bought[2] \in alpha_cost_calculate("BUY", p, q - 1)
    BY <2>1
  <2>3. q - 1 \in Nat /\ q - 1 \in Nat \ {0}
    BY <1>1, <2>2
  <2>4. PICK m \in Nat : m = q - 1
    BY <2>3, Zenon
  <2>5. /\ bought[2] \in Nat /\ Scale * p * m \in Nat /\ Charge("BUY", p, m) \in Nat
        /\ Charge("BUY", p, m) - Ulp <= bought[2] /\ bought[2] <= Charge("BUY", p, m) + Ulp
        /\ Scale * p * m + Charge("BUY", p, m) = m * e
    BY <2>2, <2>4, CostFacts, PriceFacts, Zenon DEF e
  <2>6. m * e = q * e - e
    BY <1>4, <2>4, Zenon
  <2> HIDE <2>4
  <2>7. Scale * p * m + bought[2] <= cash
    BY <1>0, <1>1, <1>2, <1>3, <1>4, <2>5, <2>6
  <2>8. cash < Scale * p * m + bought[2] + e + 2 * Ulp
    BY <1>0, <1>1, <1>2, <1>3, <1>4, <1>5, <2>5, <2>6
  <2>9. QED
    BY <2>2, <2>3, <2>4, <2>5, <2>7, <2>8, Zenon DEF e
<1>6. CASE ~(Scale * p * q + c > cash)
  <2>1. bought = <<q, c>>
    BY <1>6, Zenon DEF Guarded
  <2>2. bought[1] = q /\ bought[2] = c
    BY <2>1
  <2>3. q \in Nat \ {0}
    BY <1>1, <2>2
  <2>4. Scale * p * q + c <= cash /\ cash < Scale * p * q + c + e + 2 * Ulp
    BY <1>0, <1>1, <1>2, <1>3, <1>4, <1>6
  <2>5. QED
    BY <1>3, <2>2, <2>3, <2>4, Zenon DEF e
<1>7. QED
  BY <1>5, <1>6, Zenon

\* A buy spends what it may, whichever way the amounts round (open_position).
LEMMA OpensAsPaid ==
    ASSUME BacktestInv, NEW p \in Prices, open_position(p)
    PROVE  \/ Stay
           \/ \E d \in Nat \ {0}, c \in Nat :
                 /\ Scale * p * d + c <= cash
                 /\ cash < Scale * p * d + c + effective_price(p) + 2 * Ulp
                 /\ cash' = cash - (Scale * p * d + c) /\ avg_buy_price' = p /\ position_qty' = d
                 /\ trades' = Append(trades, Trade("BUY", p, d, c, 0))
<1>1. CASE effective_price(p) <= 0
  BY <1>1, Zenon DEF open_position
<1>2. CASE ~(effective_price(p) <= 0)
  <2>0. p \in Nat /\ cash \in Nat
    BY BacktestConstants DEF BacktestInv
  <2>1. effective_price(p) > 0
    <3>1. effective_price(p) \in Nat
      BY <2>0, PriceFacts, Zenon
    <3>2. QED
      BY <1>2, <3>1
  <2>2. PICK q \in Affordable(p) : \E c \in alpha_cost_calculate("BUY", p, q) :
        \E bought \in Guarded(p, q, c) :
          IF bought[1] <= 0 THEN Stay
          ELSE /\ cash' = cash - (Scale * p * bought[1] + bought[2])
               /\ avg_buy_price' = p
               /\ position_qty' = bought[1]
               /\ trades' = Append(trades, Trade("BUY", p, bought[1], bought[2], 0))
    BY <1>2, Zenon DEF open_position
  <2>3. PICK c \in alpha_cost_calculate("BUY", p, q) : \E bought \in Guarded(p, q, c) :
          IF bought[1] <= 0 THEN Stay
          ELSE /\ cash' = cash - (Scale * p * bought[1] + bought[2])
               /\ avg_buy_price' = p
               /\ position_qty' = bought[1]
               /\ trades' = Append(trades, Trade("BUY", p, bought[1], bought[2], 0))
    BY <2>2, Zenon
  <2>4. PICK bought \in Guarded(p, q, c) :
          IF bought[1] <= 0 THEN Stay
          ELSE /\ cash' = cash - (Scale * p * bought[1] + bought[2])
               /\ avg_buy_price' = p
               /\ position_qty' = bought[1]
               /\ trades' = Append(trades, Trade("BUY", p, bought[1], bought[2], 0))
    BY <2>3, Zenon
  <2>5. CASE bought[1] <= 0
    BY <2>4, <2>5, Zenon
  <2>6. CASE ~(bought[1] <= 0)
    <3>1. /\ bought[1] \in Nat \ {0} /\ bought[2] \in Nat
          /\ Scale * p * bought[1] + bought[2] <= cash
          /\ cash < Scale * p * bought[1] + bought[2] + effective_price(p) + 2 * Ulp
      BY <2>0, <2>1, <2>6, GuardedIsPaid, Zenon
    <3>2. QED
      BY <2>4, <2>6, <3>1, Zenon
  <2>7. QED
    BY <2>5, <2>6, Zenon
<1>3. QED
  BY <1>1, <1>2, Zenon

\* The account after the trade of a bar, before the snapshot.
Booking ==
    /\ cash' \in Nat /\ position_qty' \in Nat /\ avg_buy_price' \in Nat
    /\ trades' \in Seq(TradeRecord)
    /\ position_qty' = 0 => avg_buy_price' = 0
    /\ Len(trades') % 2 = IF position_qty' > 0 THEN 1 ELSE 0
    /\ position_qty' > 0 => trades'[Len(trades')].quantity = position_qty'
    /\ Len(trades') <= Len(trades) + 1
    /\ SpendsAllItMay' /\ SalesCloseTheirBuy'
    /\ cash' = Scale * Capital + Booked(trades') - Scale * avg_buy_price' * position_qty'

\* A bar without a trade, a buy and a sale keep the books.
LEMMA StayBooks ==
    ASSUME BacktestInv, Stay
    PROVE  Booking
<1>1. UNCHANGED <<cash, position_qty, avg_buy_price, trades>>
  BY Zenon DEF Stay
<1>2. Len(trades) <= Len(trades) + 1
  BY Elements DEF BacktestInv
<1>3. SpendsAllItMay' /\ SalesCloseTheirBuy'
  BY <1>1, Zenon DEF BacktestInv, BooksBalance, SpendsAllItMay, SalesCloseTheirBuy, effective_price, Charge
<1>4. QED
  BY <1>1, <1>2, <1>3, Zenon DEF BacktestInv, BooksBalance, Booking

\* One more trade.
LEMMA TradeAppended ==
    ASSUME BacktestInv, NEW t \in TradeRecord, trades' = Append(trades, t),
           t.side = IF position_qty > 0 THEN "SELL" ELSE "BUY",
           position_qty > 0 => t.quantity = position_qty
    PROVE  /\ trades' \in Seq(TradeRecord) /\ Len(trades') = Len(trades) + 1 /\ Len(trades) \in Nat
           /\ trades'[Len(trades')] = t
           /\ Len(trades') % 2 = IF position_qty > 0 THEN 0 ELSE 1
           /\ SalesCloseTheirBuy'
           /\ Booked(trades') = Booked(trades) + Net(t) /\ Booked(trades) \in Int
<1>1. /\ trades' \in Seq(TradeRecord) /\ Len(trades') = Len(trades) + 1 /\ Len(trades) \in Nat
      /\ trades'[Len(trades')] = t /\ trades'[Len(trades) + 1] = t
      /\ \A i \in 1 .. Len(trades) : trades'[i] = trades[i]
  BY AppendFacts DEF BacktestInv
<1>2. /\ Len(trades) % 2 = (IF position_qty > 0 THEN 1 ELSE 0) /\ position_qty \in Nat
      /\ position_qty > 0 => trades[Len(trades)].quantity = position_qty
      /\ SalesCloseTheirBuy
  BY Zenon DEF BacktestInv, BooksBalance
<1>3. Len(trades') % 2 = IF position_qty > 0 THEN 0 ELSE 1
  BY <1>1, <1>2, SMTT(30)
<1>4. SalesCloseTheirBuy'
  <2> SUFFICES ASSUME NEW i \in 1 .. Len(trades) + 1
               PROVE  /\ trades'[i].side = IF i % 2 = 1 THEN "BUY" ELSE "SELL"
                      /\ i % 2 = 0 => trades'[i].quantity = trades'[i - 1].quantity
    BY <1>1, Zenon DEF SalesCloseTheirBuy
  <2>1. CASE i \in 1 .. Len(trades)
    <3>1. trades'[i] = trades[i]
      BY <1>1, <2>1, Zenon
    <3>2. i % 2 = 0 => trades'[i - 1] = trades[i - 1]
      BY <1>1, <2>1
    <3>3. QED
      BY <1>2, <2>1, <3>1, <3>2, Zenon DEF SalesCloseTheirBuy
  <2>2. CASE i = Len(trades) + 1
    <3>1. trades'[i] = t /\ i % 2 = IF position_qty > 0 THEN 0 ELSE 1
      BY <1>1, <1>3, <2>2, ZenonT(40)
    <3>2. CASE position_qty > 0
      <4>1. i - 1 = Len(trades) /\ Len(trades) \in 1 .. Len(trades) /\ i % 2 = 0 /\ i % 2 # 1
        BY <1>1, <1>2, <2>2, <3>1, <3>2
      <4>2. trades'[i - 1].quantity = position_qty
        BY <1>1, <1>2, <3>2, <4>1, Zenon
      <4>3. QED
        BY <3>1, <3>2, <4>1, <4>2, Zenon
    <3>3. CASE ~(position_qty > 0)
      <4>1. i % 2 = 1 /\ i % 2 # 0
        BY <3>1, <3>3
      <4>2. QED
        BY <3>1, <3>3, <4>1, Zenon
    <3>4. QED
      BY <3>2, <3>3, Zenon
  <2>3. QED
    BY <1>1, <2>1, <2>2, SMTT(30)
<1>5. Booked(trades') = Booked(trades) + Net(t) /\ Booked(trades) \in Int
  BY BookedFacts, ZenonT(40) DEF BacktestInv
<1>6. QED
  BY <1>1, <1>3, <1>4, <1>5, Zenon

LEMMA BuyBooks ==
    ASSUME BacktestInv, position_qty = 0, bar_date' \in Int,
           NEW p \in Nat, NEW d \in Nat \ {0}, NEW c \in Nat,
           Scale * p * d + c <= cash, cash < Scale * p * d + c + effective_price(p) + 2 * Ulp,
           cash' = cash - (Scale * p * d + c), avg_buy_price' = p, position_qty' = d,
           trades' = Append(trades, Trade("BUY", p, d, c, 0))
    PROVE  Booking
<1> DEFINE t == Trade("BUY", p, d, c, 0)
           e == effective_price(p)
           paid == Scale * p * d
<1>1. d \in Nat /\ d > 0 /\ ~(position_qty > 0)
  BY SMTT(30)
<1>2. e \in Nat /\ paid \in Nat /\ Ulp \in Nat
  BY <1>1, PriceFacts, BacktestConstants, Zenon
<1>3. /\ t \in TradeRecord /\ t.side = "BUY" /\ t.quantity = d /\ t.total_cost = c
      /\ Net(t) = -c
  BY <1>1 DEF Trade, TradeRecord, Net
<1> HIDE DEF t, e, paid
<1>4. /\ trades' \in Seq(TradeRecord) /\ Len(trades') = Len(trades) + 1 /\ Len(trades) \in Nat
      /\ trades'[Len(trades')] = t /\ Len(trades') % 2 = 1 /\ SalesCloseTheirBuy'
      /\ Booked(trades') = Booked(trades) - c /\ Booked(trades) \in Int
  <2>1. trades' = Append(trades, t)
    BY DEF t
  <2>2. Booked(trades') = Booked(trades) + Net(t) /\ Booked(trades) \in Int
    BY <1>1, <1>3, <2>1, TradeAppended, Zenon
  <2>3. Booked(trades') = Booked(trades) - c
    BY <1>2, <1>3, <2>2
  <2>4. QED
    BY <1>1, <1>3, <2>1, <2>2, <2>3, TradeAppended, Zenon
<1>5. cash \in Nat /\ avg_buy_price = 0 /\ Scale \in Nat /\ Scale * Capital \in Nat
      /\ cash = Scale * Capital + Booked(trades) - Scale * avg_buy_price * position_qty
  BY BacktestConstants, Zenon DEF BacktestInv, BooksBalance
<1>6. cash = Scale * Capital + Booked(trades)
  BY <1>4, <1>5
<1>7. paid + c <= cash /\ cash < paid + c + e + 2 * Ulp /\ cash' = cash - (paid + c)
  BY Zenon DEF paid, e
<1>8. cash' \in Nat /\ cash' < e + 2 * Ulp
  <2>1. \A x, y \in Nat : y <= x /\ x < y + e + 2 * Ulp => x - y \in Nat /\ x - y < e + 2 * Ulp
    BY <1>2
  <2>2. cash \in Nat /\ paid + c \in Nat
    BY <1>2, <1>5
  <2>3. QED
    BY <1>7, <2>1, <2>2, ZenonT(40)
<1>9. cash' = Scale * Capital + Booked(trades') - paid
  <2> DEFINE base == Scale * Capital
             sum == Booked(trades)
             booked == Booked(trades')
  <2>1. base \in Int /\ sum \in Int /\ booked = sum - c /\ cash = base + sum
    BY <1>4, <1>5, <1>6
  <2> HIDE DEF base, sum, booked
  <2>2. cash' = base + booked - paid
    BY <1>2, <1>7, <2>1
  <2>3. QED
    BY <2>2, Zenon DEF base, booked
<1>10. SpendsAllItMay'
  BY <1>8, Zenon DEF SpendsAllItMay, e, effective_price, Charge
<1>11. Len(trades') <= Len(trades) + 1 /\ d # 0
  BY <1>1, <1>4
<1>12. QED
  BY <1>1, <1>3, <1>4, <1>8, <1>9, <1>10, <1>11, Zenon DEF Booking, paid

LEMMA SaleBooks ==
    ASSUME RatesFit, BacktestInv, position_qty > 0, bar_date' \in Int, NEW p \in Nat, close_position(p)
    PROVE  Booking
<1>1. /\ position_qty \in Nat /\ avg_buy_price \in Nat /\ cash \in Nat
      /\ Scale \in Nat /\ Scale * Capital \in Nat
      /\ cash = Scale * Capital + Booked(trades) - Scale * avg_buy_price * position_qty
  BY BacktestConstants, Zenon DEF BacktestInv, BooksBalance
<1>2. PICK c \in alpha_cost_calculate("SELL", p, position_qty) :
        LET pnl == Scale * (p - avg_buy_price) * position_qty - c
        IN /\ cash' = cash + (Scale * p * position_qty - c)
           /\ position_qty' = 0 /\ avg_buy_price' = 0
           /\ trades' = Append(trades, Trade("SELL", p, position_qty, c, pnl))
  BY Zenon DEF close_position
<1> DEFINE pnl == Scale * (p - avg_buy_price) * position_qty - c
           t == Trade("SELL", p, position_qty, c, pnl)
<1>3. c \in Nat /\ Scale * p * position_qty \in Nat /\ c <= Scale * p * position_qty
  BY <1>1, SaleFacts, Zenon
<1>4. Scale * (p - avg_buy_price) * position_qty
        = Scale * p * position_qty - Scale * avg_buy_price * position_qty
      /\ Scale * avg_buy_price * position_qty \in Nat
  BY <1>1
<1>5. pnl \in Int
      /\ pnl = Scale * p * position_qty - Scale * avg_buy_price * position_qty - c
  BY <1>3, <1>4, SMTT(30)
<1>6. /\ cash' = cash + (Scale * p * position_qty - c) /\ position_qty' = 0 /\ avg_buy_price' = 0
      /\ trades' = Append(trades, t)
  BY <1>2, Zenon
<1> HIDE DEF pnl
<1>7. t \in TradeRecord /\ t.side = "SELL" /\ t.quantity = position_qty /\ Net(t) = pnl
  BY <1>1, <1>3, <1>5 DEF Trade, TradeRecord, Net
<1> HIDE DEF t
<1>8. /\ trades' \in Seq(TradeRecord) /\ Len(trades') = Len(trades) + 1 /\ Len(trades) \in Nat
      /\ Len(trades') % 2 = 0 /\ SalesCloseTheirBuy'
      /\ Booked(trades') = Booked(trades) + pnl /\ Booked(trades) \in Int
  BY <1>6, <1>7, TradeAppended, Zenon
<1>9. cash' \in Nat /\ cash' = Scale * Capital + Booked(trades')
  <2> DEFINE base == Scale * Capital
             sum == Booked(trades)
             paid == Scale * avg_buy_price * position_qty
             got == Scale * p * position_qty
  <2>1. base \in Int /\ sum \in Int /\ paid \in Nat /\ got \in Nat /\ c <= got /\ c \in Nat
        /\ cash \in Nat /\ cash = base + sum - paid /\ cash' = cash + (got - c)
        /\ Booked(trades') = sum + (got - paid - c)
    BY <1>1, <1>3, <1>4, <1>5, <1>6, <1>8
  <2> HIDE DEF base, sum, paid, got
  <2>2. cash' \in Nat /\ cash' = base + Booked(trades')
    BY <2>1
  <2>3. QED
    BY <2>2, ZenonT(40) DEF base
<1>10. cash' = Scale * Capital + Booked(trades') - Scale * avg_buy_price' * position_qty'
  <2>1. Scale * avg_buy_price' * position_qty' = 0
    BY <1>1, <1>6
  <2>2. Booked(trades') \in Int
    BY <1>8, BookedFacts, Zenon
  <2>3. Booked(trades') - 0 = Booked(trades')
    BY <2>2
  <2>4. QED
    BY <1>9, <2>1, <2>3, Zenon
<1>11. ~(position_qty' > 0) /\ position_qty' \in Nat /\ avg_buy_price' \in Nat
       /\ Len(trades') <= Len(trades) + 1
  BY <1>6, <1>8
<1>12. QED
  BY <1>6, <1>8, <1>9, <1>10, <1>11, Zenon DEF Booking, SpendsAllItMay

\* The invariant is inductive.
LEMMA BacktestStep ==
    ASSUME RatesFit, BacktestInv, BacktestNext
    PROVE  BacktestInv'
<1>1. PICK p \in Prices, gap \in Gaps, signal \in Signals : Bar(p, gap, signal)
  BY Zenon DEF BacktestNext
<1>2. p \in Nat /\ gap \in Int /\ bar_date \in Int /\ position_qty \in Nat /\ prev_portfolio_value \in Nat
      /\ Scale \in Nat /\ snapshots \in Seq(SnapshotRecord) /\ Len(trades) <= Len(snapshots)
      /\ trades \in Seq(TradeRecord)
  BY BacktestConstants DEF BacktestInv, BooksBalance
<1>3. bar_date' = bar_date + gap /\ bar_date' \in Int
  BY <1>1, <1>2 DEF Bar
<1>4. Booking
  <2>1. CASE Opens(signal)
    <3>1. open_position(p) /\ position_qty = 0
      BY <1>1, <2>1, Zenon DEF Bar, Opens
    <3>2. QED
      BY <1>2, <1>3, <3>1, OpensAsPaid, StayBooks, BuyBooks, Zenon
  <2>2. CASE ~Opens(signal) /\ signal \in {"SELL", "CLOSE"} /\ position_qty > 0
    <3>1. close_position(p)
      BY <1>1, <2>2, Zenon DEF Bar
    <3>2. QED
      BY <1>2, <1>3, <2>2, <3>1, SaleBooks, Zenon
  <2>3. CASE ~Opens(signal) /\ ~(signal \in {"SELL", "CLOSE"} /\ position_qty > 0)
    <3>1. Stay
      BY <1>1, <2>3, Zenon DEF Bar
    <3>2. QED
      BY <3>1, StayBooks, Zenon
  <2>4. QED
    BY <2>1, <2>2, <2>3, Zenon
<1> DEFINE value == cash' + Scale * position_qty' * p
           gain == IF prev_portfolio_value > 0 THEN value - prev_portfolio_value ELSE 0
           shot == [bar_date |-> bar_date', close_price |-> p, position_qty |-> position_qty',
                    portfolio_value |-> value, gain |-> gain, base |-> prev_portfolio_value]
<1>5. prev_portfolio_value' = value /\ snapshots' = Append(snapshots, shot)
  BY <1>1, Zenon DEF Bar, take_snapshot
<1>6. cash' \in Nat /\ position_qty' \in Nat
  BY <1>4, Zenon DEF Booking
<1>7. value \in Nat
  <2>1. Scale * position_qty' * p \in Nat
    <3>1. \A x, y, z \in Nat : x * y * z \in Nat
      OBVIOUS
    <3>2. QED
      BY <1>2, <1>6, <3>1, Zenon
  <2>2. QED
    BY <1>6, <2>1
<1> HIDE DEF value
<1>8. gain \in Int
  BY <1>2, <1>7, SMTT(30)
<1> HIDE DEF gain
<1>9. shot \in SnapshotRecord
  BY <1>2, <1>3, <1>6, <1>7, <1>8 DEF SnapshotRecord
<1> HIDE DEF shot
<1>10. snapshots' \in Seq(SnapshotRecord) /\ Len(snapshots') = Len(snapshots) + 1 /\ Len(snapshots) \in Nat
  BY <1>2, <1>5, <1>9, AppendFacts, SMTT(30)
<1>11. Len(trades') <= Len(snapshots')
  <2>1. Len(trades) \in Nat /\ Len(trades') \in Nat /\ Len(trades') <= Len(trades) + 1
    BY <1>2, <1>4, Elements DEF Booking
  <2>2. QED
    BY <1>2, <1>10, <2>1
<1>12. BooksBalance'
  BY <1>4, <1>5, <1>7, <1>11, Zenon DEF Booking, BooksBalance
<1>13. QED
  BY <1>3, <1>4, <1>5, <1>7, <1>10, <1>12, ZenonT(40) DEF Booking, BacktestInv

\* The account of every backtest balances, for any prices, bars, signals and
\* rounding, up or down, of the quotient and the costs: a buy never overdraws the
\* cash and leaves no more than a share's worth, a sale closes its buy, and the
\* cash is what the trades say (open_position, close_position).  The rates may
\* not exceed the price: with more a sale would overdraw the account.
THEOREM BacktestBooks ==
    ASSUME CommissionRate + TaxRate + SlippageRate + Ulp <= Scale
    PROVE  BacktestSpec => []BooksBalance
<1>0. RatesFit
  BY DEF RatesFit
<1>1. BacktestInit => BacktestInv
  <2> SUFFICES ASSUME BacktestInit PROVE BacktestInv
    OBVIOUS
  <2>1. /\ trades \in Seq(TradeRecord) /\ snapshots \in Seq(SnapshotRecord)
        /\ Len(trades) = 0 /\ Len(snapshots) = 0 /\ Booked(trades) = 0 /\ trades = <<>>
    BY BookedFacts DEF BacktestInit
  <2>2. /\ cash = Scale * Capital /\ cash \in Nat /\ position_qty = 0 /\ avg_buy_price = 0
        /\ prev_portfolio_value = Scale * Capital /\ bar_date = 0 /\ Scale \in Nat
    BY BacktestConstants, Zenon DEF BacktestInit
  <2>3. cash = Scale * Capital + Booked(trades) - Scale * avg_buy_price * position_qty
    BY <2>1, <2>2
  <2>4. SpendsAllItMay /\ SalesCloseTheirBuy
    BY <2>1, <2>2 DEF SpendsAllItMay, SalesCloseTheirBuy
  <2>5. BooksBalance
    BY <2>1, <2>2, <2>3, <2>4 DEF BooksBalance
  <2>6. QED
    BY <2>1, <2>2, <2>5 DEF BacktestInv
<1>2. BacktestInv /\ [BacktestNext]_account => BacktestInv'
  <2>1. CASE BacktestNext
    BY <1>0, <2>1, BacktestStep, Zenon
  <2>2. CASE UNCHANGED account
    BY <2>2, Zenon DEF account, BacktestInv, BooksBalance, SpendsAllItMay, SalesCloseTheirBuy,
       effective_price, Charge
  <2>3. QED
    BY <2>1, <2>2, Zenon
<1>3. BacktestInv => BooksBalance
  BY Zenon DEF BacktestInv
<1>4. QED
  BY <1>1, <1>2, <1>3, PTL DEF BacktestSpec
=============================================================================
