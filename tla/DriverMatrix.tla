------------------------------ MODULE DriverMatrix ------------------------------
(***************************************************************************)
(* The benchmark of the three adapters: bench/run_driver_mvp2.py runs them *)
(* in rotated order, trial by trial, and publishes one result for each     *)
(* case, concurrency and adapter; bench/evaluate_mvp2.py takes the results *)
(* and decides, GO or NO-GO, or refuses them.                              *)
(*                                                                         *)
(* A trial's output is `eligible', or has a defect one of the checks of    *)
(* run_adapter and execute finds; EdgeAdapter says when.  Its times are    *)
(* left out: a comparison of two results goes either way.  While the       *)
(* matrix runs, somebody may rebuild an adapter.                           *)
(***************************************************************************)
EXTENDS Integers, Sequences, FiniteSets, TLC

CONSTANT TRIALS        \* 30 in the code; the rotation repeats after 3

ASSUME TrialsAssumption == TRIALS \in Nat \ {0} /\ TRIALS % 3 = 0

VARIABLES
    job,           \* "start", "execute", "smoked", "published", "raised", "decided"
    smoke, trials, \* the arguments
    artifact,      \* per adapter: the build on disk
    reported,      \* per adapter: the compiler and flags that build reports
    attested,      \* per adapter: its attestation before the first trial
    records,
    verdict        \* "none", "GO", "NO-GO", or "ValueError"

matrix == <<job, smoke, trials, artifact, reported, attested, records, verdict>>

VARIANTS == <<"python", "c", "rust">>
CASES == <<"redis-hot-path", "db-read-write">>
CONCURRENCIES == <<1, 8, 32>>
Variants == {VARIANTS[i] : i \in DOMAIN VARIANTS}
Cells == [case : {CASES[i] : i \in DOMAIN CASES},
          concurrency : {CONCURRENCIES[i] : i \in DOMAIN CONCURRENCIES}]

MatrixInit ==
    /\ job = "start" /\ smoke = FALSE /\ trials = 0 /\ records = <<>> /\ verdict = "none"
    /\ artifact = [v \in Variants |-> 1] /\ reported = artifact /\ attested = artifact

\* Bound: one adapter is rebuilt, once.  The new build may report other flags.  It
\* is not the old one again: an artifact put back byte for byte has its hash.
Rebuilt(v) ==
    /\ job \in {"start", "execute"} /\ \A w \in Variants : artifact[w] = 1
    /\ artifact' = [artifact EXCEPT ![v] = 2]
    /\ reported' \in {reported, [reported EXCEPT ![v] = 2]}
    /\ UNCHANGED <<job, smoke, trials, attested, records, verdict>>

\* Parse the arguments, inspect the sources, attest the adapters.
Begins ==
    /\ job = "start"
    /\ smoke' \in BOOLEAN /\ trials' \in 1 .. TRIALS + 1
    /\ attested' = artifact
    /\ IF smoke' THEN job' = IF trials' = 1 THEN "execute" ELSE "raised"
                 ELSE job' = IF trials' >= TRIALS THEN "execute" ELSE "raised"
    /\ UNCHANGED <<artifact, reported, records, verdict>>

-----------------------------------------------------------------------------
(* execute: the loops over cases, concurrencies, trials and adapters. *)

Size == Len(CASES) * Len(CONCURRENCIES) * trials * 3

Order(trial, order_index) == VARIANTS[((trial + order_index) % 3) + 1]

\* What an adapter says it was linked with; C names the same in both cases.
dependencies(variant, case) ==
    IF variant = "c" THEN {"hiredis", "libpq", "libwebsockets", "openssl"}
    ELSE IF variant = "rust" THEN IF case = "redis-hot-path" THEN {"fred"} ELSE {"sqlx"}
    ELSE IF case = "redis-hot-path" THEN {"redis", "redis_server"} ELSE {"asyncpg", "postgresql"}

\* The record of the next trial; `by' is the build that really ran.
NextRecord ==
    LET n == Len(records)
        case == CASES[(n \div (3 * trials * Len(CONCURRENCIES))) + 1]
        trial == (n \div 3) % trials
        variant == Order(trial, n % 3)
    IN [case |-> case, concurrency |-> CONCURRENCIES[((n \div (3 * trials)) % 3) + 1],
        trial |-> trial, order_index |-> n % 3, variant |-> variant,
        build |-> [reports |-> reported[variant], dependencies |-> dependencies(variant, case)],
        by |-> artifact[variant]]

SameCell(r, s) == r.case = s.case /\ r.concurrency = s.concurrency /\ r.variant = s.variant

\* invariant_by_cell
Drifts(r) == \E i \in DOMAIN records : SameCell(records[i], r) /\ records[i].build # r.build

Trial ==
    /\ job = "execute" /\ Len(records) < Size
    /\ \E eligible \in BOOLEAN :
        IF eligible /\ ~Drifts(NextRecord)
        THEN records' = Append(records, NextRecord) /\ job' = job
        ELSE records' = records /\ job' = "raised"
    /\ UNCHANGED <<smoke, trials, artifact, reported, attested, verdict>>

\* Mutant: nothing is attested after the run.
AlwaysVerified == TRUE

verify_post_run_attestation == artifact = attested

\* A smoke run publishes no result.
Publishes ==
    /\ job = "execute" /\ Len(records) = Size
    /\ job' = IF ~verify_post_run_attestation THEN "raised"
              ELSE IF smoke THEN "smoked" ELSE "published"
    /\ UNCHANGED <<smoke, trials, artifact, reported, attested, records, verdict>>

-----------------------------------------------------------------------------
(* build_results, and the gate that reads them. *)

\* One result: the trials of a cell in order, and the build of the first.
Result(cell, variant) ==
    LET group == SortSeq(SelectSeq(records, LAMBDA r : SameCell(r, [variant |-> variant] @@ cell)),
                         LAMBDA r, s : r.trial < s.trial)
    IN [trials |-> Len(group), build |-> group[1].build,
        trial_order_index |-> [k \in DOMAIN group |-> group[k].order_index]]

\* The rotation the gate insists on, [0, 2, 1] * 10 and so on.
Positions(variant) ==
    LET period == CASE variant = "python" -> <<0, 2, 1>>
                    [] variant = "c" -> <<1, 0, 2>>
                    [] variant = "rust" -> <<2, 1, 0>>
    IN [k \in 1 .. TRIALS |-> period[((k - 1) % 3) + 1]]

_validate_doc(cell, variant) ==
    /\ Result(cell, variant).trials = TRIALS
    /\ Result(cell, variant).trial_order_index = Positions(variant)

\* All results of an adapter must report one build.
BuildDrifts(supplied) ==
    \E v \in supplied, c, d \in Cells : Result(c, v).build # Result(d, v).build

\* evaluate, on the results of the candidate and Python or of all three; GO when
\* every comparison of the candidate with Python goes its way.
Evaluates ==
    /\ job = "published"
    /\ \E candidate \in {"c", "rust"} :
       \E supplied \in {{"python", candidate}, Variants} :
          IF (\E c \in Cells, v \in supplied : ~_validate_doc(c, v)) \/ BuildDrifts(supplied)
          THEN verdict' = "ValueError"
          ELSE \E wins \in SUBSET Cells : verdict' = IF wins = Cells THEN "GO" ELSE "NO-GO"
    /\ job' = "decided"
    /\ UNCHANGED <<smoke, trials, artifact, reported, attested, records>>

MatrixNext == Begins \/ Trial \/ Publishes \/ Evaluates \/ \E v \in Variants : Rebuilt(v)

MatrixSpec == MatrixInit /\ [][MatrixNext]_matrix

MatrixEnded == job \in {"raised", "smoked", "decided"}

\* run_adapter waits for the adapter's process, without a timeout.
AwaitsTrial == job = "execute" /\ Len(records) < Size

-----------------------------------------------------------------------------
\* What run_driver_mvp2.py publishes is a fair comparison: every trial ran the build
\* that is attested, however late an adapter was rebuilt; in each trial of a cell
\* the three took turns, and in any three trials each of them was once the first,
\* the second and the third.  The gate finds nothing else to object to in it than
\* the number of trials and the builds that are reported.
PublishedIsFair ==
    job \in {"published", "decided"} =>
        /\ \A i \in DOMAIN records : records[i].by = attested[records[i].variant]
        /\ \A c \in Cells :
             LET order == [v \in Variants |-> Result(c, v).trial_order_index]
             IN /\ \A v \in Variants : Len(order[v]) = trials
                /\ \A k \in 1 .. trials : {order[v][k] : v \in Variants} = 0 .. 2
                /\ \A k \in 1 .. trials - 2, v \in Variants : {order[v][j] : j \in k .. k + 2} = 0 .. 2
        /\ verdict = "ValueError" => trials # TRIALS \/ BuildDrifts(Variants)

\* "create separate deterministic C and Rust gate reports": on a published matrix of
\* the required number of trials, with no adapter rebuilt, the gate decides.
PublishedIsDecided ==
    job = "decided" /\ trials = TRIALS /\ (\A v \in Variants : artifact[v] = 1) =>
        verdict \in {"GO", "NO-GO"}
=============================================================================
