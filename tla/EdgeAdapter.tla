------------------------------ MODULE EdgeAdapter ------------------------------
(***************************************************************************)
(* The two concurrent benchmark adapters, edge/driver-bench/src/main.rs on *)
(* tokio and bench/adapters/python_driver.py on asyncio, and the verdict   *)
(* run_driver_mvp2.py gives on what they print.  The iterations of a trial *)
(* are dealt out to tasks that share one namespace of Redis or of the      *)
(* database and one connection to it.                                      *)
(*                                                                         *)
(* An operation is a command: it is sent by the task that holds the        *)
(* connection, the service (external) executes it, and it is answered, or  *)
(* fails with or without an effect.  Operations 1 and 2 of the database    *)
(* write rows 1 and 2 and operation 3 reads both; operation 1 of Redis     *)
(* writes the tick, 2 reads it and 3 looks for a key that nobody sets.     *)
(***************************************************************************)
EXTENDS Integers

CONSTANTS
    Concurrency,   \* the tasks
    Repeat         \* the iterations of the trial

\* Six digits keep the order of the iterations in the sorted tokens.
ASSUME EdgeAssumption == {Concurrency, Repeat} \subseteq Nat \ {0} /\ Repeat < 10^6

VARIABLES
    adapter_of,    \* [lang, case]: the adapter and the case it runs
    stage,         \* "setup", "work", "collect", "emitted", "exited"
    task,          \* per task: where it is, its iterations, operation and results
    holder,        \* the task that has the permit or the connection, or 0
    stored,        \* the rows, or the tick, of the namespace
    completions,   \* how often each token is among the completions
    errors,
    terminal,      \* the first reading of the terminal state, or its verdict
    answered,      \* history: how often each token was answered as expected
    disturbed      \* history: something failed, or someone else deleted the rows

edge == <<adapter_of, stage, task, holder, stored, completions, errors, terminal, answered,
          disturbed>>

Operations == 1 .. 3
EdgeTasks == 1 .. Concurrency
EdgeTokens == (0 .. Repeat - 1) \X Operations
Rust == adapter_of.lang = "rust"
Database == adapter_of.case = "db"
Golden == IF Database THEN {1, 2} ELSE {1}

-----------------------------------------------------------------------------
(* The iterations of each task. *)

distribute(index) ==
    (Repeat \div Concurrency) + (IF index - 1 < Repeat % Concurrency THEN 1 ELSE 0)

First[index \in EdgeTasks] ==
    IF index = 1 THEN 0 ELSE First[index - 1] + distribute(index - 1)

-----------------------------------------------------------------------------
EdgeInit ==
    /\ adapter_of \in [lang : {"rust", "python"}, case : {"redis", "db"}]
    /\ stage = "setup" /\ holder = 0 /\ errors = 0 /\ terminal = {} /\ disturbed = FALSE
    /\ task = [t \in EdgeTasks |-> [at |-> "spawned", left |-> distribute(t),
                                    iteration |-> First[t], op |-> 1]]
    /\ stored \in SUBSET Golden       \* what an earlier trial left behind
    /\ completions = [k \in EdgeTokens |-> 0] /\ answered = [k \in EdgeTokens |-> 0]

\* Connect, delete the namespace, warm up; a failure ends the process.
EdgeSetup ==
    /\ stage = "setup"
    /\ \/ stage' = "work" /\ stored' = {} /\ disturbed' = disturbed
       \/ stage' = "exited" /\ stored' \in {stored, {}} /\ disturbed' = TRUE
    /\ UNCHANGED <<adapter_of, task, holder, completions, errors, terminal, answered>>

\* Barrier::wait of the Rust tasks: the last to arrive lets all go on.  asyncio's
\* tasks just start.
Starts(t) ==
    /\ stage = "work" /\ task[t].at = "spawned"
    /\ LET waiting == {s \in EdgeTasks : task[s].at = "barrier"}
           opens == ~Rust \/ waiting \union {t} = EdgeTasks
       IN task' = [s \in EdgeTasks |->
             IF s = t THEN [task[s] EXCEPT !.at = IF opens THEN "next" ELSE "barrier"]
             ELSE IF opens /\ s \in waiting THEN [task[s] EXCEPT !.at = "next"] ELSE task[s]]
    /\ UNCHANGED <<adapter_of, stage, holder, stored, completions, errors, terminal, answered,
                   disturbed>>

\* asyncpg's connection is kept for an iteration; the Semaphore's permit and the
\* connections of the other pools, for an operation.
KeepsConnection == ~Rust /\ Database

\* The task gets the connection and sends its next command.
Sends(t) ==
    /\ stage = "work" /\ task[t].at = "next" /\ task[t].left > 0 /\ holder \in {0, t}
    /\ holder' = t
    /\ task' = [task EXCEPT ![t].at = "sent"]
    /\ UNCHANGED <<adapter_of, stage, stored, completions, errors, terminal, answered, disturbed>>

-----------------------------------------------------------------------------
(* The end of an operation, and of an iteration. *)

Token(t) == <<task[t].iteration, task[t].op>>

\* Mutant: the connection is kept when an iteration fails.
StillHeld(t) == holder

\* An early return drops the permit, the context manager returns the connection.
Freed(t) == IF holder = t THEN 0 ELSE holder

NextOperation(t) == [task[t] EXCEPT !.at = "next", !.op = @ + 1]

NextIteration(t) == [at |-> "next", left |-> task[t].left - 1,
                     iteration |-> task[t].iteration + 1, op |-> 1]

\* What the failing iteration has completed is kept in Python, not in Rust.
IterationFails(t) ==
    /\ errors' = errors + 1 /\ holder' = Freed(t)
    /\ task' = [task EXCEPT ![t] = NextIteration(t)]
    /\ UNCHANGED <<adapter_of, stage, completions, terminal, answered>>

\* Rust appends the completions of an iteration at its end, Python each at once.
Completed(t) ==
    LET ended == IF ~Rust THEN {Token(t)}
                 ELSE IF task[t].op = 3 THEN {task[t].iteration} \X Operations ELSE {}
    IN [k \in EdgeTokens |-> completions[k] + IF k \in ended THEN 1 ELSE 0]

OperationEnds(t) ==
    /\ completions' = Completed(t)
    /\ task' = [task EXCEPT ![t] = IF task[t].op = 3 THEN NextIteration(t) ELSE NextOperation(t)]
    /\ holder' = IF KeepsConnection /\ task[t].op < 3 THEN t ELSE 0
    /\ UNCHANGED <<adapter_of, stage, terminal>>

-----------------------------------------------------------------------------
(* The command at the service. *)

Writes(t) == task[t].op = 1 \/ (Database /\ task[t].op = 2)
Effect(t) == IF Writes(t) THEN stored \union {task[t].op} ELSE stored

\* read_exposure sees both rows, get_latest_tick the tick; breaker_check, no key.
AsExpected(t) ==
    Writes(t) \/ (IF Database THEN stored = {1, 2} ELSE task[t].op = 2 => stored = {1})

Answers(t) ==
    /\ task[t].at = "sent" /\ AsExpected(t)
    /\ stored' = Effect(t)
    /\ answered' = [answered EXCEPT ![Token(t)] = @ + 1]
    /\ errors' = errors /\ disturbed' = disturbed
    /\ OperationEnds(t)

\* Mutant: another value than the expected one is let pass.
Tolerated == errors

MismatchCounts == errors + 1

\* Rust gives the iteration up; Python counts the error and goes on.
Mismatches(t) ==
    /\ task[t].at = "sent" /\ ~AsExpected(t)
    /\ stored' = stored /\ disturbed' = disturbed
    /\ \/ Rust /\ IterationFails(t)
       \/ ~Rust /\ errors' = MismatchCounts /\ OperationEnds(t) /\ answered' = answered

\* An error reply, a lost connection or, in asyncpg alone, command_timeout; the
\* command may have run.
CommandBreaks(t) ==
    /\ task[t].at = "sent"
    /\ stored' \in {stored, Effect(t)} /\ disturbed' = TRUE
    /\ IterationFails(t)

\* acquire_timeout of sqlx, the timeout of redis-py's pool; the Semaphore and
\* asyncpg's pool are waited for without one.
AcquireTimesOut(t) ==
    /\ task[t].at = "next" /\ task[t].left > 0 /\ holder \notin {0, t}
    /\ Rust <=> Database
    /\ stored' = stored /\ disturbed' = TRUE
    /\ IterationFails(t)

\* Another run of the benchmark uses the same namespace, and starts by deleting it.
Deleted ==
    /\ stage \in {"work", "collect"} /\ stored # {}
    /\ stored' = {} /\ disturbed' = TRUE
    /\ UNCHANGED <<adapter_of, stage, task, holder, completions, errors, terminal, answered>>

-----------------------------------------------------------------------------
(* The terminal state, read in two commands. *)

Joined == stage = "work" /\ \A t \in EdgeTasks : task[t].at = "next" /\ task[t].left = 0

\* GET, or the rows.  Rust counts the rows at once.
CollectFirst ==
    /\ Joined
    /\ terminal' = stored
    /\ stage' = IF Rust /\ Database /\ stored # Golden THEN "exited" ELSE "collect"
    /\ UNCHANGED <<adapter_of, task, holder, stored, completions, errors, answered, disturbed>>

\* TTL, or the exposure.  The rows are deleted.  The Rust adapter compares the
\* terminal state itself, and prints no result that differs; the Python adapter
\* fails on a row that it has not read.
CollectRest ==
    /\ stage = "collect"
    /\ terminal' = IF terminal = Golden /\ stored = Golden THEN Golden ELSE {}
    /\ stored' = IF Database THEN {} ELSE stored
    /\ LET fails == IF Rust THEN terminal' # Golden ELSE Database /\ terminal # Golden
       IN stage' = IF fails THEN "exited" ELSE "emitted"
    /\ UNCHANGED <<adapter_of, task, holder, completions, errors, answered, disturbed>>

\* A command of the collection fails, the deletion perhaps: no result.
CollectFails ==
    /\ Joined \/ stage = "collect"
    /\ stage' = "exited" /\ disturbed' = TRUE
    /\ stored' \in IF Database /\ stage = "collect" THEN {stored, {}} ELSE {stored}
    /\ UNCHANGED <<adapter_of, task, holder, completions, errors, terminal, answered>>

EdgeNext ==
    \/ EdgeSetup \/ CollectFirst \/ CollectRest \/ CollectFails \/ Deleted
    \/ \E t \in EdgeTasks :
        \/ Starts(t) \/ Sends(t) \/ Answers(t) \/ Mismatches(t) \/ CommandBreaks(t)
        \/ AcquireTimesOut(t)

\* What the runtime sees to: a task that can go on does, and a command of asyncpg
\* ends, if need be by its timeout.
EdgeRuns ==
    \E t \in EdgeTasks :
        \/ Starts(t) \/ Sends(t)
        \/ KeepsConnection /\ (Answers(t) \/ Mismatches(t) \/ CommandBreaks(t))

\* execute's checks of one output.  The sorted tokens are the expected ones when
\* each of those occurs once; an output that is not printed is not accepted.
Eligible ==
    /\ stage = "emitted" /\ \A k \in EdgeTokens : completions[k] = 1
    /\ errors = 0 /\ terminal = Golden

-----------------------------------------------------------------------------
\* The verdict on a trial is right, whatever the interleaving of its tasks and
\* whatever the service does: it counts exactly when every operation was answered
\* as expected once and the terminal state was read back, and the tasks never
\* spoil a trial that nothing from outside has disturbed.
VerdictIsRight ==
    stage \in {"emitted", "exited"} =>
        /\ Eligible <=> /\ \A k \in EdgeTokens : answered[k] = 1
                        /\ terminal = Golden /\ stage = "emitted"
        /\ ~disturbed => Eligible

\* The process has ended, with a result or without.
EdgeEnded == stage \in {"emitted", "exited"}

\* A command is outstanding that nothing but the service ends: sqlx, fred and
\* redis-py set no limit on one.
AwaitsService ==
    \/ stage \in {"setup", "collect"} \/ Joined
    \/ stage = "work" /\ ~KeepsConnection /\ \E t \in EdgeTasks : task[t].at = "sent"
=============================================================================
