------------------------------ MODULE MCAdapters ------------------------------
(***************************************************************************)
(* The driver benchmark: a behaviour is a trial of the C adapter, on the   *)
(* database or on Redis, a trial of one of the concurrent adapters, or a   *)
(* matrix of trials with its evaluation.                                   *)
(***************************************************************************)
EXTENDS AdapterCases, EdgeAdapter, DriverMatrix

bvars == <<cvars, edge, matrix>>

BenchInit ==
    /\ kind \in {"db", "redis", "edge", "matrix"}
    /\ AdapterInit /\ Redis!Init /\ EdgeInit /\ MatrixInit
    /\ kind # "edge" => adapter_of = [lang |-> "rust", case |-> "db"] /\ stored = {}

BenchNext ==
    \/ CasesNext /\ UNCHANGED <<edge, matrix>>
    \/ kind = "edge" /\ EdgeNext /\ UNCHANGED <<cvars, matrix>>
    \/ kind = "matrix" /\ MatrixNext /\ UNCHANGED <<cvars, edge>>

\* Besides the C adapter's thread: a runtime runs the tasks that can go on, and the
\* orchestrator runs on.  No service, and no trial, has to answer.
BenchSpec ==
    /\ BenchInit /\ [][BenchNext]_bvars
    /\ CasesFairness
    /\ WF_edge(kind = "edge" /\ EdgeRuns)
    /\ WF_matrix(kind = "matrix" /\ (Begins \/ Publishes \/ Evaluates))

\* A result counts only if it is true: one the C adapter emits (emit), and one
\* of the concurrent adapters that execute accepts.
TrialIsTrue == EmittedIsTrue /\ VerdictIsRight

\* Whatever the services and the network do, a part of the benchmark ends or hangs
\* in one of the calls that wait for a service without a limit: the C adapter's
\* loops always end, by their deadlines if need be, on Redis so does the process;
\* a task of the concurrent adapters never waits at the barrier or for the
\* connection unless some command is outstanding, and asyncpg's tasks never; the
\* matrix only ever waits for a trial.
HangsOnlyInServices ==
    <>[](\/ kind = "db" /\ (AdapterEnded \/ AwaitsDatabase)
         \/ kind = "redis" /\ AdapterEnded
         \/ kind = "edge" /\ (EdgeEnded \/ AwaitsService)
         \/ kind = "matrix" /\ (MatrixEnded \/ AwaitsTrial))
=============================================================================
