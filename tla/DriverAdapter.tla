----------------------------- MODULE DriverAdapter -----------------------------
(***************************************************************************)
(* The benchmark adapter, core/apps/c_driver_adapter.c, on its database    *)
(* case: the PostgreSQL client of PgPipeline at depth 1, driven by one     *)
(* watch of the event loop.  It sends Total operations, in rounds of two   *)
(* upserts and a query that sums them up, one at a time, each only when    *)
(* the connection is idle, and has five seconds to connect and five to     *)
(* finish.                                                                 *)
(*                                                                         *)
(* The watch is seen as LwsRuntime describes it: a turn of the loop makes  *)
(* any number of ready calls, for reading always, for writing while the    *)
(* watch asks for it.                                                      *)
(***************************************************************************)
EXTENDS PgPipeline

CONSTANT Total     \* the operations of the trial, repeat * OP_COUNT

ASSUME TotalAssumption == Total \in Nat \ {0}
ASSUME DepthAssumption == Capacity = 1 /\ {"position", "exposure"} \subseteq Kinds

VARIABLES
    step,        \* "setup", "top" or "poll" of a loop, "ready", "close", "cleanup", "exit";
                 \* in AdapterCases also "closing" and "crashed"
    phase,       \* the loop: "wait" (wait_connection) or "drive"
    failed, inflight, submitted, completed,
    token,       \* adapter->token.index; the one token of every request
    measured,    \* indices whose latency_ns was recorded
    status,      \* what alpha_pg_service is about to return
    wants_write, \* what the watch asks for
    expired,     \* the deadline of the phase has passed
    ok           \* the result was emitted, main returns 0

progress == <<inflight, submitted, completed, token, measured>>
adapter == <<step, phase, failed, progress, status, wants_write, expired, ok>>
avars == <<vars, adapter>>

OP_COUNT == 3
Upsert(id) == (id - 1) % OP_COUNT < 2
KindOf(index) == IF index % OP_COUNT < 2 THEN "position" ELSE "exposure"

AdapterInit ==
    /\ Init
    /\ step = "setup" /\ phase = "wait"
    /\ failed = FALSE /\ inflight = FALSE /\ submitted = 0 /\ completed = 0
    /\ token = 0 /\ measured = {}
    /\ status = "ok" /\ wants_write = FALSE /\ expired = FALSE /\ ok = FALSE

\* Clear the namespace (pg_cleanup, blocking), start connecting, watch the socket;
\* each can fail.
Setup ==
    /\ step = "setup"
    /\ step' = "top"
    /\ \/ failed' = TRUE /\ UNCHANGED vars
       \/ alpha_pg_connect_start /\ failed' \in {state' = "FAILED", TRUE}
    /\ wants_write' = ~failed'
    /\ UNCHANGED <<phase, progress, status, expired, ok>>

WaitConnection ==
    /\ step = "top" /\ phase = "wait"
    /\ IF failed \/ state = "READY"
       THEN phase' = "drive" /\ expired' = FALSE /\ step' = step
       ELSE step' = "poll" /\ UNCHANGED <<phase, expired>>
    /\ UNCHANGED <<vars, failed, progress, status, wants_write, ok>>

-----------------------------------------------------------------------------
(* drive: submit when idle, then one turn of the event loop. *)

Running == step = "top" /\ phase = "drive" /\ ~failed /\ completed < Total

MaySubmit == ~inflight /\ alpha_pg_is_idle

WatchAfterSubmit == alpha_pg_wants_write'

\* Mutant: the token is taken after the submission was counted.
IndexAfterCount == submitted + 1

TokenIndex == submitted

\* The token is overwritten before the request is accepted or refused.  The
\* watch may have lost its wsi, or libwebsockets may fail to change it.
Submit ==
    /\ Running /\ MaySubmit
    /\ token' = TokenIndex
    /\ IF Accepts
       THEN /\ send_request(KindOf(submitted))
            /\ submitted' = submitted + 1 /\ inflight' = TRUE
            /\ \/ wants_write' = WatchAfterSubmit /\ failed' = FALSE /\ step' = "poll"
               \/ failed' = TRUE /\ wants_write' = wants_write /\ step' = step
       ELSE /\ failed' = TRUE /\ step' = step
            /\ UNCHANGED <<vars, submitted, inflight, wants_write>>
    /\ UNCHANGED <<phase, completed, measured, status, expired, ok>>

JustPoll ==
    /\ Running /\ ~MaySubmit
    /\ step' = "poll"
    /\ UNCHANGED <<vars, phase, failed, progress, status, wants_write, expired, ok>>

PollReturns ==
    /\ step = "poll"
    /\ step' = "top"
    /\ failed' = (failed \/ expired)
    /\ UNCHANGED <<vars, phase, progress, status, wants_write, expired, ok>>

-----------------------------------------------------------------------------
(* ready: one call of alpha_pg_service, then the watch is brought up to date. *)

\* The client's part of a call; status is what the service call will return.
Service(action, fails) ==
    /\ action
    /\ step' = "ready"
    /\ status' = IF fails THEN "error" ELSE status
    /\ UNCHANGED <<phase, failed, progress, wants_write, expired, ok>>

ReadyReadable ==
    /\ step = "poll" /\ pc = "loop"
    /\ \/ state = "READY" /\ Service(ServiceRead, FALSE)
       \/ connect_poll = "READING" /\ Service(service_connect, state' = "FAILED")
       \/ state = "CONNECTING" /\ connect_poll = "WRITING" /\ Service(UNCHANGED vars, FALSE)
       \/ state = "FAILED" /\ Service(UNCHANGED vars, TRUE)

\* PQflush failed when output is left and the connection is dead.
ReadyWritable ==
    /\ step = "poll" /\ pc = "loop" /\ wants_write
    /\ \/ state = "READY" /\ alpha_pg_wants_write
             /\ Service(ServiceWrite(FALSE), flush_pending' /\ ~alive)
       \/ state = "READY" /\ Service(ServiceSyncFails, TRUE)
       \/ state = "READY" /\ ~alpha_pg_wants_write /\ Service(UNCHANGED vars, FALSE)
       \/ connect_poll = "WRITING" /\ Service(service_connect, state' = "FAILED")
       \/ state = "CONNECTING" /\ connect_poll = "READING" /\ Service(UNCHANGED vars, FALSE)
       \/ state = "FAILED" /\ Service(UNCHANGED vars, TRUE)

Drains == step = "ready" /\ Service(Thread, state' = "FAILED" \/ (pc = "read" /\ conn' = "bad"))

\* pg_reply: the request succeeded, and an exposure is that of both upserts.
GoodReply ==
    LET reply == delivered[Len(delivered)]
    IN reply.ok /\ (Upsert(reply.id) \/ {1, 2} \subseteq txn \union committed)

\* finish_operation: no latency is recorded when the clock has not moved on.
Measurable(ticked) == ticked /\ token < Total

\* finish_operation, in the client's callback.
PgReply ==
    /\ step = "ready" /\ CallbackReturns
    /\ \E ticked \in BOOLEAN :
        LET good == GoodReply /\ Measurable(ticked)
        IN /\ failed' = (failed \/ ~good)
           /\ measured' = IF good THEN measured \union {token} ELSE measured
    /\ completed' = completed + 1 /\ inflight' = FALSE
    /\ UNCHANGED <<step, phase, submitted, token, status, wants_write, expired, ok>>

ReadyReturns ==
    /\ step = "ready" /\ pc = "loop"
    /\ step' = "poll" /\ status' = "ok"
    /\ \/ /\ status = "ok"
          /\ wants_write' = alpha_pg_wants_write /\ failed' = failed
       \/ /\ failed' = TRUE       \* the service call failed, or the watch lost its wsi
          /\ wants_write' = wants_write
    /\ UNCHANGED <<vars, phase, progress, expired, ok>>

-----------------------------------------------------------------------------
\* The rows the upserts gave back are their own; the count of answers.
terminal_matches_service ==
    /\ completed = Total
    /\ \A i \in DOMAIN delivered : Upsert(delivered[i].id) => delivered[i].res = delivered[i].id

Finish ==
    /\ step = "top" /\ phase = "drive" /\ (failed \/ completed >= Total)
    /\ step' = "close"
    /\ ok' = (~failed /\ terminal_matches_service)
    /\ UNCHANGED <<vars, phase, failed, progress, status, wants_write, expired>>

Close ==
    /\ step = "close"
    /\ IF state = "NONE" THEN UNCHANGED vars ELSE alpha_pg_close
    /\ step' = "cleanup"
    /\ UNCHANGED <<phase, failed, progress, status, wants_write, expired, ok>>

\* pg_cleanup again, over a connection of its own: the rows of the trial are
\* deleted, or it fails.
Cleanup ==
    /\ step = "cleanup"
    /\ committed' \in {committed, {}}
    /\ step' = "exit"
    /\ UNCHANGED <<pc, driver, libpq, net, ignoring, alive, txn, history>>
    /\ UNCHANGED <<phase, failed, progress, status, wants_write, expired, ok>>

Clock ==
    /\ ~expired /\ step \in {"top", "poll", "ready"}
    /\ expired' = TRUE
    /\ UNCHANGED <<vars, step, phase, failed, progress, status, wants_write, ok>>

\* No ServerFlushes: the one row a batch returns is far from filling the
\* server's output buffer, so it comes with the answer to the Sync.
World == ServerSteps \/ ServerTerminates \/ ServerCrashes

AdapterNext ==
    \/ Setup \/ WaitConnection \/ Submit \/ JustPoll \/ PollReturns
    \/ ReadyReadable \/ ReadyWritable \/ Drains \/ PgReply \/ ReadyReturns
    \/ Finish \/ Close \/ Cleanup \/ Clock
    \/ World /\ UNCHANGED adapter

-----------------------------------------------------------------------------
\* The type invariant of the adapter.
AdapterTypeOK ==
    /\ step \in {"setup", "top", "poll", "ready", "close", "cleanup", "closing", "exit", "crashed"}
    /\ phase \in {"wait", "drive"} /\ status \in {"ok", "error"}
    /\ {failed, inflight, wants_write, expired, ok} \subseteq BOOLEAN
    /\ submitted \in 0 .. Total /\ completed \in 0 .. Total
    /\ token \in 0 .. Total - 1 /\ measured \subseteq 0 .. Total - 1

\* One token serves every request in turn: whenever a reply is delivered it
\* still holds the index of the request the reply is for, and no request is
\* sent while another one waits for its reply.
TokenIsOfReply ==
    /\ AdapterTypeOK
    /\ pc = "callback" => token + 1 = delivered[Len(delivered)].id
    /\ submitted = completed + (IF inflight THEN 1 ELSE 0)

\* Whenever the loop sleeps, the watch asks for writing exactly when the client
\* wants to write: otherwise a request would wait for the deadline.
WatchMatchesClient ==
    step = "poll" /\ pc = "loop" /\ ~failed => wants_write = alpha_pg_wants_write

\* The client never refuses an operation the adapter is about to send, unless
\* the connection is known to be lost: waiting for idle covers every refusal.
NeverRefused == Running /\ MaySubmit => Accepts \/ conn = "bad"

\* An emitted result is true: every operation was measured, and every upsert
\* of the trial is committed in the database, until the adapter deletes it.
EmittedIsStored ==
    ok => /\ measured = 0 .. Total - 1
          /\ step # "exit" => \A id \in 1 .. Total : Upsert(id) => id \in committed

\* pg_cleanup waits for the database, without a timeout.
AwaitsDatabase == step \in {"setup", "cleanup"}
=============================================================================
