------------------------------ MODULE AdapterCases ------------------------------
(***************************************************************************)
(* The benchmark adapter with both its cases: the database case of         *)
(* DriverAdapter, or the same loop over the Redis client of RedisAsync     *)
(* with a SET, a GET and an EXISTS a round.                                *)
(*                                                                         *)
(* The Redis client calls back into the adapter: for what it waits for     *)
(* (redis_watch), for the connection (redis_connect) and for each answer   *)
(* (redis_reply).  A use of a context that hiredis has freed has an        *)
(* undefined outcome, and may end the process (step "crashed").            *)
(***************************************************************************)
EXTENDS DriverAdapter

VARIABLES
    kind,       \* "redis" or "db"
    r_pc, r_ret, context, watch, pending, hi, flag, replies, obuf, wire, inbox, r_arrived, r_alive,
    told, r_issued, connects, r_delivered

Redis == INSTANCE RedisAsync
    WITH MaxPending <- 2, MaxCommands <- Total, MaxConnects <- 1,
         pc <- r_pc, ret <- r_ret, arrived <- r_arrived, alive <- r_alive, issued <- r_issued,
         delivered <- r_delivered

client == <<r_pc, r_ret, context, watch, pending, hi, flag, replies, obuf, wire, inbox, r_arrived,
            r_alive, told, r_issued, connects, r_delivered>>
cvars == <<avars, kind, client>>

\* hiredis has freed the context, and the client still points to it.
Dangling == context = "set" /\ hi = "none"

-----------------------------------------------------------------------------
(* The callbacks. *)

\* Mutant: a change of what the client waits for is not passed on.
WatchStays == wants_write

\* redis_watch: no interest at all is not passed on.
redis_watch == IF watch' = {} THEN wants_write ELSE "WRITE" \in watch'

\* redis_reply with finish_operation, redis_connect and redis_watch, in a step of
\* the client that makes them.  The watch may have lost its wsi.
Heard ==
    LET replied == r_delivered' # r_delivered
        well == replied /\ r_delivered'[Len(r_delivered')].ok
    IN \E good \in {well /\ Measurable(ticked) : ticked \in BOOLEAN} :
       /\ completed' = IF replied THEN completed + 1 ELSE completed
       /\ inflight' = (inflight /\ ~replied)
       /\ measured' = IF good THEN measured \union {token} ELSE measured
       /\ \/ /\ failed' = (failed \/ (replied /\ ~good) \/ told' = "ERR_IO")
             /\ wants_write' = redis_watch
          \/ /\ watch' # watch /\ failed' = TRUE
             /\ wants_write' = wants_write

\* A step of the client, and where the adapter goes on.
Client(action, next) ==
    /\ action
    /\ Heard
    /\ step' = next
    /\ UNCHANGED <<vars, phase, submitted, token, status, expired, ok>>

-----------------------------------------------------------------------------
(* The loop of the Redis case. *)

RedisSetup ==
    /\ step = "setup"
    /\ Redis!alpha_redis_async_connect
    /\ step' = "top"
    /\ \/ failed' = (context' # "set") /\ wants_write' = redis_watch
       \/ failed' = TRUE /\ wants_write' = wants_write
    /\ UNCHANGED <<vars, phase, progress, status, expired, ok>>

RedisWait ==
    /\ step = "top" /\ phase = "wait"
    /\ IF failed \/ told = "OK"
       THEN phase' = "drive" /\ expired' = FALSE /\ step' = step
       ELSE step' = "poll" /\ UNCHANGED <<phase, expired>>
    /\ UNCHANGED <<vars, client, failed, progress, status, wants_write, ok>>

RedisSubmit ==
    /\ Running /\ ~inflight
    /\ token' = TokenIndex
    /\ IF Redis!Accepts
       THEN /\ Redis!alpha_redis_async_command
            /\ submitted' = submitted + 1 /\ inflight' = TRUE
            /\ \/ wants_write' = redis_watch /\ failed' = FALSE
               \/ failed' = TRUE /\ wants_write' = wants_write
            /\ step' = "poll"
       ELSE /\ failed' = TRUE /\ step' = step
            /\ UNCHANGED <<client, submitted, inflight, wants_write>>
    /\ UNCHANGED <<vars, phase, completed, measured, status, expired, ok>>

RedisPoll ==
    /\ Running /\ inflight
    /\ step' = "poll"
    /\ UNCHANGED <<vars, client, phase, failed, progress, status, wants_write, expired, ok>>

\* ready: the watch's readiness goes to the client, and the timer to its timeout.
RedisReady ==
    /\ step = "poll" /\ r_pc = "loop" /\ ~Dangling
    /\ \/ Client(Redis!ServiceRead, "ready")
       \/ wants_write /\ Client(Redis!ServiceWrite, "ready")
       \/ \E next \in {"read", "write"} :
            /\ next = "write" => wants_write
            /\ Client(Redis!ConnectSucceeds(next), "ready")
       \/ Client(Redis!ConnectFails("disconnect"), "ready")
       \/ Client(Redis!alpha_redis_async_timeout, "ready")

RedisRuns ==
    /\ step \in {"ready", "closing"}
    /\ Client(Redis!Hiredis \/ Redis!CallbackReturns
              \/ (r_pc = "read" /\ Redis!ServiceRead) \/ (r_pc = "write" /\ Redis!ServiceWrite), step)

\* The service call reports the loss of the context, which redis_connect has
\* reported already.
RedisReturns ==
    /\ step = "ready" /\ r_pc = "loop"
    /\ step' = "poll"
    /\ UNCHANGED <<vars, client, phase, failed, progress, status, wants_write, expired, ok>>

\* After a failed attempt to connect the client uses the freed context once
\* more, in the same turn of the loop or when it is closed.
UsesFreed ==
    /\ Dangling /\ step \in {"poll", "close"}
    /\ step' = "crashed"
    /\ UNCHANGED <<vars, client, phase, failed, progress, status, wants_write, expired, ok>>

\* Closing answers what is still in flight, after the result was emitted.
RedisClose ==
    /\ step = "close" /\ r_pc = "loop" /\ ~Dangling
    /\ Client(Redis!alpha_redis_async_close, "closing")

RedisExit ==
    /\ \/ step \in {"close", "closing"} /\ r_pc = "closed"
       \/ step = "close" /\ Dangling
    /\ step' = "exit"
    /\ UNCHANGED <<vars, client, phase, failed, progress, status, wants_write, expired, ok>>

-----------------------------------------------------------------------------
Peer == (Redis!ServerAnswers \/ Redis!ConnectionBreaks) /\ UNCHANGED avars

RedisThread ==
    \/ RedisSetup \/ RedisWait \/ RedisSubmit \/ RedisPoll \/ RedisClose \/ RedisExit \/ UsesFreed
    \/ RedisRuns \/ RedisReturns

RedisNext ==
    \/ RedisThread \/ RedisReady \/ Peer
    \/ (PollReturns \/ Finish \/ Clock) /\ UNCHANGED client

CasesNext ==
    /\ UNCHANGED kind
    /\ \/ kind = "db" /\ AdapterNext /\ UNCHANGED client
       \/ kind = "redis" /\ RedisNext

\* The one thread runs on, a turn of the loop ends, and time passes.  Nothing is
\* assumed of the server or the network: pg_cleanup, in Setup and Cleanup, may
\* wait for them forever.
CasesFairness ==
    /\ WF_cvars(kind = "db" /\ UNCHANGED <<kind, client>>
                /\ (WaitConnection \/ Submit \/ JustPoll \/ Finish \/ Close))
    /\ WF_cvars(kind = "db" /\ UNCHANGED <<kind, client>> /\ (Drains \/ PgReply \/ ReadyReturns))
    /\ WF_cvars(kind = "redis" /\ UNCHANGED kind /\ (RedisThread \/ (Finish /\ UNCHANGED client)))
    /\ SF_cvars(PollReturns /\ UNCHANGED <<kind, client>>)
    /\ WF_cvars(Clock /\ UNCHANGED <<kind, client>>)

-----------------------------------------------------------------------------
\* One token serves every request in turn: a latency is recorded only for an
\* operation that was answered well, and for each unless the adapter has failed;
\* no operation is sent while another
\* waits for its answer, and the client never refuses one that the adapter is
\* about to send unless the connection is known to be lost.
EachReplyMeasuresItsOperation ==
    /\ AdapterTypeOK
    /\ kind = "db" => TokenIsOfReply /\ NeverRefused
    /\ kind = "redis" /\ step # "closing" /\ step # "exit" =>
         /\ LET well == {r_delivered[i].id - 1 : i \in {j \in DOMAIN r_delivered : r_delivered[j].ok}}
            IN measured \subseteq well /\ (~failed => measured = well)
         /\ submitted = completed + (IF inflight THEN 1 ELSE 0)
         /\ Running /\ ~inflight => Redis!Accepts

\* Whenever the loop sleeps, the watch asks for writing exactly when the client
\* wants to write: otherwise an operation would wait for the deadline.
WatchFollowsClient ==
    /\ kind = "db" => WatchMatchesClient
    /\ kind = "redis" /\ step = "poll" /\ r_pc = "loop" /\ ~failed =>
         wants_write = ("WRITE" \in watch) /\ (obuf # <<>> => wants_write)

\* An emitted result is true: every operation was answered well before the
\* result was written, and every upsert of the trial is committed.
EmittedIsTrue ==
    ok => /\ measured = 0 .. Total - 1
          /\ kind = "db" => EmittedIsStored
          /\ kind = "redis" =>
               \A id \in 1 .. Total : \E i \in DOMAIN r_delivered :
                   r_delivered[i] = [id |-> id, ok |-> TRUE, res |-> id]

\* The process has ended; that it ends by a use of the freed context takes a
\* failed attempt to connect.
AdapterEnded == step = "exit" \/ (step = "crashed" /\ told = "ERR_IO" /\ ~ok)
=============================================================================
