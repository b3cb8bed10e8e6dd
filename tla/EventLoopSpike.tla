---------------------------- MODULE EventLoopSpike ----------------------------
(***************************************************************************)
(* The feasibility spike, spike/event_loop/main.c: one thread that polls   *)
(* libpq, hiredis and libcurl once a millisecond until each of them has    *)
(* gone through its exchange, and then prints what it has seen.            *)
(*                                                                         *)
(* `pc' says where the thread is; in a tick `todo' holds the calls that    *)
(* the last poll has made due.  The libraries and their servers are        *)
(* external.  A use of a freed hiredis context ends the process (pc =      *)
(* "crashed"): its outcome is undefined, and no result counts after it.    *)
(***************************************************************************)
EXTENDS Integers, Sequences, Functions

CONSTANTS
    CurlSlots,     \* the length of curl_watches
    Sockets        \* bound: the socket numbers libcurl gets

ASSUME CurlSlotsAssumption == CurlSlots \in 1 .. 16

VARIABLES
    pc,            \* "setup", "loop", "tick", "exit", "crashed"
    todo,          \* the calls left in this tick
    scheduled,     \* the next tick is scheduled
    failed, expired,
    clean,         \* the result was printed with clean_shutdown true
    flags,         \* the evidence gathered: the names of the flags that are set
    pg_state, cmds, aborted, null_next, out, pg_sent, buffered, pg_socket, skipping, pg_alive,
    redis, generation, link, calls, obuf, re_sent, re_socket, re_alive,
    watches, want, slot, transfer,
    done,          \* history: what the servers did
    faulty         \* history: the parts that did not do what was asked of them

app == <<failed, expired, clean>>
pg == <<pg_state, cmds, aborted, null_next, out, pg_sent, buffered, pg_socket, skipping, pg_alive>>
hiredis == <<redis, generation, link, calls, obuf, re_sent, re_socket, re_alive>>
curl == <<watches, want, slot, transfer>>
vars == <<pc, todo, scheduled, app, flags, pg, hiredis, curl, done, faulty>>

-----------------------------------------------------------------------------
(* The request queue and the evidence. *)

QUEUE_CAPACITY == 4
Queue == [i \in 1 .. QUEUE_CAPACITY |-> [id |-> i, cancelled |-> i = 2]]

\* The flags exercise_queue sets; it is the whole of the queue's use.
exercise_queue ==
    (IF Len(Queue) = QUEUE_CAPACITY THEN {"backpressure"} ELSE {})
    \union (IF \E i \in DOMAIN Queue : Queue[i].cancelled THEN {"cancellation"} ELSE {})
    \union (IF \A i \in DOMAIN Queue : Queue[i].cancelled \/ Queue[i].id = i
            THEN {"request_match"} ELSE {})

Evidence ==
    {"pg_roundtrip", "pg_abort_seen", "pg_sync_seen", "pg_recovered",
     "redis_roundtrip", "redis_disconnect", "redis_recovered", "curl_roundtrip",
     "backpressure", "cancellation", "request_match"}

complete == Evidence \subseteq flags

-----------------------------------------------------------------------------
(* PostgreSQL: `cmds' is libpq's command queue, `out' what it has not sent *)
(* yet, `buffered' the answers it has read.                                *)

\* The head of todo is the call to make now.  A step of a server commutes with
\* all that the thread does for other parts, so it is taken where the thread is
\* about to look at its own part.
Due(call) == pc = "tick" /\ todo # <<>> /\ Head(todo) = call

\* Bound: one part fails in a behaviour.
MayFail == faulty = {}

Fail(part) == failed' = TRUE /\ faulty' = faulty \union {part}
NoFailure == UNCHANGED <<failed, faulty>>

\* The commands are queued, and reach the server at the next flush; that may fail
\* unless the connection is known to be alive.
Send(batch, state) ==
    \/ /\ pg_state' = state /\ cmds' = cmds \o batch /\ out' = out \o batch
       /\ NoFailure
    \/ ~pg_alive /\ Fail("pg") /\ UNCHANGED <<pg_state, cmds, out>>

pg_send_initial == Send(<<"one", "bad", "two", "sync">>, 2)

\* pg_ready while the connection is being established.
PgConnect ==
    /\ Due("pg_connect")
    /\ todo' = Tail(todo)
    /\ \/ NoFailure /\ UNCHANGED <<pg_state, cmds, out, pg_alive>>
       \/ pg_alive' = TRUE /\ pg_send_initial
       \/ MayFail /\ Fail("pg") /\ UNCHANGED <<pg_state, cmds, out, pg_alive>>
    /\ UNCHANGED <<pc, scheduled, expired, clean, flags, aborted, null_next, pg_sent, buffered,
                   pg_socket, skipping, hiredis, curl, done>>

\* PQflush, when the socket is writable; its result is not looked at.
PgFlush ==
    /\ Due("pg_flush")
    /\ todo' = Tail(todo)
    /\ pg_sent' = (IF pg_alive THEN pg_sent \o out ELSE pg_sent) /\ out' = <<>>
    /\ UNCHANGED <<pc, scheduled, app, flags, pg_state, cmds, aborted, null_next, buffered,
                   pg_socket, skipping, pg_alive, hiredis, curl, done, faulty>>

\* pg_drain: PQconsumeInput, which fails at the end of a broken connection ...
PgConsume ==
    /\ Due("pg_drain")
    /\ IF pg_socket = <<>> /\ ~pg_alive
       THEN Fail("pg") /\ todo' = Tail(todo)
       ELSE NoFailure /\ todo' = <<"pg_result">> \o Tail(todo)
    /\ buffered' = buffered \o pg_socket /\ pg_socket' = <<>>
    /\ UNCHANGED <<pc, scheduled, expired, clean, flags, pg_state, cmds, aborted, null_next, out,
                   pg_sent, skipping, pg_alive, hiredis, curl, done>>

\* ... and PQgetResult.  It answers NULL after each result but a sync, and when
\* nothing is queued; in an aborted pipeline it answers by itself.
Nothing == null_next \/ cmds = <<>>
Skips == aborted /\ Head(cmds) # "sync"
Result == IF Skips THEN "aborted" ELSE Head(buffered)

\* Mutant: any row counts as the answer to the recovery query.
SeenAnyRow(result) ==
    IF result \in {"row1", "row2", "row42"} THEN {"pg_roundtrip", "pg_recovered"}
    ELSE IF result = "sync" THEN {"pg_sync_seen"} ELSE {"pg_abort_seen"}

Seen(result) ==
    IF result \in {"error", "aborted"} THEN {"pg_abort_seen"}
    ELSE IF result = "sync" THEN {"pg_sync_seen"}
    ELSE IF pg_state = 2 THEN {"pg_roundtrip"}
    ELSE IF pg_state = 3 /\ result = "row42" THEN {"pg_recovered"} ELSE {}

\* Busy: the answer to the oldest command has not been read.
PgBusy ==
    /\ Due("pg_result") /\ ~Nothing /\ ~Skips /\ buffered = <<>>
    /\ todo' = Tail(todo)
    /\ UNCHANGED <<pc, scheduled, app, flags, pg, hiredis, curl, done, faulty>>

\* A NULL ends the call; the first one after the sync sends the recovery query.
PgNull ==
    /\ Due("pg_result") /\ Nothing
    /\ todo' = Tail(todo) /\ null_next' = FALSE
    /\ IF pg_state = 2 /\ "pg_sync_seen" \in flags
       THEN Send(<<"last", "sync">>, 3)
       ELSE NoFailure /\ UNCHANGED <<pg_state, cmds, out>>
    /\ UNCHANGED <<pc, scheduled, expired, clean, flags, aborted, pg_sent, buffered, pg_socket,
                   skipping, pg_alive, hiredis, curl, done>>

PgResult ==
    /\ Due("pg_result") /\ ~Nothing /\ (Skips \/ buffered # <<>>)
    /\ flags' = flags \union Seen(Result)
    /\ aborted' = (Result = "error" \/ Skips)
    /\ null_next' = (Result # "sync")
    /\ buffered' = IF Skips THEN buffered ELSE Tail(buffered)
    /\ cmds' = Tail(cmds)
    /\ UNCHANGED <<pc, todo, scheduled, app, pg_state, out, pg_sent, pg_socket, skipping, pg_alive,
                   hiredis, curl, done, faulty>>

Answers == [one |-> "row1", bad |-> "error", two |-> "row2", last |-> "row42", sync |-> "sync"]

\* The server answers what it has received; after an error it skips to the sync.
PgServer ==
    /\ Due("pg_drain") /\ pg_alive /\ pg_sent # <<>>
    /\ pg_sent' = Tail(pg_sent)
    /\ IF skipping /\ Head(pg_sent) # "sync"
       THEN done' = done \union {"skipped"} /\ UNCHANGED <<skipping, pg_socket>>
       ELSE LET answer == Answers[Head(pg_sent)]
            IN /\ done' = done \union {answer}
               /\ skipping' = (answer = "error")
               /\ pg_socket' = Append(pg_socket, answer)
    /\ UNCHANGED <<pc, todo, scheduled, app, flags, pg_state, cmds, aborted, null_next, out,
                   buffered, pg_alive, hiredis, curl, faulty>>

\* The connection breaks, with a last message for the command at work or none.
PgBreaks ==
    /\ Due("pg_drain") /\ MayFail /\ pg_alive
    /\ pg_alive' = FALSE /\ pg_sent' = <<>> /\ faulty' = faulty \union {"pg"}
    /\ pg_socket' \in {pg_socket, Append(pg_socket, "error")}
    /\ UNCHANGED <<pc, todo, scheduled, app, flags, pg_state, cmds, aborted, null_next, out,
                   buffered, skipping, hiredis, curl, done>>

-----------------------------------------------------------------------------
(* Redis: `redis' is app->redis, the number of the connection whose        *)
(* context it points to, 0 for NULL; `link' what became of each context;   *)
(* `calls' the commands hiredis owes an answer.                            *)

\* redisAsyncConnect may fail, and leaves the pointer as it is then.
start_redis(links, g, pointer) ==
    \/ /\ redis' = g /\ link' = [links EXCEPT ![g] = "connecting"]
       /\ re_alive' = TRUE /\ NoFailure
    \/ /\ redis' = pointer /\ link' = links
       /\ re_alive' = FALSE /\ MayFail /\ Fail("redis")

\* Mutant: the old context stays in use until the next one is there.
RestartLater(links) ==
    /\ generation' = 2 /\ redis' = redis /\ link' = links /\ re_alive' = FALSE /\ NoFailure

Restart(links) == generation' = 2 /\ start_redis(links, 2, 0)

Ends == generation = 1 /\ "redis_roundtrip" \in flags

\* hiredis calls back what is pending, reports the disconnect and frees the
\* context.  Only the planned disconnect is followed by a new connection;
\* otherwise the pointer stays.
Disconnect ==
    LET links == [link EXCEPT ![redis] = "freed"]
    IN /\ calls' = <<>> /\ obuf' = <<>> /\ re_sent' = <<>> /\ re_socket' = <<>>
       /\ IF Ends
          THEN flags' = flags \union {"redis_disconnect"} /\ Restart(links)
          ELSE /\ link' = links /\ re_alive' = FALSE
               /\ IF Range(calls) \subseteq {"SET"} THEN NoFailure ELSE Fail("redis")
               /\ UNCHANGED <<flags, redis, generation>>

Crash == pc' = "crashed" /\ todo' = <<>>

\* The calls of hiredis' handlers, guarded by the test of the pointer.
RedisSkipped ==
    /\ Due("redis_read") \/ Due("redis_write")
    /\ IF redis = 0 THEN pc' = pc /\ todo' = Tail(todo) ELSE link[redis] = "freed" /\ Crash
    /\ UNCHANGED <<scheduled, app, flags, pg, hiredis, curl, done, faulty>>

Commands == IF generation = 1 THEN <<"SET", "GET">> ELSE <<"PING">>

\* redis_connect_callback, from either handler, which goes on if it succeeded.
RedisConnect ==
    /\ Due("redis_read") \/ Due("redis_write")
    /\ redis # 0 /\ link[redis] = "connecting"
    /\ \/ todo' = Tail(todo) /\ NoFailure /\ UNCHANGED <<link, calls, obuf>>
       \/ /\ link' = [link EXCEPT ![redis] = "connected"]
          /\ calls' = Commands /\ obuf' = Commands
          /\ NoFailure /\ UNCHANGED todo
       \/ /\ link' = [link EXCEPT ![redis] = "freed"]
          /\ MayFail /\ Fail("redis") /\ todo' = Tail(todo) /\ UNCHANGED <<calls, obuf>>
    /\ UNCHANGED <<pc, scheduled, expired, clean, flags, pg, redis, generation, re_sent, re_socket,
                   re_alive, curl, done>>

Connected == redis # 0 /\ link[redis] = "connected"

\* redis_command_callback; the answer to SET is not looked at.
Noted(call, answer) ==
    IF generation = 1 /\ call = "GET" /\ answer = "alpha" THEN {"redis_roundtrip"}
    ELSE IF generation = 2 /\ call = "PING" /\ answer = "PONG" THEN {"redis_recovered"} ELSE {}

RedisReply ==
    /\ Due("redis_read") /\ Connected /\ re_socket # <<>>
    /\ flags' = flags \union Noted(Head(calls), Head(re_socket))
    /\ calls' = Tail(calls) /\ re_socket' = Tail(re_socket)
    /\ UNCHANGED <<pc, todo, scheduled, app, pg, redis, generation, link, obuf, re_sent, re_alive,
                   curl, done, faulty>>

\* No more answers: the planned disconnect, or the connection is found broken.
RedisReadEnds ==
    /\ Due("redis_read") /\ Connected /\ re_socket = <<>>
    /\ todo' = Tail(todo)
    /\ IF ~re_alive \/ (Ends /\ calls = <<>> /\ obuf = <<>>)
       THEN Disconnect
       ELSE UNCHANGED <<failed, faulty, flags, hiredis>>
    /\ UNCHANGED <<pc, scheduled, expired, clean, pg, curl, done>>

RedisWrite ==
    /\ Due("redis_write") /\ Connected
    /\ todo' = Tail(todo)
    /\ \/ /\ re_sent' = (IF re_alive THEN re_sent \o obuf ELSE <<>>) /\ obuf' = <<>>
          /\ UNCHANGED <<failed, faulty, flags, redis, generation, link, calls, re_socket, re_alive>>
       \/ ~re_alive /\ obuf # <<>> /\ Disconnect
    /\ UNCHANGED <<pc, scheduled, expired, clean, pg, curl, done>>

Good == [SET |-> "OK", GET |-> "alpha", PING |-> "PONG"]

RedisServer ==
    /\ Due("redis_read") /\ re_alive /\ re_sent # <<>>
    /\ re_sent' = Tail(re_sent)
    /\ \/ /\ re_socket' = Append(re_socket, Good[Head(re_sent)])
          /\ done' = done \union {Head(re_sent)} /\ UNCHANGED faulty
       \/ /\ MayFail /\ re_socket' = Append(re_socket, "other")
          /\ faulty' = faulty \union {"redis"} /\ UNCHANGED done
    /\ UNCHANGED <<pc, todo, scheduled, app, flags, pg, redis, generation, link, calls, obuf,
                   re_alive, curl>>

RedisBreaks ==
    /\ (Due("redis_read") \/ Due("redis_write")) /\ MayFail /\ re_alive
    /\ re_alive' = FALSE /\ re_sent' = <<>> /\ faulty' = faulty \union {"redis"}
    /\ re_socket' \in {re_socket, <<>>}
    /\ UNCHANGED <<pc, todo, scheduled, app, flags, pg, redis, generation, link, calls, obuf,
                   curl, done>>

-----------------------------------------------------------------------------
(* libcurl: `want' is what it last asked for each socket, `slot' the entry *)
(* of curl_watches assigned to it, 0 for none.                             *)

\* Mutant: the entry of a removed socket keeps its action.
RemoveKeepsAction(fd) ==
    /\ want[fd] # "none" /\ want' = [want EXCEPT ![fd] = "none"]
    /\ slot' = [slot EXCEPT ![fd] = 0] /\ UNCHANGED watches

PollRemove(fd) ==
    /\ want[fd] # "none"
    /\ want' = [want EXCEPT ![fd] = "none"]
    /\ watches' = [watches EXCEPT ![slot[fd]].action = "none"]
    /\ slot' = [slot EXCEPT ![fd] = 0]

\* libcurl asks for a socket it has not asked for, and there is no entry left:
\* the count of entries never goes down.
Full(fd) == transfer = "running" /\ slot[fd] = 0 /\ Len(watches) >= CurlSlots

PollSet(fd, what) ==
    /\ transfer = "running" /\ want[fd] # what /\ ~Full(fd)
    /\ want' = [want EXCEPT ![fd] = what]
    /\ IF slot[fd] # 0
       THEN watches' = [watches EXCEPT ![slot[fd]].action = what] /\ UNCHANGED slot
       ELSE /\ watches' = Append(watches, [fd |-> fd, action |-> what])
            /\ slot' = [slot EXCEPT ![fd] = Len(watches) + 1]

CurlActions == {"IN", "OUT", "INOUT"}

on_curl_socket(fd) == PollRemove(fd) \/ \E what \in CurlActions : PollSet(fd, what)

\* The calls of curl_action in a tick, one for each socket that is ready and one
\* for the timers: libcurl asks for sockets or ends the transfer in any of them.
CurlReturns ==
    /\ Due("curl") /\ todo' = Tail(todo)
    /\ UNCHANGED <<pc, scheduled, app, flags, pg, hiredis, curl, done, faulty>>

CurlAsks ==
    /\ Due("curl")
    /\ \E fd \in Sockets : on_curl_socket(fd)
    /\ UNCHANGED <<pc, todo, scheduled, app, flags, pg, hiredis, transfer, done, faulty>>

\* on_curl_socket answers -1; libcurl gives up, and so does curl_action.
CurlRefused ==
    /\ Due("curl") /\ todo' = Tail(todo)
    /\ \E fd \in Sockets : Full(fd)
    /\ transfer' = "over" /\ Fail("curl")
    /\ UNCHANGED <<pc, scheduled, expired, clean, flags, pg, hiredis, watches, want, slot, done>>

\* The transfer is over, and libcurl lets go of its sockets, or a call fails.
CurlEnds ==
    /\ Due("curl") /\ transfer = "running"
    /\ transfer' = "over"
    /\ want' = [fd \in Sockets |-> "none"] /\ slot' = [fd \in Sockets |-> 0]
    /\ watches' = [i \in DOMAIN watches |-> [watches[i] EXCEPT !.action = "none"]]
    /\ \/ /\ flags' = flags \union {"curl_roundtrip"} /\ done' = done \union {"http"}
          /\ NoFailure
       \/ MayFail /\ Fail("curl") /\ UNCHANGED <<flags, done>>
    /\ UNCHANGED <<pc, todo, scheduled, expired, clean, pg, hiredis>>

-----------------------------------------------------------------------------
(* main and service_tick. *)

\* setup: each library may refuse to start.  It ends with a first curl_action
\* and schedules the tick unless something failed, as a tick does.
Setup ==
    /\ pc = "setup"
    /\ \/ /\ pc' = "tick" /\ todo' = <<"curl">>
          /\ flags' = exercise_queue
          /\ generation' = 1 /\ redis' = 1 /\ link' = [link EXCEPT ![1] = "connecting"]
          /\ re_alive' = TRUE /\ NoFailure
       \/ /\ pc' = "exit" /\ \E part \in {"pg", "redis", "curl"} : Fail(part)
          /\ UNCHANGED <<todo, flags, redis, generation, link, re_alive>>
    /\ UNCHANGED <<scheduled, expired, clean, pg, calls, obuf, re_sent, re_socket, curl, done>>

\* Mutant: what libpq has queued is left to it.
PgCallsUnflushed == IF pg_state = 0 THEN <<"pg_connect">> ELSE <<"pg_drain">>

\* The calls of a tick.  A socket is polled for output always, so an established
\* connection is always ready; a call for what is not ready finds nothing to do.
PgCalls == IF pg_state = 0 THEN <<"pg_connect">> ELSE <<"pg_flush", "pg_drain">>

RedisCalls == IF redis = 0 THEN <<>> ELSE <<"redis_read", "redis_write">>

Active == {i \in DOMAIN watches : watches[i].action # "none"}

Running == ~failed /\ ~complete /\ ~expired

TickStarts ==
    /\ pc = "loop" /\ Running /\ scheduled
    /\ scheduled' = FALSE
    /\ IF redis # 0 /\ link[redis] = "freed"
       THEN Crash
       ELSE pc' = "tick" /\ todo' = PgCalls \o RedisCalls \o <<"curl">>
    /\ UNCHANGED <<app, flags, pg, hiredis, curl, done, faulty>>

\* The service call or poll fails, which ends the loop.
LoopFails ==
    /\ pc = "loop" /\ Running /\ MayFail
    /\ Fail("loop") /\ pc' = "exit"
    /\ UNCHANGED <<todo, scheduled, expired, clean, flags, pg, hiredis, curl, done>>

TickEnds ==
    /\ pc = "tick" /\ todo = <<>>
    /\ pc' = "loop" /\ scheduled' = (~complete /\ ~failed)
    /\ UNCHANGED <<todo, app, flags, pg, hiredis, curl, done, faulty>>

Expires ==
    /\ pc = "loop" /\ Running
    /\ expired' = TRUE
    /\ UNCHANGED <<pc, todo, scheduled, failed, clean, flags, pg, hiredis, curl, done, faulty>>

Exit ==
    /\ pc = "loop" /\ ~Running
    /\ pc' = "exit" /\ failed' = (failed \/ ~complete) /\ clean' = (complete /\ ~failed)
    /\ UNCHANGED <<todo, scheduled, expired, flags, pg, hiredis, curl, done, faulty>>

Ended == pc \in {"exit", "crashed"} /\ UNCHANGED vars

Init ==
    /\ pc = "setup" /\ todo = <<>> /\ scheduled = FALSE
    /\ failed = FALSE /\ expired = FALSE /\ clean = FALSE /\ flags = {}
    /\ pg_state = 0 /\ cmds = <<>> /\ aborted = FALSE /\ null_next = FALSE /\ out = <<>>
    /\ pg_sent = <<>> /\ buffered = <<>> /\ pg_socket = <<>> /\ skipping = FALSE /\ pg_alive = FALSE
    /\ redis = 0 /\ generation = 0 /\ link = [g \in 1 .. 2 |-> "none"] /\ calls = <<>> /\ obuf = <<>>
    /\ re_sent = <<>> /\ re_socket = <<>> /\ re_alive = FALSE
    /\ watches = <<>> /\ want = [fd \in Sockets |-> "none"] /\ slot = [fd \in Sockets |-> 0]
    /\ transfer = "running"
    /\ done = {} /\ faulty = {}

Thread ==
    \/ Setup \/ TickStarts \/ TickEnds \/ Exit
    \/ PgConnect \/ PgFlush \/ PgConsume \/ PgBusy \/ PgNull \/ PgResult
    \/ RedisSkipped \/ RedisConnect \/ RedisReply \/ RedisReadEnds \/ RedisWrite
    \/ CurlReturns \/ CurlAsks \/ CurlRefused \/ CurlEnds

Environment == PgServer \/ PgBreaks \/ RedisServer \/ RedisBreaks \/ LoopFails \/ Expires

Next == Thread \/ Environment \/ Ended

Spec == Init /\ [][Next]_vars

\* The thread runs, a call of libcurl returns, and what is asked of a server is
\* answered in the end: a connection is established or refused, a transfer ends.
FairSpec ==
    /\ Spec
    /\ WF_vars(Thread) /\ WF_vars(CurlReturns) /\ SF_vars(PgServer) /\ SF_vars(RedisServer)
    /\ SF_vars(PgConnect /\ (pg_state' # 0 \/ failed'))
    /\ SF_vars(RedisConnect /\ link' # link)
    /\ SF_vars(CurlEnds)

-----------------------------------------------------------------------------
(* Properties. *)

(* The type invariant of the state main, its libraries and the servers share. *)
TypeOK ==
    /\ pc \in {"setup", "loop", "tick", "exit", "crashed"}
    /\ flags \subseteq Evidence
    /\ pg_state \in {0, 2, 3} /\ redis \in 0 .. 2 /\ generation \in 0 .. 2
    /\ Len(watches) <= CurlSlots
    /\ \A i \in DOMAIN watches : watches[i] \in [fd : Sockets, action : {"none"} \union CurlActions]
    /\ todo \in Seq({"pg_connect", "pg_flush", "pg_drain", "pg_result", "redis_read",
                     "redis_write", "curl"})

(* A result printed with clean_shutdown true is evidence of what the       *)
(* servers did: the pipeline with the failing query ran, the command       *)
(* behind it was skipped and the query after it answered (pg_drain), the   *)
(* first Redis connection answered GET and was closed before the second    *)
(* answered PING (the Redis callbacks), and the transfer succeeded.        *)
EvidenceIsReal ==
    TypeOK /\ (clean =>
        /\ {"row1", "error", "skipped", "sync", "row42", "GET", "PING", "http"} \subseteq done
        /\ "row2" \notin done
        /\ link[1] = "freed" /\ generation = 2)

(* service_tick uses a freed hiredis context only after Redis itself       *)
(* failed: the planned disconnect inside redisAsyncHandleRead replaces the *)
(* pointer before the write handler of the same tick and the next poll     *)
(* read it.                                                                *)
NoStaleContext == pc = "crashed" => "redis" \in faulty

(* What service_tick polls is what libcurl last asked for: each socket it  *)
(* watches has one entry of curl_watches with that action, and an entry of *)
(* a removed socket, whose number the system may give out again, has none. *)
CurlPolledAsAsked ==
    \A fd \in Sockets :
        LET entries == {i \in Active : watches[i].fd = fd}
        IN IF want[fd] = "none" THEN entries = {}
           ELSE \E i \in Active : entries = {i} /\ watches[i].action = want[fd]

(* main's loop comes to an end: past the deadline the process ends         *)
(* whatever the servers do, and if nothing fails all the exchanges finish  *)
(* before it, although pg_drain leaves results behind at each NULL: the    *)
(* poll for output brings it back.                                         *)
SpikeConcludes ==
    /\ expired ~> pc \in {"exit", "crashed"}
    /\ <>(complete \/ faulty # {} \/ expired)
=============================================================================
