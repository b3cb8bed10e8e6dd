------------------------------ MODULE RedisAsync ------------------------------
(***************************************************************************)
(* The hiredis-async adapter, core/platform/cache/redis_async.c.           *)
(*                                                                         *)
(* Everything runs on the owner's thread: `pc' says where it is, and       *)
(* `ret' where hiredis goes on when a callback into the owner returns.     *)
(* hiredis, its connection and the server are external.  `hi' is the       *)
(* connection of hiredis' context, "none" when no context is allocated,    *)
(* and `flag' the REDIS_DISCONNECTING or REDIS_FREEING of the context.     *)
(* `replies' is its queue of callbacks, `obuf' the commands not written,   *)
(* `wire' those the server has not processed, `inbox' the answers, whose   *)
(* first `arrived' ones are in the reader's buffer.                        *)
(***************************************************************************)
EXTENDS Integers, Sequences

CONSTANTS
    MaxPending,   \* ALPHA_REDIS_ASYNC_MAX_PENDING
    MaxCommands,  \* bound: commands accepted in a behaviour
    MaxConnects   \* bound: connections started in a behaviour

ASSUME MaxPendingAssumption == MaxPending \in Nat \ {0}
ASSUME MaxCommandsAssumption == MaxCommands \in Nat
ASSUME MaxConnectsAssumption == MaxConnects \in Nat

VARIABLES
    pc, ret,
    context,      \* redis->context: "NULL" or "set"
    watch,        \* redis->watch, as last published to watch_fn
    pending,
    hi, flag, replies,
    obuf, wire, inbox, arrived,
    alive,        \* the peer keeps the connection open
    told,         \* what connect_fn was last told
    issued,       \* number of commands accepted; they are numbered from 1
    connects,     \* number of connections started
    delivered     \* history of reply_fn calls

adapter == <<context, watch, pending>>
hiredis == <<hi, flag, replies>>
net == <<obuf, wire, inbox, arrived, alive>>
history == <<told, issued, connects, delivered>>
vars == <<pc, ret, adapter, hiredis, net, history>>

-----------------------------------------------------------------------------
(* hiredis calls back into the adapter, which calls its owner. *)

\* The owner's code runs, then hiredis goes on at r.
CallOwner(r) == pc' = "callback" /\ ret' = r

\* A REDIS_REPLY_ERROR is reported as ALPHA_ERR_IO, and so is a NULL reply.
Reply == [id : Nat, error : BOOLEAN]
NullReply == [id |-> 0, error |-> TRUE]

\* Mutant: a command that gets no reply is not counted off.
PendingAfterAnswer(r) == IF r.error THEN pending ELSE pending - 1

PendingAfter(r) == IF pending > 0 THEN pending - 1 ELSE pending

\* hiredis shifts the oldest callback and runs it with the reply r.
replied(r, back) ==
    /\ replies' = Tail(replies)
    /\ pending' = PendingAfter(r)
    /\ delivered' = Append(delivered, [id |-> Head(replies), ok |-> ~r.error, res |-> r.id])
    /\ CallOwner(back)

\* Mutant: the owner does not hear of a lost connection.
DisconnectedQuietly == context' = "NULL" /\ watch' = {} /\ told' = told

disconnected == context' = "NULL" /\ watch' = {} /\ told' = "ERR_IO"

\* Mutant: the interest in writing is not published.
AddWriteLost(w) == w

add_write(w) == w \union {"WRITE"}
del_write(w) == w \ {"WRITE"}
add_read(w) == w \union {"READ"}
cleanup == {}

-----------------------------------------------------------------------------
(* The owner's calls.  In a callback the owner may submit and reconnect. *)

Init ==
    /\ pc = "new" /\ ret = "loop"
    /\ context = "NULL" /\ watch = {} /\ pending = 0
    /\ hi = "none" /\ flag = "none" /\ replies = <<>>
    /\ obuf = <<>> /\ wire = <<>> /\ inbox = <<>> /\ arrived = 0 /\ alive = FALSE
    /\ told = "nothing" /\ issued = 0 /\ connects = 0 /\ delivered = <<>>

\* Setting the connect callback asks for write readiness.  A connection that
\* cannot even be started leaves no context.
start_connection ==
    /\ connects < MaxConnects
    /\ connects' = connects + 1
    /\ \/ /\ context' = "set" /\ hi' = "connecting" /\ flag' = "none"
          /\ watch' = add_write(watch)
          /\ alive' = TRUE
       \/ UNCHANGED <<context, hi, flag, watch, alive>>
    /\ UNCHANGED <<ret, pending, replies, obuf, wire, inbox, arrived, told, issued, delivered>>

\* No handle is returned when the first connection cannot be started.
alpha_redis_async_connect ==
    /\ pc = "new"
    /\ start_connection
    /\ pc' = IF context' = "set" THEN "loop" ELSE "closed"

\* The owner does not reconnect a handle it is closing.
alpha_redis_async_reconnect ==
    /\ pc = "loop" \/ (pc = "callback" /\ ret # "closed")
    /\ context = "NULL"
    /\ start_connection
    /\ pc' = pc

\* Mutant: one command too many.
AcceptsOneMore == context = "set" /\ pending <= MaxPending /\ flag = "none"

\* Otherwise ALPHA_ERR_INVALID_ARG, _RANGE or _IO, and nothing changes: hiredis
\* refuses commands on a context that is disconnecting or being freed.
Accepts == context = "set" /\ pending < MaxPending /\ flag = "none"

\* Also from the typed helpers set_latest_tick and get_latest_tick.
alpha_redis_async_command ==
    /\ pc \in {"loop", "callback"}
    /\ hi # "none"
    /\ Accepts
    /\ issued < MaxCommands
    /\ issued' = issued + 1
    /\ replies' = Append(replies, issued + 1)
    /\ obuf' = Append(obuf, issued + 1)
    /\ watch' = add_write(watch)
    /\ pending' = pending + 1
    /\ UNCHANGED <<pc, ret, context, hi, flag, wire, inbox, arrived, alive, told, connects, delivered>>

CallbackReturns ==
    /\ pc = "callback"
    /\ pc' = ret
    /\ UNCHANGED <<ret, adapter, hiredis, net, history>>

\* redisAsyncFree, unless the connection is gone already.
alpha_redis_async_close ==
    /\ pc = "loop"
    /\ context = "set" => hi # "none"
    /\ IF context = "set" THEN pc' = "drop" /\ flag' = "FREEING"
                          ELSE pc' = "closed" /\ flag' = flag
    /\ UNCHANGED <<ret, adapter, hi, replies, net, history>>

-----------------------------------------------------------------------------
(* alpha_redis_async_service: redisAsyncHandleRead, redisAsyncHandleWrite. *)

\* The handshake is over.  A server that has too many clients answers without
\* being asked, with an error, and hangs up.
ConnectSucceeds(next) ==
    /\ pc = "loop" /\ hi = "connecting"
    /\ hi' = "connected" /\ told' = "OK"
    /\ \/ alive' = alive /\ inbox' = inbox
       \/ alive' = FALSE /\ inbox' = <<NullReply>>
    /\ CallOwner(next)
    /\ UNCHANGED <<adapter, flag, replies, obuf, wire, arrived, issued, connects, delivered>>

\* A refused or broken connection attempt, also through the timer.
ConnectFails(next) ==
    /\ pc = "loop" /\ hi = "connecting"
    /\ told' = "ERR_IO"
    /\ CallOwner(next)
    /\ UNCHANGED <<adapter, hiredis, net, issued, connects, delivered>>

\* redisAsyncHandleTimeout ends a connection attempt and calls the callbacks
\* itself; on an established connection without a command timeout it is void.
alpha_redis_async_timeout == ConnectFails("timeout")

TimeoutReply ==
    /\ pc = "timeout"
    /\ IF replies # <<>>
       THEN replied(NullReply, "timeout")
       ELSE pc' = "disconnect" /\ UNCHANGED <<ret, replies, pending, delivered>>
    /\ UNCHANGED <<context, watch, hi, flag, net, told, issued, connects>>

\* Read what has arrived; fail at the end of a closed connection's data.
ServiceRead ==
    /\ pc \in {"loop", "read"} /\ hi = "connected"
    /\ \/ /\ alive \/ arrived < Len(inbox)
          /\ arrived' \in arrived .. Len(inbox)
          /\ arrived < Len(inbox) => arrived < arrived'
          /\ watch' = add_read(watch)
          /\ pc' = "process"
       \/ /\ ~alive /\ arrived = Len(inbox)
          /\ pc' = "disconnect"
          /\ UNCHANGED <<arrived, watch>>
    /\ UNCHANGED <<ret, context, pending, hiredis, obuf, wire, inbox, alive, history>>

\* Write what fits; a closed connection swallows it or fails.
ServiceWrite ==
    /\ pc \in {"loop", "write"} /\ hi = "connected"
    /\ \/ \E k \in 0 .. Len(obuf) :
            /\ wire' = wire \o SubSeq(obuf, 1, k)
            /\ obuf' = SubSeq(obuf, k + 1, Len(obuf))
            /\ watch' = add_read(IF k = Len(obuf) THEN del_write(watch) ELSE add_write(watch))
            /\ pc' = "loop"
       \/ /\ ~alive /\ obuf # <<>>
          /\ pc' = "disconnect"
          /\ UNCHANGED <<wire, obuf, watch>>
    /\ UNCHANGED <<ret, context, pending, hiredis, inbox, arrived, alive, history>>

\* redisProcessCallbacks, one reply a step.  An answer nobody asked for ends
\* the connection.
Process ==
    /\ pc = "process"
    /\ IF arrived = 0
       THEN pc' = "loop" /\ UNCHANGED <<ret, replies, pending, inbox, arrived, delivered>>
       ELSE /\ inbox' = Tail(inbox) /\ arrived' = arrived - 1
            /\ IF replies # <<>>
               THEN replied(Head(inbox), "process")
               ELSE pc' = "disconnect" /\ UNCHANGED <<ret, replies, pending, delivered>>
    /\ UNCHANGED <<context, watch, hi, flag, obuf, wire, alive, told, issued, connects>>

\* __redisAsyncDisconnect after an error.
Disconnect ==
    /\ pc = "disconnect"
    /\ flag' = "DISCONNECTING" /\ watch' = cleanup /\ pc' = "drop"
    /\ UNCHANGED <<ret, context, pending, hi, replies, net, history>>

\* __redisAsyncFree: the callbacks that are left get a NULL reply ...
DropReply ==
    /\ pc = "drop" /\ replies # <<>>
    /\ replied(NullReply, "drop")
    /\ UNCHANGED <<context, watch, hi, flag, net, told, issued, connects>>

\* ... and the disconnect callback runs if the connection had been established.
DropContext ==
    /\ pc = "drop" /\ replies = <<>>
    /\ LET next == IF flag = "FREEING" THEN "closed" ELSE "loop"
       IN IF hi = "connected"
          THEN disconnected /\ CallOwner(next)
          ELSE /\ watch' = cleanup /\ pc' = next
               /\ UNCHANGED <<context, told, ret>>
    /\ hi' = "none" /\ flag' = "none"
    /\ obuf' = <<>> /\ wire' = <<>> /\ inbox' = <<>> /\ arrived' = 0 /\ alive' = FALSE
    /\ UNCHANGED <<pending, replies, issued, connects, delivered>>

-----------------------------------------------------------------------------
(* The server (external) answers in order; the connection may break. *)

ServerAnswers ==
    /\ alive /\ wire # <<>>
    /\ wire' = Tail(wire)
    /\ \E error \in BOOLEAN : inbox' = Append(inbox, [id |-> Head(wire), error |-> error])
    /\ UNCHANGED <<pc, ret, adapter, hiredis, obuf, arrived, alive, history>>

ConnectionBreaks ==
    /\ alive /\ hi = "connected"
    /\ alive' = FALSE
    /\ \E k \in arrived .. Len(inbox) : inbox' = SubSeq(inbox, 1, k)
    /\ UNCHANGED <<pc, ret, adapter, hiredis, obuf, wire, arrived, history>>

-----------------------------------------------------------------------------
Hiredis == TimeoutReply \/ Process \/ Disconnect \/ DropReply \/ DropContext
Connects == \E next \in {"read", "write"} : ConnectSucceeds(next)

Next ==
    \/ alpha_redis_async_connect \/ alpha_redis_async_reconnect
    \/ alpha_redis_async_command \/ alpha_redis_async_close
    \/ CallbackReturns
    \/ Connects \/ ConnectFails("disconnect") \/ alpha_redis_async_timeout
    \/ ServiceRead \/ ServiceWrite \/ Hiredis
    \/ ServerAnswers \/ ConnectionBreaks

Spec == Init /\ [][Next]_vars

\* The thread runs and callbacks return; an attempt to connect ends; a socket
\* that is ready and watched is served; a living server answers.
Fairness ==
    /\ WF_vars(Hiredis) /\ WF_vars(CallbackReturns)
    /\ WF_vars("WRITE" \in watch /\ (Connects \/ ConnectFails("disconnect")))
    /\ WF_vars(pc = "read" /\ ServiceRead) /\ WF_vars(pc = "write" /\ ServiceWrite)
    /\ SF_vars("WRITE" \in watch /\ ServiceWrite /\ obuf' = <<>>)
    /\ SF_vars("READ" \in watch /\ ServiceRead /\ (arrived < Len(inbox) \/ ~alive))
    /\ WF_vars(ServerAnswers)

FairSpec == Spec /\ Fairness

-----------------------------------------------------------------------------
\* The type invariant of the adapter, hiredis and the connection.
TypeOK ==
    /\ pc \in {"new", "loop", "callback", "read", "write", "process", "timeout",
               "disconnect", "drop", "closed"}
    /\ ret \in {"loop", "read", "write", "process", "timeout", "disconnect", "drop", "closed"}
    /\ context \in {"NULL", "set"} /\ watch \subseteq {"READ", "WRITE"}
    /\ pending \in 0 .. MaxPending
    /\ hi \in {"none", "connecting", "connected"}
    /\ flag \in {"none", "DISCONNECTING", "FREEING"}
    /\ replies \in Seq(Nat) /\ obuf \in Seq(Nat) /\ wire \in Seq(Nat)
    /\ inbox \in Seq(Reply) /\ arrived \in 0 .. Len(inbox) /\ alive \in BOOLEAN
    /\ told \in {"nothing", "OK", "ERR_IO"}
    /\ issued \in 0 .. MaxCommands /\ connects \in 0 .. MaxConnects
    /\ delivered \in Seq([id : Nat, ok : BOOLEAN, res : Nat])

\* "Bound outstanding ownership": the count that bounds the commands in flight
\* is the number of callbacks hiredis owes, through errors and reconnects.
PendingExact == TypeOK /\ pending = Len(replies)

\* The adapter is a bounded FIFO of commands: every callback is for the oldest
\* one, and a success carries the server's answer to that command, whatever
\* connection it was sent on.
Fifo == INSTANCE RequestFifo WITH Bound <- MaxPending, queue <- replies, done <- delivered
RefinesFifo == Fifo!Spec

\* Between two calls the owner's loop watches what hiredis waits for, and
\* nothing once the connection is gone.
WatchesWhatIsAwaited ==
    pc = "loop" =>
        /\ hi = "connecting" \/ obuf # <<>> => "WRITE" \in watch
        /\ hi = "connected" /\ replies # <<>> /\ obuf = <<>> => "READ" \in watch
        /\ hi = "none" => watch = {}

\* The owner knows the state of the connection, and by the time it hears of a
\* loss every command of that connection has been called back.
OwnerInformed ==
    pc = "loop" =>
        /\ hi = "connected" => told = "OK"
        /\ hi = "none" => told = "ERR_IO" /\ replies = <<>>

\* Between two calls the owner and the handle agree on the connection: what is
\* watched (add_write, cleanup) and what the owner was told (disconnected).
OwnerIsInStep == WatchesWhatIsAwaited /\ OwnerInformed

\* "The adapter must never dereference that context afterward": when hiredis has
\* freed the context the handle does not point at it, and can be reconnected.
ContextIsLive == pc = "loop" /\ context = "set" => hi # "none"

\* Every accepted command is called back; closing the handle calls them too.
CommandsComplete == \A n \in 1 .. MaxCommands : issued >= n ~> Len(delivered) >= n
=============================================================================
