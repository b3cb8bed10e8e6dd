------------------------------ MODULE TickCache ------------------------------
(***************************************************************************)
(* The cache of the latest tick, core/platform/cache/redis_cache.c:        *)
(* clients, each with a blocking connection, set and get one ticker's key  *)
(* on a shared Redis server (external).  A call is its command's way to    *)
(* the server and its reply's way back; between the two others run, time   *)
(* passes and the key expires.                                             *)
(*                                                                         *)
(* A payload is the number of its write, in the order the server takes     *)
(* them, and the time of it.                                               *)
(***************************************************************************)
EXTENDS Integers, FiniteSets

CONSTANTS
    Users,       \* the clients
    MaxTime,     \* bound: the clock
    MaxSets,     \* bound: the writes
    Ttl          \* ALPHA_TTL_LATEST_TICKS, in steps of the clock

ASSUME TickAssumption == {MaxTime, MaxSets} \subseteq Nat /\ Ttl \in Nat \ {0}

VARIABLES
    seconds,     \* the server's clock
    tick,        \* the key redis:cache:latest_ticks:{ticker}
    sets,        \* the number of writes
    call,        \* per client: the command it waits for, or "none"
    reply,       \* per client: the reply on its way, or of its last call
    broken,      \* the clients whose hiredis context is in error
    seen         \* history, per client: the last write it set with ALPHA_OK or was given

ticks == <<seconds, tick, sets, call, reply, broken, seen>>

\* write: 0 when there is no key.  life: 0 for no expiry.
NoTick == [write |-> 0, time |-> 0, life |-> 0]

Waiting == [type |-> "waiting", write |-> 0, time |-> 0]
TickReply(type, write, time) == [type |-> type, write |-> write, time |-> time]

TicksInit ==
    /\ seconds = 0 /\ tick = NoTick /\ sets = 0
    /\ call = [u \in Users |-> "none"] /\ reply = [u \in Users |-> Waiting]
    /\ broken = {} /\ seen = [u \in Users |-> 0]

TimePasses ==
    /\ seconds < MaxTime /\ seconds' = seconds + 1
    /\ tick' = IF tick.life # 0 /\ tick.time + tick.life <= seconds' THEN NoTick ELSE tick
    /\ UNCHANGED <<sets, call, reply, broken, seen>>

\* The Python edge may keep another type under the key.
TickSpoilt ==
    /\ tick' = [NoTick EXCEPT !.write = -1]
    /\ UNCHANGED <<seconds, sets, call, reply, broken, seen>>

Reconnects(u) ==
    /\ u \in broken /\ call[u] = "none" /\ broken' = broken \ {u}
    /\ UNCHANGED <<seconds, tick, sets, call, reply, seen>>

Calls(u) ==
    /\ call[u] = "none"
    /\ \E command \in {"set", "get"} : call' = [call EXCEPT ![u] = command]
    /\ reply' = [reply EXCEPT ![u] = Waiting]
    /\ UNCHANGED <<seconds, tick, sets, broken, seen>>

\* Mutant: the tick is set without an expiry.
TickForever == [write |-> sets + 1, time |-> seconds, life |-> 0]

TickSet == [write |-> sets + 1, time |-> seconds, life |-> Ttl]

\* SET key payload EX ttl, also over a key of another type, or an error.
ServerSets(u) ==
    /\ call[u] = "set" /\ u \notin broken /\ reply[u] = Waiting
    /\ \/ /\ sets < MaxSets /\ sets' = sets + 1 /\ tick' = TickSet
          /\ reply' = [reply EXCEPT ![u] = TickReply("status", sets + 1, seconds)]
       \/ reply' = [reply EXCEPT ![u] = TickReply("error", 0, 0)] /\ UNCHANGED <<sets, tick>>
    /\ UNCHANGED <<seconds, call, broken, seen>>

\* GET key.
ServerGets(u) ==
    /\ call[u] = "get" /\ u \notin broken /\ reply[u] = Waiting
    /\ reply' = [reply EXCEPT ![u] =
           IF tick.write = 0 THEN TickReply("nil", 0, 0)
           ELSE IF tick.write < 0 THEN TickReply("error", 0, 0)
           ELSE TickReply("string", tick.write, seconds - tick.time)]
    /\ UNCHANGED <<seconds, tick, sets, call, broken, seen>>

\* The connection breaks before the command or with the reply on its way; every
\* command on it fails until there is a new one.
TickConnectionBreaks(u) ==
    /\ call[u] # "none" /\ u \notin broken /\ broken' = broken \union {u}
    /\ UNCHANGED <<seconds, tick, sets, call, reply, seen>>

\* reply_is_ok of the status, or the value of the string, cut to the caller's
\* buffer; any other reply, or none, is an error and gives nothing.
alpha_redis_latest_tick_returns(u) ==
    /\ call[u] # "none" /\ (u \in broken \/ reply[u] # Waiting)
    /\ call' = [call EXCEPT ![u] = "none"]
    /\ IF u \notin broken /\ reply[u].type \in {"status", "string"}
       THEN seen' = [seen EXCEPT ![u] = reply[u].write] /\ reply' = reply
       ELSE seen' = seen /\ reply' = [reply EXCEPT ![u] = Waiting]
    /\ UNCHANGED <<seconds, tick, sets, broken>>

TicksNext ==
    \/ TimePasses \/ TickSpoilt
    \/ \E u \in Users :
        \/ Reconnects(u) \/ Calls(u) \/ ServerSets(u) \/ ServerGets(u)
        \/ TickConnectionBreaks(u) \/ alpha_redis_latest_tick_returns(u)

-----------------------------------------------------------------------------
\* The tick alpha_redis_get_latest_tick returns is never older than one its
\* client has set or seen before, whoever else writes and whatever replies were
\* lost, and the server set it less than its life before it answered.
TickIsCurrent ==
    [][\A u \in Users :
        call[u] = "get" /\ call'[u] = "none" /\ u \notin broken /\ reply[u].type = "string" =>
            reply[u].write >= seen[u] /\ reply[u].time < Ttl]_ticks
=============================================================================
