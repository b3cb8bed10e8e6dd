------------------------------ MODULE PgPipeline ------------------------------
(***************************************************************************)
(* The readiness-driven PostgreSQL client, core/platform/db/postgres.c: a  *)
(* bounded ring of requests in front of libpq's pipeline mode.             *)
(*                                                                         *)
(* Everything the client does runs on the owner's one thread; `pc' says    *)
(* where that thread is.  The server and the network run beside it.        *)
(*                                                                         *)
(* libpq and the server are external.  `cmdq', `async' and `pipeline' are  *)
(* libpq's command queue, PGASYNC_* status and pipeline status.  `outq' is *)
(* everything queued for the server and not yet processed by it; its first *)
(* `sent' messages have left libpq's output buffer.  `stream' is everything*)
(* the server answered and libpq has not returned: its first `arrived'     *)
(* messages are in libpq's input buffer, the next ones up to `flushed' are *)
(* on the wire, the rest is in the server's output buffer.  PostgreSQL     *)
(* flushes that buffer at a Sync, at an error, and when it is full.        *)
(***************************************************************************)
EXTENDS Integers, Sequences

CONSTANTS
    Capacity,     \* pipeline_depth, the number of slots of the ring
    MaxRequests,  \* bound: requests submitted in a behaviour
    Kinds,        \* alpha_pg_result_kind_t
    EagerOwner    \* TRUE: the owner reports writable whenever it is wanted

ASSUME CapacityAssumption == Capacity \in Nat \ {0}
ASSUME MaxRequestsAssumption == MaxRequests \in Nat
ASSUME KindsAssumption == Kinds # {}
ASSUME EagerOwnerAssumption == EagerOwner \in BOOLEAN

VARIABLES
    pc,            \* "loop" (owner's code), "read", "drain" or "callback"
    state,         \* alpha_pg_state_t, and "NONE" before and "CLOSED" after
    connect_poll,  \* PostgresPollingStatusType of the handshake
    flush_pending, sync_sent, fifo, head, count,
    cmdq, async, pipeline, conn,
    outq, sent, stream, arrived, flushed,
    ignoring,      \* the server skips commands until the next Sync
    alive,         \* the server process and its connection exist
    txn,           \* ids executed by the server in the open transaction
    committed,     \* ids whose effect is committed
    issued,        \* number of requests accepted; they are numbered from 1
    delivered      \* history of callbacks

driver == <<state, connect_poll, flush_pending, sync_sent, fifo, head, count>>
libpq == <<cmdq, async, pipeline, conn>>
net == <<outq, sent, stream, arrived, flushed>>
server == <<ignoring, alive, txn, committed>>
history == <<issued, delivered>>
vars == <<pc, driver, libpq, net, server, history>>

-----------------------------------------------------------------------------
(* Values. *)

States == {"NONE", "CONNECTING", "READY", "FAILED", "CLOSED"}
Request == [id : Nat, kind : Kinds]
NoRequest == [id |-> 0, kind |-> CHOOSE k \in Kinds : TRUE]
Command == [t : {"query", "sync"}, id : Nat, kind : Kinds]
Message == [t : {"tuples", "error", "fatal", "sync"}, id : Nat, kind : Kinds]
Query(r) == [t |-> "query", id |-> r.id, kind |-> r.kind]
Sync == [t |-> "sync", id |-> 0, kind |-> NoRequest.kind]
Answer(type, c) == [t |-> type, id |-> c.id, kind |-> c.kind]
Slots == 0 .. Capacity - 1
Slot(i) == (head + i) % Capacity

\* Mutant: the tail of the ring computed without its head.
TailSlotFromStart == count % Capacity

\* The ring's first free slot.
TailSlot == (head + count) % Capacity

-----------------------------------------------------------------------------
(* What the client tells its owner's event loop. *)

alpha_pg_wants_read ==
    \/ state = "CONNECTING" /\ connect_poll = "READING"
    \/ state = "READY" /\ (count > 0 \/ sync_sent)

\* Mutant: an open batch alone does not ask for write readiness.
WantsWriteOnlyToFlush ==
    \/ state = "CONNECTING" /\ connect_poll = "WRITING"
    \/ state = "READY" /\ flush_pending

alpha_pg_wants_write ==
    \/ state = "CONNECTING" /\ connect_poll = "WRITING"
    \/ state = "READY" /\ (flush_pending \/ (count > 0 /\ ~sync_sent))

\* Mutant: idle as soon as the results are drained.
IdleWithoutBoundary == count = 0 /\ ~flush_pending

alpha_pg_is_idle == count = 0 /\ ~sync_sent /\ ~flush_pending

-----------------------------------------------------------------------------
(* libpq, as postgres.c uses it. *)

\* The next thing PQgetResult has for a command queue q: nothing, a result
\* made up for a command of an aborted pipeline, or what the server will say.
ProcessQueue(q, p) ==
    IF q = <<>> THEN "IDLE"
    ELSE IF p = "ABORTED" /\ Head(q).t # "sync" THEN "READY" ELSE "BUSY"

\* Appending a command moves an idle connection on, and no other.
AppendStatus(q) ==
    IF pipeline = "ON"
    THEN IF async = "IDLE" THEN "BUSY" ELSE async
    ELSE IF async \in {"IDLE", "PIPELINE_IDLE"} THEN ProcessQueue(q, pipeline) ELSE async

\* PQflush of an output queue out.  0: all sent.  1: some of it did not fit in
\* the socket, and libpq read what had arrived so as not to block the server.
\* A dead connection swallows the output, or reports -1.
PQflush(out, ret) ==
    \/ /\ ret = 0
       /\ sent' = Len(out)
       /\ arrived' = arrived
    \/ /\ ret = 1 /\ alive
       /\ sent' \in sent .. Len(out) - 1
       /\ arrived' \in arrived .. flushed
    \/ /\ ret = -1 /\ ~alive
       /\ UNCHANGED <<sent, arrived>>

-----------------------------------------------------------------------------
(* Opening and closing. *)

Init ==
    /\ pc = "loop"
    /\ state = "NONE" /\ connect_poll = "WRITING"
    /\ flush_pending = FALSE /\ sync_sent = FALSE
    /\ fifo = [s \in Slots |-> NoRequest] /\ head = 0 /\ count = 0
    /\ cmdq = <<>> /\ async = "IDLE" /\ pipeline = "ON" /\ conn = "ok"
    /\ outq = <<>> /\ sent = 0 /\ stream = <<>> /\ arrived = 0 /\ flushed = 0
    /\ ignoring = FALSE /\ alive = TRUE /\ txn = {} /\ committed = {}
    /\ issued = 0 /\ delivered = <<>>

alpha_pg_connect_start ==
    /\ pc = "loop" /\ state = "NONE"
    /\ state' \in {"CONNECTING", "FAILED"}
    /\ connect_poll' = "WRITING"
    /\ UNCHANGED <<pc, flush_pending, sync_sent, fifo, head, count, libpq, net, server, history>>

\* PQconnectPoll answers what to wait for next, success or failure; success
\* still has to enter pipeline mode.
service_connect ==
    /\ pc = "loop" /\ state = "CONNECTING" /\ connect_poll \in {"READING", "WRITING"}
    /\ \/ connect_poll' \in {"READING", "WRITING"} /\ state' = state
       \/ connect_poll' = "FAILED" /\ state' = "FAILED"
       \/ connect_poll' = "OK" /\ state' \in {"READY", "FAILED"}
    /\ UNCHANGED <<pc, flush_pending, sync_sent, fifo, head, count, libpq, net, server, history>>

\* PQfinish and free: nothing queued is called back.
alpha_pg_close ==
    /\ pc = "loop" /\ state \in {"CONNECTING", "READY", "FAILED"}
    /\ state' = "CLOSED"
    /\ alive' = FALSE /\ txn' = {}
    /\ UNCHANGED <<pc, connect_poll, flush_pending, sync_sent, fifo, head, count,
                   libpq, net, ignoring, committed, history>>

-----------------------------------------------------------------------------
(* Submitting, from the owner's code or from a result callback. *)

\* Mutant: the ring's bound is not looked at.
AcceptsWhenFull == state = "READY" /\ ~sync_sent /\ conn = "ok"

\* Otherwise ALPHA_ERR_INVALID_ARG, _RANGE, _RANGE or _DB, and nothing changes.
Accepts == state = "READY" /\ count # Capacity /\ ~sync_sent /\ conn = "ok"

\* Mutant: only a failed flush is remembered.
FlushPendingOnError(ret) == ret < 0

FlushPending(ret) == ret # 0

send_request(kind) ==
    /\ pc \in {"loop", "callback"}
    /\ Accepts
    /\ issued < MaxRequests
    /\ LET r == [id |-> issued + 1, kind |-> kind]
       IN /\ fifo' = [fifo EXCEPT ![TailSlot] = r]
          /\ count' = count + 1
          /\ cmdq' = Append(cmdq, Query(r))
          /\ async' = AppendStatus(Append(cmdq, Query(r)))
          /\ outq' = Append(outq, Query(r))
          /\ \E ret \in {0, 1, -1} :
                PQflush(Append(outq, Query(r)), ret) /\ flush_pending' = FlushPending(ret)
          /\ issued' = r.id
    /\ UNCHANGED <<pc, state, connect_poll, sync_sent, head, pipeline, conn,
                   stream, flushed, server, delivered>>

-----------------------------------------------------------------------------
(* alpha_pg_service on a READY connection. *)

\* The writable half: close the batch with a Sync if one is open, then flush.
ServiceWrite(readable) ==
    /\ pc = "loop" /\ state = "READY"
    /\ flush_pending \/ (count > 0 /\ ~sync_sent)
    /\ LET close == count > 0 /\ ~sync_sent
           out == IF close THEN Append(outq, Sync) ELSE outq
           q == IF close THEN Append(cmdq, Sync) ELSE cmdq
       IN /\ sync_sent' = (sync_sent \/ close)
          /\ outq' = out /\ cmdq' = q
          /\ async' = IF close THEN AppendStatus(q) ELSE async
          /\ \E ret \in {0, 1, -1} :
                /\ PQflush(out, ret)
                /\ flush_pending' = FlushPending(ret)
                /\ pc' = IF readable /\ ret >= 0 THEN "read" ELSE "loop"
    /\ UNCHANGED <<state, connect_poll, fifo, head, count, pipeline, conn,
                   stream, flushed, server, history>>

\* PQpipelineSync fails on a dead connection.
ServiceSyncFails ==
    /\ pc = "loop" /\ state = "READY" /\ count > 0 /\ ~sync_sent
    /\ ~alive
    /\ state' = "FAILED"
    /\ UNCHANGED <<pc, connect_poll, flush_pending, sync_sent, fifo, head, count,
                   libpq, net, server, history>>

\* The call with nothing to do for the writable half.
ServiceRead ==
    /\ pc = "loop" /\ state = "READY"
    /\ EagerOwner => ~alpha_pg_wants_write
    /\ pc' = "read"
    /\ UNCHANGED <<driver, libpq, net, server, history>>

\* PQconsumeInput reads what is there, and pushes out what it can.  At the end
\* of a closed connection's data it fails; the client stays READY.
ConsumeInput ==
    /\ pc = "read"
    /\ \/ /\ alive \/ arrived < flushed
          /\ arrived' \in arrived .. flushed
          /\ arrived < flushed => arrived < arrived'
          /\ sent' \in sent .. Len(outq)
          /\ pc' = "drain" /\ conn' = conn
       \/ /\ ~alive /\ arrived = flushed
          /\ pc' = "loop" /\ conn' = "bad"
          /\ UNCHANGED <<arrived, sent>>
    /\ UNCHANGED <<driver, cmdq, async, pipeline, outq, stream, flushed, server, history>>

-----------------------------------------------------------------------------
(* drain_results, one iteration a step. *)

\* Mutant: every NULL ends the loop.
StopsAtNull == FALSE

\* After a NULL the loop goes on while results are owed: no socket edge recurs
\* for what libpq has already buffered.
ContinuesAfterNull == count > 0 \/ sync_sent

complete_head(ok, res) ==
    /\ head' = (head + 1) % Capacity
    /\ count' = count - 1
    /\ delivered' = Append(delivered, [id |-> fifo[head].id, ok |-> ok, res |-> res])

\* PQisBusy: the results of the command at the head have not arrived.
DrainBusy ==
    /\ pc = "drain" /\ async = "BUSY" /\ arrived = 0
    /\ pc' = "loop"
    /\ UNCHANGED <<driver, libpq, net, server, history>>

\* PQgetResult returns NULL: at the end of one command's results, or because
\* nothing is queued (libpq then drops a termination notice it may have got).
DrainNull ==
    /\ pc = "drain" /\ async \in {"IDLE", "PIPELINE_IDLE"}
    /\ IF async = "IDLE"
       THEN /\ stream' = SubSeq(stream, arrived + 1, Len(stream))
            /\ flushed' = flushed - arrived /\ arrived' = 0
            /\ async' = async
       ELSE /\ async' = ProcessQueue(cmdq, pipeline)
            /\ UNCHANGED <<stream, flushed, arrived>>
    /\ pc' = IF ContinuesAfterNull THEN "drain" ELSE "loop"
    /\ UNCHANGED <<driver, cmdq, pipeline, conn, outq, sent, server, history>>

\* Take the message at the front of the input buffer.
PopMessage ==
    /\ async = "BUSY" /\ arrived > 0
    /\ stream' = Tail(stream)
    /\ arrived' = arrived - 1
    /\ flushed' = flushed - 1

\* Mutant: the boundary is taken for a result.
NoBoundary(m) == FALSE

IsBoundary(m) == m.t = "sync"

\* PGRES_PIPELINE_SYNC: no NULL follows it.
DrainBoundary(flag) ==
    /\ pc = "drain" /\ PopMessage /\ IsBoundary(Head(stream))
    /\ sync_sent' = flag
    /\ cmdq' = Tail(cmdq)
    /\ pipeline' = "ON"
    /\ async' = ProcessQueue(Tail(cmdq), "ON")
    /\ UNCHANGED <<pc, state, connect_poll, flush_pending, fifo, head, count, conn,
                   outq, sent, server, history>>

\* Mutant: the boundary does not clear sync_sent.
DrainSyncKeepsFlag == DrainBoundary(sync_sent)

DrainSync == DrainBoundary(FALSE)

\* Mutant: the two row formats are confused.
ParsedAsOther(m) == m.t = "tuples" /\ m.kind # fifo[head].kind

\* A row parses when its columns are those of the kind the head of the ring
\* asked for (parse_position, parse_exposure); an error never does.
Parsed(m) == m.t = "tuples" /\ m.kind = fifo[head].kind

DrainResult ==
    /\ pc = "drain" /\ PopMessage /\ ~IsBoundary(Head(stream))
    /\ cmdq' = IF Head(cmdq).t = "sync" THEN cmdq ELSE Tail(cmdq)
    /\ pipeline' = IF Head(stream).t = "tuples" THEN pipeline ELSE "ABORTED"
    /\ async' = "PIPELINE_IDLE"
    /\ IF count = 0
       THEN /\ state' = "FAILED" /\ pc' = "loop"
            /\ UNCHANGED <<head, count, delivered>>
       ELSE /\ complete_head(Parsed(Head(stream)), Head(stream).id)
            /\ state' = state /\ pc' = "callback"
    /\ UNCHANGED <<connect_poll, flush_pending, sync_sent, fifo, conn,
                   outq, sent, server, issued>>

\* PGRES_PIPELINE_ABORTED, made by libpq for a command the server skips.
DrainAborted ==
    /\ pc = "drain" /\ async = "READY"
    /\ cmdq' = Tail(cmdq)
    /\ async' = "PIPELINE_IDLE"
    /\ IF count = 0
       THEN /\ state' = "FAILED" /\ pc' = "loop"
            /\ UNCHANGED <<head, count, delivered>>
       ELSE /\ complete_head(FALSE, Head(cmdq).id)
            /\ state' = state /\ pc' = "callback"
    /\ UNCHANGED <<connect_poll, flush_pending, sync_sent, fifo, pipeline, conn,
                   net, server, issued>>

CallbackReturns ==
    /\ pc = "callback"
    /\ pc' = "drain"
    /\ UNCHANGED <<driver, libpq, net, server, history>>

-----------------------------------------------------------------------------
(* The server (external): commands in order, one implicit transaction from *)
(* a Sync to the next, everything skipped from an error to the next Sync.  *)

ServerTakes == alive /\ sent > 0 /\ outq' = Tail(outq) /\ sent' = sent - 1

ServerExecutes ==
    /\ ServerTakes /\ Head(outq).t = "query" /\ ~ignoring
    /\ stream' = Append(stream, Answer("tuples", Head(outq)))
    /\ txn' = txn \union {Head(outq).id}
    /\ UNCHANGED <<pc, driver, libpq, arrived, flushed, ignoring, alive, committed, history>>

ServerRejects ==
    /\ ServerTakes /\ Head(outq).t = "query" /\ ~ignoring
    /\ stream' = Append(stream, Answer("error", Head(outq)))
    /\ flushed' = Len(stream) + 1
    /\ txn' = {} /\ ignoring' = TRUE
    /\ UNCHANGED <<pc, driver, libpq, arrived, alive, committed, history>>

ServerSkips ==
    /\ ServerTakes /\ Head(outq).t = "query" /\ ignoring
    /\ UNCHANGED <<pc, driver, libpq, stream, arrived, flushed, server, history>>

ServerSyncs ==
    /\ ServerTakes /\ Head(outq).t = "sync"
    /\ stream' = Append(stream, Answer("sync", Head(outq)))
    /\ flushed' = Len(stream) + 1
    /\ committed' = committed \union txn
    /\ txn' = {} /\ ignoring' = FALSE
    /\ UNCHANGED <<pc, driver, libpq, arrived, alive, history>>

\* The server's output buffer fills up before a Sync.
ServerFlushes ==
    /\ alive /\ flushed < Len(stream)
    /\ flushed' = Len(stream)
    /\ UNCHANGED <<pc, driver, libpq, outq, sent, stream, arrived, server, history>>

\* An administrator ends the session: a FATAL message, then end of file.
ServerTerminates ==
    /\ alive /\ state = "READY"
    /\ stream' = Append(stream, Answer("fatal", Sync))
    /\ flushed' = Len(stream) + 1
    /\ alive' = FALSE /\ txn' = {}
    /\ UNCHANGED <<pc, driver, libpq, outq, sent, arrived, ignoring, committed, history>>

\* The process or the connection dies; what had not arrived may be lost.
ServerCrashes ==
    /\ alive /\ state = "READY"
    /\ \E k \in arrived .. flushed : flushed' = k /\ stream' = SubSeq(stream, 1, k)
    /\ alive' = FALSE /\ txn' = {}
    /\ UNCHANGED <<pc, driver, libpq, outq, sent, arrived, ignoring, committed, history>>

-----------------------------------------------------------------------------
Thread == ConsumeInput \/ DrainBusy \/ DrainNull \/ DrainSync \/ DrainResult \/ DrainAborted
ServerSteps == ServerExecutes \/ ServerRejects \/ ServerSkips \/ ServerSyncs

Next ==
    \/ alpha_pg_connect_start \/ service_connect \/ alpha_pg_close
    \/ \E kind \in Kinds : send_request(kind)
    \/ \E readable \in BOOLEAN : ServiceWrite(readable)
    \/ ServiceSyncFails \/ ServiceRead
    \/ Thread \/ CallbackReturns
    \/ ServerSteps \/ ServerFlushes \/ ServerTerminates \/ ServerCrashes

Spec == Init /\ [][Next]_vars

\* The thread runs and callbacks return.  Every turn of the level-triggered loop
\* reports every ready socket that is wanted, so one that is ready again and
\* again is served; the server reads, so the send buffer has room in the end;
\* and a living server works through its input.
Fairness ==
    /\ WF_vars(Thread)
    /\ WF_vars(CallbackReturns)
    /\ SF_vars(/\ alpha_pg_wants_write
               /\ \E readable \in BOOLEAN : ServiceWrite(readable) /\ sent' = Len(outq'))
    /\ SF_vars(ServiceRead /\ alpha_pg_wants_read /\ (arrived < flushed \/ ~alive))
    /\ WF_vars(ServerSteps)

FairSpec == Spec /\ Fairness

-----------------------------------------------------------------------------
DriverType ==
    /\ state \in States
    /\ connect_poll \in {"READING", "WRITING", "OK", "FAILED"}
    /\ flush_pending \in BOOLEAN /\ sync_sent \in BOOLEAN
    /\ fifo \in [Slots -> Request]
    /\ head \in Slots /\ count \in 0 .. Capacity
LibpqType ==
    /\ cmdq \in Seq(Command)
    /\ async \in {"IDLE", "PIPELINE_IDLE", "BUSY", "READY"}
    /\ pipeline \in {"ON", "ABORTED"} /\ conn \in {"ok", "bad"}
NetType ==
    /\ outq \in Seq(Command) /\ sent \in 0 .. Len(outq)
    /\ stream \in Seq(Message)
    /\ flushed \in 0 .. Len(stream) /\ arrived \in 0 .. flushed
ServerType ==
    /\ ignoring \in BOOLEAN /\ alive \in BOOLEAN
    /\ txn \subseteq Nat /\ committed \subseteq Nat
HistoryType ==
    /\ issued \in 0 .. MaxRequests
    /\ delivered \in Seq([id : Nat, ok : BOOLEAN, res : Nat])

\* The type invariant of the client, libpq, the network and the server.
TypeOK ==
    /\ pc \in {"loop", "read", "drain", "callback"}
    /\ DriverType /\ LibpqType /\ NetType /\ ServerType /\ HistoryType

\* "Preserve FIFO callback identity": the ring holds, in order, exactly the
\* queries libpq has not answered, followed there by the Sync when one is out.
FifoAligned ==
    /\ Len(cmdq) = count + (IF sync_sent THEN 1 ELSE 0)
    /\ \A i \in 1 .. count : cmdq[i] = Query(fifo[Slot(i - 1)])
    /\ sync_sent => cmdq[count + 1] = Sync

\* Callbacks come once per request, in the order of submission, and a callback
\* that reports success carries the row the server returned for that request.
CallbackIdentity ==
    \A i \in 1 .. Len(delivered) :
        /\ delivered[i].id = i
        /\ delivered[i].ok => delivered[i].res = i

\* The client's ring is a bounded FIFO of requests: requests enter at the tail,
\* and the only way out is a callback for the one at the head.
Fifo == INSTANCE RequestFifo WITH
    Bound <- Capacity, queue <- [i \in 1 .. count |-> fifo[Slot(i - 1)].id], done <- delivered
RefinesFifo == Fifo!Spec

\* A request whose callback reported an error has no effect in the database.
FailedHasNoEffect ==
    \A i \in 1 .. Len(delivered) : ~delivered[i].ok => i \notin txn \union committed

\* drain_results loops on a NULL while work is queued; it never does so with
\* nothing left for libpq to say, which would be a busy loop.
NoSpin == async = "IDLE" => count = 0 /\ ~sync_sent

\* Output libpq still holds is never forgotten: write readiness is wanted.
UnsentIsWanted == state = "READY" /\ sent < Len(outq) => alpha_pg_wants_write

\* "libpq result arrived without a queued request", and every other failure of
\* an established connection, only follows the loss of the server.
FailsOnlyWhenLost == state = "FAILED" /\ issued > 0 => ~alive

\* "True only after both request results and the pipeline sync boundary drain."
IdleAfterSyncBoundary ==
    state = "READY" /\ alpha_pg_is_idle /\ alive => ~ignoring /\ txn = {}

\* A success reported to a callback is a stored row once the client is idle,
\* unless a later request of its transaction failed and undid it.
OkIsStoredOrBatchFailed ==
    state = "READY" /\ alpha_pg_is_idle /\ alive =>
        \A i \in 1 .. Len(delivered) :
            delivered[i].ok /\ i \notin committed =>
                \E j \in i + 1 .. Len(delivered) : ~delivered[j].ok

\* For an owner that ends every batch at once, alpha_pg_is_idle means what it
\* says: the boundary is drained, and what was reported is settled.
IdleIsSettled == IdleAfterSyncBoundary /\ OkIsStoredOrBatchFailed

\* Every accepted request is called back, unless the connection is lost or closed.
RequestsComplete ==
    \A n \in 1 .. MaxRequests : issued >= n ~> Len(delivered) >= n \/ ~alive

\* A service call returns to the owner's loop, and the connection always becomes
\* idle again while the server lives: drain_results does not spin, and what
\* alpha_pg_wants_write says brings the owner back for the sync and its flush.
BecomesIdle ==
    /\ pc # "loop" ~> pc = "loop"
    /\ state = "READY" ~> alpha_pg_is_idle \/ ~alive
=============================================================================
