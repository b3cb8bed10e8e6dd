-------------------------- MODULE PgPipelineProofs --------------------------
(***************************************************************************)
(* What is proved of the PostgreSQL client: its invariant, the safety      *)
(* properties that follow, that it implements a bounded FIFO, and that an  *)
(* idle client is settled.                                                 *)
(***************************************************************************)
EXTENDS PgPipeline, SeqLemmas, TLAPS

(* The inductive invariant, conjunct by conjunct. *)

\* The ring and the history number the requests without a gap.
Numbering ==
    /\ issued = Len(delivered) + count
    /\ \A i \in 1 .. count : fifo[Slot(i - 1)].id = Len(delivered) + i
    /\ state \in {"NONE", "CONNECTING"} => issued = 0

\* What libpq's status says of its command queue.
StatusInv ==
    /\ async = "IDLE" => cmdq = <<>>
    /\ async = "BUSY" => /\ cmdq # <<>>
                         /\ pipeline = "ABORTED" => cmdq[1].t = "sync"
    /\ async = "READY" => /\ cmdq # <<>> /\ cmdq[1].t = "query"
                          /\ pipeline = "ABORTED"

HasSync == \E i \in 1 .. Len(stream) : stream[i].t = "sync"
HasError == \E i \in 1 .. Len(stream) : stream[i].t = "error"

\* What is on its way from the server: the rows and errors answer the commands
\* at the head of libpq's queue one by one, ...
RowsAligned ==
    \A i \in 1 .. Len(stream) : stream[i].t \in {"tuples", "error"} =>
        /\ pipeline = "ON" /\ i <= count
        /\ stream[i].id = cmdq[i].id /\ stream[i].kind = cmdq[i].kind

\* ... an error ends them, ...
ErrorEndsBatch ==
    \A i, j \in 1 .. Len(stream) :
        stream[i].t = "error" /\ i < j => stream[j].t \in {"sync", "fatal"}

\* ... the boundary comes when every query has its answer, or after an error, ...
SyncEndsBatch ==
    \A i \in 1 .. Len(stream) : stream[i].t = "sync" =>
        /\ sync_sent /\ outq = <<>>
        /\ \A j \in 1 .. Len(stream) : i < j => stream[j].t = "fatal"
        /\ \/ pipeline = "ABORTED" \/ i = count + 1
           \/ \E j \in 1 .. Len(stream) : j < i /\ stream[j].t = "error"

\* ... and nothing follows the message that ends the session.
FatalIsLast ==
    \A i \in 1 .. Len(stream) :
        stream[i].t = "fatal" => i = Len(stream) /\ ~alive /\ stream[i].id = 0

StreamInv == RowsAligned /\ ErrorEndsBatch /\ SyncEndsBatch /\ FatalIsLast

\* What is on its way to the server.
OutInv ==
    /\ \A k \in 1 .. Len(outq) : outq[k].t = "sync" => k = Len(outq) /\ sync_sent
    /\ sent < Len(outq) => flush_pending

\* Where a living server is in the batch.
ServerInv ==
    alive =>
        /\ ignoring <=> (pipeline = "ABORTED" \/ HasError) /\ ~HasSync
        /\ ~ignoring /\ ~HasSync =>
              /\ Len(stream) + Len(outq) = Len(cmdq)
              /\ \A k \in 1 .. Len(outq) : outq[k] = cmdq[Len(stream) + k]

\* A request with an effect has been reported a success or is about to be.
EffectInv ==
    \A x \in txn \union committed :
        /\ x >= 1
        /\ x <= Len(delivered) => delivered[x].ok
        /\ x > Len(delivered) =>
              /\ pipeline = "ON"
              /\ alive => x - Len(delivered) <= Len(stream)
              /\ \A j \in 1 .. Len(stream) :
                    j <= x - Len(delivered) => stream[j].t = "tuples"

\* The inductive invariant: the ring, libpq's queue, both directions of the
\* connection and the server's transaction tell one and the same story.
PgInv ==
    /\ TypeOK /\ FifoAligned /\ CallbackIdentity /\ FailsOnlyWhenLost
    /\ Numbering /\ StatusInv /\ StreamInv /\ OutInv /\ ServerInv /\ EffectInv
-----------------------------------------------------------------------------
(* Sequences and the ring. *)

\* The ring's modulus is the conditional subtraction of its size.
LEMMA Wrap ==
    ASSUME NEW a \in Slots, NEW b \in 0 .. Capacity
    PROVE  /\ (a + b) % Capacity = IF a + b < Capacity THEN a + b ELSE a + b - Capacity
           /\ (a + b) % Capacity \in Slots
BY CapacityAssumption DEF Slots

\* A slot index is its own residue.
LEMMA SlotMod == ASSUME NEW a \in Slots PROVE a % Capacity = a
BY CapacityAssumption DEF Slots

\* The values of an unused slot and of a sync point have their types.
LEMMA NoRequestType == NoRequest \in Request /\ Sync \in Command
BY KindsAssumption, Zenon DEF NoRequest, Request, Sync, Command

\* A query is a command.
LEMMA QueryType == ASSUME NEW r \in Request PROVE Query(r) \in Command
BY Zenon DEF Request, Query, Command

\* What the server answers to a query has its type.
LEMMA AnswerType ==
    ASSUME NEW c \in Command, NEW type \in {"tuples", "error", "fatal", "sync"}
    PROVE  Answer(type, c) \in Message
BY Zenon DEF Answer, Command, Message

\* What the server writes to the wire has its type.
LEMMA MessageType ==
    ASSUME TypeOK, NEW i \in 1 .. Len(stream)
    PROVE  stream[i] \in Message /\ stream[i].t \in {"tuples", "error", "fatal", "sync"}
<1>1. stream[i] \in Message
  BY DEF TypeOK, NetType
<1> QED
  BY <1>1, Zenon DEF Message

-----------------------------------------------------------------------------
(* Types. *)

\* alpha_pg_connect_start leaves a well-typed client.
LEMMA TypeInit == Init => TypeOK
<1> SUFFICES ASSUME Init PROVE TypeOK
  OBVIOUS
<1>1. DriverType
  <2>1. fifo \in [Slots -> Request]
    BY NoRequestType, Zenon DEF Init
  <2>2. head \in Slots /\ count \in 0 .. Capacity
    BY CapacityAssumption DEF Init, Slots
  <2> QED
    BY <2>1, <2>2, Zenon DEF Init, DriverType, States
<1>2. LibpqType /\ NetType
  BY DEF Init, LibpqType, NetType
<1>3. ServerType
  BY Zenon DEF Init, ServerType
<1>4. HistoryType
  BY MaxRequestsAssumption DEF Init, HistoryType
<1> QED
  BY <1>1, <1>2, <1>3, <1>4, Zenon DEF Init, TypeOK

\* A step that changes only what is re-established keeps the type.
LEMMA TypeFrame ==
    ASSUME TypeOK
    PROVE  /\ UNCHANGED driver => DriverType'
           /\ UNCHANGED libpq => LibpqType'
           /\ UNCHANGED net => NetType'
           /\ UNCHANGED server => ServerType'
           /\ UNCHANGED history => HistoryType'
<1>1. UNCHANGED driver => DriverType'
  BY Zenon DEF TypeOK, DriverType, driver
<1>2. UNCHANGED libpq => LibpqType'
  BY Zenon DEF TypeOK, LibpqType, libpq
<1>3. UNCHANGED net => NetType'
  BY Zenon DEF TypeOK, NetType, net
<1>4. UNCHANGED server => ServerType'
  BY Zenon DEF TypeOK, ServerType, server
<1>5. UNCHANGED history => HistoryType'
  BY Zenon DEF TypeOK, HistoryType, history
<1> QED
  BY <1>1, <1>2, <1>3, <1>4, <1>5, Zenon

\* A server step that takes a command.
LEMMA TakeType ==
    ASSUME TypeOK, ServerTakes
    PROVE  /\ outq' \in Seq(Command) /\ sent' \in 0 .. Len(outq')
           /\ Len(outq) > 0 /\ Len(outq') = Len(outq) - 1
           /\ Head(outq) = outq[1] /\ outq[1] \in Command /\ outq[1].id \in Nat
           /\ \A k \in 1 .. Len(outq') : outq'[k] = outq[k + 1]
<1>1. Len(outq) > 0 /\ outq' = Tail(outq) /\ sent' = sent - 1 /\ sent > 0
  BY DEF TypeOK, NetType, ServerTakes
<1>2. outq \in Seq(Command)
  BY Zenon DEF TypeOK, NetType
<1>3. /\ outq' \in Seq(Command) /\ Len(outq') = Len(outq) - 1
      /\ Head(outq) = outq[1] /\ outq[1] \in Command
      /\ \A k \in 1 .. Len(outq') : outq'[k] = outq[k + 1]
  BY <1>1, <1>2, TailFacts, Zenon
<1> QED
  BY <1>1, <1>3 DEF TypeOK, NetType, Command

\* Taking a message off the input buffer.
LEMMA PopType ==
    ASSUME TypeOK, PopMessage
    PROVE  /\ stream' \in Seq(Message) /\ flushed' \in 0 .. Len(stream')
           /\ arrived' \in 0 .. flushed'
           /\ Len(stream) > 0 /\ Len(stream') = Len(stream) - 1
           /\ Head(stream) = stream[1] /\ stream[1] \in Message
           /\ \A i \in 1 .. Len(stream') : stream'[i] = stream[i + 1]
<1>1. Len(stream) > 0 /\ stream' = Tail(stream) /\ stream \in Seq(Message)
  BY DEF TypeOK, NetType, PopMessage
<1>2. /\ stream' \in Seq(Message) /\ Len(stream') = Len(stream) - 1
      /\ Head(stream) = stream[1] /\ stream[1] \in Message
      /\ \A i \in 1 .. Len(stream') : stream'[i] = stream[i + 1]
  BY <1>1, TailFacts, Zenon
<1> QED
  BY <1>1, <1>2 DEF TypeOK, NetType, PopMessage

\* Calling back the request at the head of the ring.
LEMMA CompleteType ==
    ASSUME TypeOK, NEW ok \in BOOLEAN, NEW res \in Nat, complete_head(ok, res),
           count # 0, issued' = issued
    PROVE  HistoryType' /\ head' \in Slots /\ count' \in 0 .. Capacity
<1>1. fifo[head].id \in Nat
  BY Zenon DEF TypeOK, DriverType, Request
<1>2. delivered' = Append(delivered, [id |-> fifo[head].id, ok |-> ok, res |-> res])
  BY Zenon DEF complete_head
<1>3. [id |-> fifo[head].id, ok |-> ok, res |-> res] \in [id : Nat, ok : BOOLEAN, res : Nat]
  BY <1>1, Zenon
<1>4. HistoryType'
  BY <1>2, <1>3, AppendFacts, Zenon DEF TypeOK, HistoryType
<1>5. head' \in Slots
  BY Wrap, CapacityAssumption DEF TypeOK, DriverType, complete_head
<1>6. count' \in 0 .. Capacity
  BY CapacityAssumption DEF TypeOK, DriverType, complete_head
<1> QED
  BY <1>4, <1>5, <1>6, Zenon

\* Every step of the client, of libpq and of the server keeps the type.
LEMMA TypeStep == PgInv /\ [Next]_vars => TypeOK'
<1> SUFFICES ASSUME PgInv, [Next]_vars PROVE TypeOK'
  OBVIOUS
<1>0. TypeOK /\ StatusInv
  BY Zenon DEF PgInv
<1>a. /\ pc \in {"loop", "read", "drain", "callback"}
      /\ DriverType /\ LibpqType /\ NetType /\ ServerType /\ HistoryType
  BY <1>0, Zenon DEF TypeOK
<1>1. CASE alpha_pg_connect_start
  <2>1. DriverType'
    BY <1>a, <1>1, Zenon DEF DriverType, States, alpha_pg_connect_start
  <2> QED
    BY <1>0, <1>1, <2>1, TypeFrame, Zenon DEF TypeOK, alpha_pg_connect_start
<1>2. CASE service_connect
  <2>1. DriverType'
    BY <1>a, <1>2, Zenon DEF DriverType, States, service_connect
  <2> QED
    BY <1>0, <1>2, <2>1, TypeFrame, Zenon DEF TypeOK, service_connect
<1>3. CASE alpha_pg_close
  <2>1. DriverType' /\ ServerType'
    BY <1>a, <1>3, Zenon DEF DriverType, ServerType, States, alpha_pg_close
  <2> QED
    BY <1>0, <1>3, <2>1, TypeFrame, Zenon DEF TypeOK, alpha_pg_close
<1>4. ASSUME NEW kind \in Kinds, send_request(kind) PROVE TypeOK'
  <2> DEFINE r == [id |-> issued + 1, kind |-> kind]
  <2>1. r \in Request
    BY <1>a, MaxRequestsAssumption DEF HistoryType, Request
  <2>2. Query(r) \in Command
    BY <2>1, QueryType, Zenon
  <2>3. TailSlot \in Slots /\ count + 1 \in 0 .. Capacity
    BY <1>a, <1>4, Wrap, CapacityAssumption DEF DriverType, send_request, Accepts, TailSlot
  <2>4. PICK ret \in {0, 1, -1} :
            PQflush(Append(outq, Query(r)), ret) /\ flush_pending' = FlushPending(ret)
    BY <1>4, Zenon DEF send_request
  <2>5. fifo' \in [Slots -> Request] /\ flush_pending' \in BOOLEAN
    BY <1>a, <1>4, <2>1, <2>3, <2>4, Zenon DEF DriverType, send_request, FlushPending
  <2>6. DriverType'
    BY <1>a, <1>4, <2>3, <2>5, Zenon DEF DriverType, send_request
  <2>7. LibpqType'
    BY <1>a, <1>4, <2>2 DEF LibpqType, send_request, AppendStatus, ProcessQueue
  <2>8. outq' \in Seq(Command) /\ outq' = Append(outq, Query(r)) /\ Len(outq') = Len(outq) + 1
    BY <1>a, <1>4, <2>2 DEF NetType, send_request
  <2>9. sent' \in 0 .. Len(outq') /\ arrived' \in 0 .. flushed
    BY <1>a, <2>4, <2>8, SMTT(30) DEF NetType, PQflush
  <2>10. NetType'
    BY <1>a, <1>4, <2>8, <2>9, Zenon DEF NetType, send_request
  <2>11. HistoryType'
    BY <1>a, <1>4, MaxRequestsAssumption DEF HistoryType, send_request
  <2> QED
    BY <1>0, <1>4, <2>6, <2>7, <2>10, <2>11, TypeFrame, Zenon DEF TypeOK, send_request
<1>5. ASSUME NEW readable \in BOOLEAN, ServiceWrite(readable) PROVE TypeOK'
  <2>1. cmdq' \in Seq(Command) /\ outq' \in Seq(Command) /\ Len(outq') >= Len(outq)
    BY <1>a, <1>5, NoRequestType DEF LibpqType, NetType, ServiceWrite
  <2>2. LibpqType'
    BY <1>a, <1>5, <2>1, Zenon DEF LibpqType, ServiceWrite, AppendStatus, ProcessQueue
  <2>3. PICK ret \in {0, 1, -1} :
            /\ PQflush(outq', ret)
            /\ flush_pending' = FlushPending(ret)
            /\ pc' = IF readable /\ ret >= 0 THEN "read" ELSE "loop"
    BY <1>5, Zenon DEF ServiceWrite
  <2>4. DriverType' /\ pc' \in {"loop", "read"}
    BY <1>a, <1>5, <2>3, Zenon DEF DriverType, ServiceWrite, FlushPending
  <2>5. sent' \in 0 .. Len(outq') /\ arrived' \in 0 .. flushed
    BY <1>a, <2>1, <2>3, SMTT(30) DEF NetType, PQflush
  <2>6. NetType'
    BY <1>a, <1>5, <2>1, <2>5, Zenon DEF NetType, ServiceWrite
  <2> QED
    BY <1>0, <1>5, <2>2, <2>4, <2>6, TypeFrame, Zenon DEF TypeOK, ServiceWrite
<1>6. CASE ServiceSyncFails
  <2>1. DriverType'
    BY <1>a, <1>6, Zenon DEF DriverType, States, ServiceSyncFails
  <2> QED
    BY <1>0, <1>6, <2>1, TypeFrame, Zenon DEF TypeOK, ServiceSyncFails
<1>7. CASE ServiceRead
  BY <1>0, <1>7, TypeFrame, Zenon DEF TypeOK, ServiceRead
<1>8. CASE ConsumeInput
  <2>1. NetType'
    BY <1>a, <1>8 DEF NetType, ConsumeInput
  <2>2. LibpqType'
    BY <1>a, <1>8, Zenon DEF LibpqType, ConsumeInput
  <2> QED
    BY <1>0, <1>8, <2>1, <2>2, TypeFrame, Zenon DEF TypeOK, ConsumeInput
<1>9. CASE DrainBusy
  BY <1>0, <1>9, TypeFrame, Zenon DEF TypeOK, DrainBusy
<1>10. CASE DrainNull
  <2>1. ASSUME async = "IDLE" PROVE NetType'
    <3>1. /\ stream' = SubSeq(stream, arrived + 1, Len(stream))
          /\ flushed' = flushed - arrived /\ arrived' = 0
      BY <1>10, <2>1, Zenon DEF DrainNull
    <3>2. stream' \in Seq(Message) /\ Len(stream') = Len(stream) - arrived
      BY <1>a, <3>1, SubSeqFacts DEF NetType
    <3> QED
      BY <1>a, <1>10, <3>1, <3>2 DEF NetType, DrainNull
  <2>2. ASSUME async # "IDLE" PROVE NetType'
    BY <1>a, <1>10, <2>2, Zenon DEF NetType, DrainNull
  <2>3. LibpqType'
    BY <1>a, <1>10, Zenon DEF LibpqType, DrainNull, ProcessQueue
  <2> QED
    BY <1>0, <1>10, <2>1, <2>2, <2>3, TypeFrame, Zenon DEF TypeOK, DrainNull
<1>11. CASE DrainSync
  <2>1. LibpqType'
    <3>1. cmdq' = Tail(cmdq) /\ Len(cmdq) > 0
      BY <1>0, <1>a, <1>11 DEF LibpqType, StatusInv, DrainSync, DrainBoundary, PopMessage
    <3>2. cmdq' \in Seq(Command)
      BY <1>a, <3>1, TailFacts, Zenon DEF LibpqType
    <3> QED
      BY <1>a, <1>11, <3>2, Zenon DEF LibpqType, DrainSync, DrainBoundary, ProcessQueue
  <2>2. NetType'
    BY <1>0, <1>11, PopType, Zenon DEF TypeOK, NetType, DrainSync, DrainBoundary
  <2>3. DriverType'
    BY <1>a, <1>11, Zenon DEF DriverType, DrainSync, DrainBoundary
  <2> QED
    BY <1>0, <1>11, <2>1, <2>2, <2>3, TypeFrame, Zenon DEF TypeOK, DrainSync, DrainBoundary
<1>12. CASE DrainResult
  <2>1. LibpqType'
    <3>1. Len(cmdq) > 0
      BY <1>0, <1>a, <1>12 DEF LibpqType, StatusInv, DrainResult, PopMessage
    <3>2. Tail(cmdq) \in Seq(Command)
      BY <1>a, <3>1, TailFacts, Zenon DEF LibpqType
    <3> QED
      BY <1>a, <1>12, <3>2, Zenon DEF LibpqType, DrainResult
  <2>2. NetType' /\ Head(stream) = stream[1] /\ stream[1] \in Message
    BY <1>0, <1>12, PopType, Zenon DEF TypeOK, NetType, DrainResult, PopMessage
  <2>3. CASE count = 0
    <3>1. DriverType' /\ pc' = "loop"
      BY <1>a, <1>12, <2>3, Zenon DEF DriverType, States, DrainResult
    <3>2. HistoryType'
      BY <1>a, <1>12, <2>3, Zenon DEF HistoryType, DrainResult
    <3> QED
      BY <1>0, <1>12, <2>1, <2>2, <3>1, <3>2, TypeFrame, Zenon DEF TypeOK, DrainResult
  <2>4. CASE count # 0
    <3>1. complete_head(Parsed(stream[1]), stream[1].id) /\ pc' = "callback"
      BY <1>12, <2>2, <2>4, Zenon DEF DrainResult
    <3>2. Parsed(stream[1]) \in BOOLEAN /\ stream[1].id \in Nat
      <4>1. Parsed(stream[1]) \in BOOLEAN
        BY Zenon DEF Parsed
      <4> QED
        BY <2>2, <4>1, Zenon DEF Message
    <3>3. HistoryType' /\ head' \in Slots /\ count' \in 0 .. Capacity
      BY <1>0, <1>12, <2>4, <3>1, <3>2, CompleteType, Zenon DEF DrainResult
    <3>4. DriverType'
      BY <1>a, <1>12, <2>4, <3>3, Zenon DEF DriverType, DrainResult
    <3> QED
      BY <1>0, <1>12, <2>1, <2>2, <3>1, <3>3, <3>4, TypeFrame, Zenon DEF TypeOK, DrainResult
  <2> QED
    BY <2>3, <2>4, Zenon
<1>13. CASE DrainAborted
  <2>1. Len(cmdq) > 0 /\ Head(cmdq) \in Command /\ LibpqType'
    <3>1. Len(cmdq) > 0
      BY <1>0, <1>a, <1>13 DEF LibpqType, StatusInv, DrainAborted
    <3>2. Tail(cmdq) \in Seq(Command) /\ Head(cmdq) \in Command
      BY <1>a, <3>1, TailFacts, Zenon DEF LibpqType
    <3> QED
      BY <1>a, <1>13, <3>1, <3>2, Zenon DEF LibpqType, DrainAborted
  <2>2. CASE count = 0
    <3>1. DriverType' /\ pc' = "loop"
      BY <1>a, <1>13, <2>2, Zenon DEF DriverType, States, DrainAborted
    <3>2. HistoryType'
      BY <1>a, <1>13, <2>2, Zenon DEF HistoryType, DrainAborted
    <3> QED
      BY <1>0, <1>13, <2>1, <3>1, <3>2, TypeFrame, Zenon DEF TypeOK, DrainAborted
  <2>3. CASE count # 0
    <3>1. complete_head(FALSE, Head(cmdq).id) /\ pc' = "callback"
      BY <1>13, <2>3, Zenon DEF DrainAborted
    <3>2. Head(cmdq).id \in Nat
      BY <2>1, Zenon DEF Command
    <3>3. HistoryType' /\ head' \in Slots /\ count' \in 0 .. Capacity
      BY <1>0, <1>13, <2>3, <3>1, <3>2, CompleteType, Zenon DEF DrainAborted
    <3>4. DriverType'
      BY <1>a, <1>13, <2>3, <3>3, Zenon DEF DriverType, DrainAborted
    <3> QED
      BY <1>0, <1>13, <2>1, <3>1, <3>3, <3>4, TypeFrame, Zenon DEF TypeOK, DrainAborted
  <2> QED
    BY <2>2, <2>3, Zenon
<1>14. CASE CallbackReturns
  BY <1>0, <1>14, TypeFrame, Zenon DEF TypeOK, CallbackReturns
<1>15. CASE ServerExecutes
  <2>1. ServerTakes
    BY <1>15, Zenon DEF ServerExecutes
  <2>2. stream' \in Seq(Message) /\ Len(stream') = Len(stream) + 1
    BY <1>0, <1>a, <1>15, <2>1, TakeType, AnswerType, AppendFacts DEF NetType, ServerExecutes
  <2>3. NetType'
    BY <1>0, <1>a, <1>15, <2>1, <2>2, TakeType DEF NetType, ServerExecutes
  <2>4. ServerType'
    BY <1>0, <1>a, <1>15, <2>1, TakeType, Zenon DEF ServerType, ServerExecutes
  <2> QED
    BY <1>0, <1>15, <2>3, <2>4, TypeFrame, Zenon DEF TypeOK, ServerExecutes
<1>16. CASE ServerRejects
  <2>1. ServerTakes
    BY <1>16, Zenon DEF ServerRejects
  <2>2. stream' \in Seq(Message) /\ Len(stream') = Len(stream) + 1
    BY <1>0, <1>a, <1>16, <2>1, TakeType, AnswerType, AppendFacts DEF NetType, ServerRejects
  <2>3. NetType'
    BY <1>0, <1>a, <1>16, <2>1, <2>2, TakeType, SMTT(30) DEF NetType, ServerRejects
  <2>4. ServerType'
    BY <1>0, <1>a, <1>16, <2>1, TakeType, Zenon DEF ServerType, ServerRejects
  <2> QED
    BY <1>0, <1>16, <2>3, <2>4, TypeFrame, Zenon DEF TypeOK, ServerRejects
<1>17. CASE ServerSkips
  <2>1. NetType'
    BY <1>0, <1>a, <1>17, TakeType, Zenon DEF NetType, ServerSkips
  <2> QED
    BY <1>0, <1>17, <2>1, TypeFrame, Zenon DEF TypeOK, ServerSkips
<1>18. CASE ServerSyncs
  <2>1. ServerTakes
    BY <1>18, Zenon DEF ServerSyncs
  <2>2. stream' \in Seq(Message) /\ Len(stream') = Len(stream) + 1
    BY <1>0, <1>a, <1>18, <2>1, TakeType, AnswerType, AppendFacts DEF NetType, ServerSyncs
  <2>3. NetType'
    BY <1>0, <1>a, <1>18, <2>1, <2>2, TakeType DEF NetType, ServerSyncs
  <2>4. ServerType'
    BY <1>0, <1>a, <1>18, <2>1, TakeType, Zenon DEF ServerType, ServerSyncs
  <2> QED
    BY <1>0, <1>18, <2>3, <2>4, TypeFrame, Zenon DEF TypeOK, ServerSyncs
<1>19. CASE ServerFlushes
  <2>1. NetType'
    BY <1>a, <1>19 DEF NetType, ServerFlushes
  <2> QED
    BY <1>0, <1>19, <2>1, TypeFrame, Zenon DEF TypeOK, ServerFlushes
<1>20. CASE ServerTerminates
  <2>1. stream' \in Seq(Message) /\ Len(stream') = Len(stream) + 1
    BY <1>a, <1>20, NoRequestType, AnswerType, AppendFacts, Zenon DEF NetType, ServerTerminates
  <2>2. NetType'
    BY <1>a, <1>20, <2>1 DEF NetType, ServerTerminates
  <2>3. ServerType'
    BY <1>a, <1>20, Zenon DEF ServerType, ServerTerminates
  <2> QED
    BY <1>0, <1>20, <2>2, <2>3, TypeFrame, Zenon DEF TypeOK, ServerTerminates
<1>21. CASE ServerCrashes
  <2>1. PICK k \in arrived .. flushed : flushed' = k /\ stream' = SubSeq(stream, 1, k)
    BY <1>21, Zenon DEF ServerCrashes
  <2>2. k \in 0 .. Len(stream)
    BY <1>a DEF NetType
  <2>3. stream' \in Seq(Message) /\ Len(stream') = k
    BY <1>a, <2>1, <2>2, SubSeqFacts DEF NetType
  <2>4. NetType'
    BY <1>a, <1>21, <2>1, <2>3 DEF NetType, ServerCrashes
  <2>5. ServerType'
    BY <1>a, <1>21, Zenon DEF ServerType, ServerCrashes
  <2> QED
    BY <1>0, <1>21, <2>4, <2>5, TypeFrame, Zenon DEF TypeOK, ServerCrashes
<1>22. CASE UNCHANGED vars
  BY <1>0, <1>22, TypeFrame, Zenon DEF TypeOK, vars
<1> QED
  BY <1>1, <1>2, <1>3, <1>4, <1>5, <1>6, <1>7, <1>8, <1>9, <1>10, <1>11, <1>12, <1>13, <1>14,
     <1>15, <1>16, <1>17, <1>18, <1>19, <1>20, <1>21, <1>22, Zenon DEF Next, Thread, ServerSteps

-----------------------------------------------------------------------------
(* Preservation of the other conjuncts, action by action. *)

\* Steps that move neither the ring, nor libpq's queue, nor a message.
LEMMA Frame ==
    ASSUME PgInv, TypeOK',
           UNCHANGED <<fifo, head, count, sync_sent, cmdq, pipeline, stream, outq>>,
           UNCHANGED <<committed, ignoring, issued, delivered>>,
           async' = async \/ StatusInv', alive' => alive, txn' \subseteq txn,
           OutInv', FailsOnlyWhenLost', state' \in {"NONE", "CONNECTING"} => issued = 0
    PROVE  PgInv'
<1>1. FifoAligned' /\ CallbackIdentity'
  BY Zenon DEF PgInv, FifoAligned, CallbackIdentity, Slot
<1>2. Numbering'
  BY Zenon DEF PgInv, Numbering, Slot
<1>3. StatusInv'
  BY Zenon DEF PgInv, StatusInv
<1>4. RowsAligned' /\ ErrorEndsBatch'
  BY Zenon DEF PgInv, StreamInv, RowsAligned, ErrorEndsBatch
<1>5. SyncEndsBatch'
  BY DEF PgInv, StreamInv, SyncEndsBatch
<1>6. FatalIsLast'
  BY Zenon DEF PgInv, StreamInv, FatalIsLast
<1>7. ServerInv'
  BY Zenon DEF PgInv, ServerInv, HasSync, HasError
<1>8. EffectInv'
  BY DEF PgInv, EffectInv
<1> QED
  BY <1>1, <1>2, <1>3, <1>4, <1>5, <1>6, <1>7, <1>8, Zenon DEF PgInv, StreamInv

\* Connecting, connection errors, and the service calls' first and last
\* steps keep the invariant: they move no request and no message.
LEMMA QuietStep ==
    ASSUME PgInv, TypeOK',
           \/ alpha_pg_connect_start \/ service_connect \/ alpha_pg_close \/ ServiceSyncFails
           \/ ServiceRead \/ ConsumeInput \/ DrainBusy \/ CallbackReturns \/ ServerFlushes
           \/ UNCHANGED vars
    PROVE  PgInv'
<1> USE DEF driver, libpq, net, server, history
<1>0. TypeOK /\ OutInv /\ FailsOnlyWhenLost /\ Numbering
  BY Zenon DEF PgInv
<1>1. CASE alpha_pg_connect_start
  <2>1. OutInv' /\ FailsOnlyWhenLost' /\ issued = 0
    <3>1. UNCHANGED <<outq, sent, sync_sent, flush_pending, issued, alive>> /\ state = "NONE"
      BY <1>1, Zenon DEF alpha_pg_connect_start
    <3>2. OutInv'
      BY <1>0, <3>1, Zenon DEF OutInv
    <3>3. issued = 0
      BY <1>0, <3>1, Zenon DEF Numbering
    <3>4. FailsOnlyWhenLost'
      BY <3>1, <3>3 DEF FailsOnlyWhenLost
    <3> QED
      BY <3>2, <3>3, <3>4, Zenon
  <2> QED
    BY <1>1, <2>1, Frame, Zenon DEF alpha_pg_connect_start
<1>2. CASE service_connect
  <2>1. OutInv' /\ FailsOnlyWhenLost' /\ issued = 0
    <3>1. UNCHANGED <<outq, sent, sync_sent, flush_pending, issued, alive>> /\ state = "CONNECTING"
      BY <1>2, Zenon DEF service_connect
    <3>2. OutInv'
      BY <1>0, <3>1, ZenonT(40) DEF OutInv
    <3>3. issued = 0
      BY <1>0, <3>1, Zenon DEF Numbering
    <3>4. FailsOnlyWhenLost'
      BY <3>1, <3>3 DEF FailsOnlyWhenLost
    <3> QED
      BY <3>2, <3>3, <3>4, Zenon
  <2> QED
    BY <1>2, <2>1, Frame, Zenon DEF service_connect
<1>3. CASE alpha_pg_close
  <2>1. OutInv' /\ FailsOnlyWhenLost'
    BY <1>0, <1>3, Zenon DEF OutInv, FailsOnlyWhenLost, alpha_pg_close
  <2> QED
    BY <1>3, <2>1, Frame, Zenon DEF alpha_pg_close
<1>4. CASE ServiceSyncFails
  <2>1. OutInv' /\ FailsOnlyWhenLost'
    BY <1>0, <1>4, Zenon DEF OutInv, FailsOnlyWhenLost, ServiceSyncFails
  <2> QED
    BY <1>4, <2>1, Frame, Zenon DEF ServiceSyncFails
<1>5. CASE ServiceRead \/ DrainBusy \/ CallbackReturns
  <2>1. UNCHANGED <<driver, libpq, net, server, history>>
    BY <1>5, Zenon DEF ServiceRead, DrainBusy, CallbackReturns
  <2>2. OutInv' /\ FailsOnlyWhenLost' /\ (state' \in {"NONE", "CONNECTING"} => issued = 0)
    BY <1>0, <2>1, Zenon DEF OutInv, FailsOnlyWhenLost, Numbering
  <2> QED
    BY <2>1, <2>2, Frame, Zenon
<1>6. CASE ConsumeInput
  <2>1. sent' >= sent /\ sent \in Int /\ sent' \in Int /\ Len(outq) \in Int
    <3>1. sent' \in sent .. Len(outq) \/ sent' = sent
      BY <1>6, Zenon DEF ConsumeInput
    <3>2. sent \in 0 .. Len(outq) /\ Len(outq) \in Nat
      BY <1>0 DEF TypeOK, NetType
    <3> QED
      BY <3>1, <3>2
  <2>2. OutInv' /\ FailsOnlyWhenLost' /\ (state' \in {"NONE", "CONNECTING"} => issued = 0)
    <3>1. UNCHANGED <<outq, sync_sent, flush_pending, issued, alive, state>>
      BY <1>6, Zenon DEF ConsumeInput
    <3>2. sent' < Len(outq') => flush_pending'
      BY <1>0, <2>1, <3>1 DEF OutInv
    <3>3. OutInv'
      BY <1>0, <3>1, <3>2, Zenon DEF OutInv
    <3>4. FailsOnlyWhenLost' /\ (state' \in {"NONE", "CONNECTING"} => issued = 0)
      BY <1>0, <3>1, Zenon DEF FailsOnlyWhenLost, Numbering
    <3> QED
      BY <3>3, <3>4, Zenon
  <2> QED
    BY <1>6, <2>2, Frame, Zenon DEF ConsumeInput
<1>7. CASE ServerFlushes
  <2>1. OutInv' /\ FailsOnlyWhenLost' /\ (state' \in {"NONE", "CONNECTING"} => issued = 0)
    BY <1>0, <1>7, Zenon DEF OutInv, FailsOnlyWhenLost, Numbering, ServerFlushes
  <2> QED
    BY <1>7, <2>1, Frame, Zenon DEF ServerFlushes
<1>8. CASE UNCHANGED vars
  <2>1. OutInv' /\ FailsOnlyWhenLost' /\ (state' \in {"NONE", "CONNECTING"} => issued = 0)
    BY <1>0, <1>8, Zenon DEF OutInv, FailsOnlyWhenLost, Numbering, vars
  <2> QED
    BY <1>8, <2>1, Frame, Zenon DEF vars
<1> QED
  BY <1>1, <1>2, <1>3, <1>4, <1>5, <1>6, <1>7, <1>8, Zenon
-----------------------------------------------------------------------------
(* The steps of the server. *)

\* A living server that finds a command: no boundary is under way.
LEMMA TakeFacts ==
    ASSUME PgInv, ServerTakes
    PROVE  /\ \A i \in 1 .. Len(stream) : stream[i].t \in {"tuples", "error"}
           /\ ~HasSync
           /\ ~ignoring => \A i \in 1 .. Len(stream) : stream[i].t = "tuples"
           /\ Len(outq) \in Nat /\ Len(outq) > 0
<1>0. /\ TypeOK /\ StreamInv /\ ServerInv /\ alive
  BY Zenon DEF PgInv, ServerTakes
<1>1. Len(outq) > 0 /\ Len(outq) \in Nat /\ outq # <<>>
  BY <1>0, TakeType DEF TypeOK, NetType
<1>2. ASSUME NEW i \in 1 .. Len(stream) PROVE stream[i].t \in {"tuples", "error"}
  <2>1. stream[i].t # "sync"
    BY <1>0, <1>1, Zenon DEF StreamInv, SyncEndsBatch
  <2>2. stream[i].t # "fatal"
    BY <1>0, Zenon DEF StreamInv, FatalIsLast
  <2> QED
    BY <1>0, <2>1, <2>2, MessageType, Zenon
<1>3. ~HasSync
  BY <1>2, Zenon DEF HasSync
<1>4. ASSUME ~ignoring, NEW i \in 1 .. Len(stream) PROVE stream[i].t = "tuples"
  BY <1>0, <1>2, <1>3, <1>4, Zenon DEF ServerInv, HasError
<1> QED
  BY <1>1, <1>2, <1>3, <1>4, Zenon

\* What a server step leaves alone in the client.
LEMMA ServerFrame ==
    ASSUME PgInv, UNCHANGED <<driver, libpq, history>>, alive' => alive
    PROVE  /\ FifoAligned' /\ CallbackIdentity' /\ Numbering' /\ StatusInv'
           /\ alive' = alive => FailsOnlyWhenLost'
           /\ state = "READY" => FailsOnlyWhenLost'
<1> USE DEF driver, libpq, history
<1>1. FifoAligned' /\ CallbackIdentity'
  BY Zenon DEF PgInv, FifoAligned, CallbackIdentity, Slot
<1>2. Numbering'
  BY Zenon DEF PgInv, Numbering, Slot
<1>3. StatusInv'
  BY Zenon DEF PgInv, StatusInv
<1>4. (alive' = alive => FailsOnlyWhenLost') /\ (state = "READY" => FailsOnlyWhenLost')
  BY Zenon DEF PgInv, FailsOnlyWhenLost
<1> QED
  BY <1>1, <1>2, <1>3, <1>4, Zenon

\* The command a server that is not skipping takes is the first one without an
\* answer, and the ring knows it.
LEMMA NextCommand ==
    ASSUME PgInv, ServerTakes, ~ignoring
    PROVE  /\ pipeline = "ON" /\ Len(stream) + Len(outq) = Len(cmdq)
           /\ outq[1] = cmdq[Len(stream) + 1]
           /\ outq[1].t = "query" => /\ Len(stream) + 1 <= count
                                     /\ outq[1].id = Len(delivered) + Len(stream) + 1
           /\ \A k \in 1 .. Len(outq) : outq[k] = cmdq[Len(stream) + k]
<1>0. TypeOK /\ FifoAligned /\ Numbering /\ ServerInv /\ alive
  BY Zenon DEF PgInv, ServerTakes
<1>1. Len(outq) \in Nat /\ Len(outq) > 0 /\ ~HasSync
  BY TakeFacts, Zenon
<1>2. /\ pipeline = "ON" /\ Len(stream) + Len(outq) = Len(cmdq)
      /\ \A k \in 1 .. Len(outq) : outq[k] = cmdq[Len(stream) + k]
  BY <1>0, <1>1, Zenon DEF ServerInv, TypeOK, LibpqType
<1>3. outq[1] = cmdq[Len(stream) + 1]
  BY <1>1, <1>2
<1>4. ASSUME outq[1].t = "query"
      PROVE  Len(stream) + 1 <= count /\ outq[1].id = Len(delivered) + Len(stream) + 1
  <2>1. Len(stream) \in Nat /\ Len(delivered) \in Nat /\ count \in Nat
    BY <1>0, CapacityAssumption DEF TypeOK, DriverType, NetType, HistoryType
  <2>2. Len(stream) + 1 <= count
    <3>1. CASE sync_sent
      <4>1. Len(cmdq) = count + 1 /\ cmdq[count + 1] = Sync
        BY <1>0, <3>1, Zenon DEF FifoAligned
      <4>2. Len(stream) + 1 # count + 1
        BY <1>3, <1>4, <4>1 DEF Sync
      <4> QED
        BY <1>1, <1>2, <2>1, <4>1, <4>2
    <3>2. CASE ~sync_sent
      <4>1. Len(cmdq) = count
        BY <1>0, <2>1, <3>2 DEF FifoAligned
      <4> QED
        BY <1>1, <1>2, <2>1, <4>1
    <3> QED
      BY <3>1, <3>2, Zenon
  <2>3. Len(stream) + 1 \in 1 .. count
    BY <2>1, <2>2
  <2>4. cmdq[Len(stream) + 1] = Query(fifo[Slot(Len(stream) + 1 - 1)])
    BY <1>0, <2>3 DEF FifoAligned
  <2>5. fifo[Slot(Len(stream) + 1 - 1)].id = Len(delivered) + (Len(stream) + 1)
    BY <1>0, <2>3 DEF Numbering
  <2> QED
    BY <1>3, <2>1, <2>2, <2>4, <2>5 DEF Query
<1> QED
  BY <1>2, <1>3, <1>4, Zenon

\* A command less on its way to the server.
LEMMA OutTake ==
    ASSUME PgInv, ServerTakes, UNCHANGED <<sync_sent, flush_pending>>
    PROVE  OutInv'
<1>0. TypeOK /\ OutInv
  BY Zenon DEF PgInv
<1>1. /\ Len(outq) > 0 /\ Len(outq') = Len(outq) - 1 /\ Len(outq) \in Nat
      /\ \A k \in 1 .. Len(outq') : outq'[k] = outq[k + 1]
  BY <1>0, TakeType DEF TypeOK, NetType
<1>2. sent \in Nat /\ sent' = sent - 1
  BY <1>0 DEF ServerTakes, TypeOK, NetType
<1>3. ASSUME NEW k \in 1 .. Len(outq'), outq'[k].t = "sync" PROVE k = Len(outq') /\ sync_sent
  <2>1. k + 1 \in 1 .. Len(outq)
    BY <1>1
  <2>2. k + 1 = Len(outq) /\ sync_sent
    BY <1>0, <1>1, <1>3, <2>1, Zenon DEF OutInv
  <2> QED
    BY <1>1, <2>2
<1>4. sent' < Len(outq') => flush_pending
  BY <1>0, <1>1, <1>2 DEF OutInv
<1> QED
  BY <1>3, <1>4, Zenon DEF OutInv

\* One message more at the end of the stream.
LEMMA StreamAppend ==
    ASSUME TypeOK, NEW m \in Message, stream' = Append(stream, m)
    PROVE  /\ Len(stream) \in Nat /\ Len(stream') = Len(stream) + 1
           /\ stream'[Len(stream) + 1] = m
           /\ \A i \in 1 .. Len(stream) : stream'[i] = stream[i]
           /\ \A i \in 1 .. Len(stream') : i \in 1 .. Len(stream) \/ i = Len(stream) + 1
<1>1. /\ Len(stream) \in Nat /\ Len(stream') = Len(stream) + 1
      /\ stream'[Len(stream) + 1] = m
      /\ \A i \in 1 .. Len(stream) : stream'[i] = stream[i]
  BY AppendFacts DEF TypeOK, NetType
<1> QED
  BY <1>1

\* An executed statement's effect is recorded once.
LEMMA EffectAppend ==
    ASSUME PgInv, NEW m \in Message, stream' = Append(stream, m), alive,
           UNCHANGED <<pipeline, delivered>>, txn' \union committed' \subseteq txn \union committed
    PROVE  EffectInv'
<1>0. TypeOK /\ EffectInv
  BY Zenon DEF PgInv
<1>1. /\ Len(stream) \in Nat /\ Len(stream') = Len(stream) + 1
      /\ \A i \in 1 .. Len(stream) : stream'[i] = stream[i]
  BY <1>0, StreamAppend, Zenon
<1> SUFFICES ASSUME NEW x \in txn \union committed, x > Len(delivered)
             PROVE  /\ x - Len(delivered) <= Len(stream')
                    /\ \A j \in 1 .. Len(stream') :
                          j <= x - Len(delivered) => stream'[j].t = "tuples"
  BY <1>0, Zenon DEF EffectInv
<1>2. x \in Nat /\ Len(delivered) \in Nat
  BY <1>0 DEF TypeOK, ServerType, HistoryType
<1>3. /\ x - Len(delivered) <= Len(stream)
      /\ \A j \in 1 .. Len(stream) : j <= x - Len(delivered) => stream[j].t = "tuples"
  BY <1>0, Zenon DEF EffectInv
<1>4. ASSUME NEW j \in 1 .. Len(stream'), j <= x - Len(delivered) PROVE stream'[j].t = "tuples"
  <2>1. j \in 1 .. Len(stream)
    BY <1>1, <1>2, <1>3, <1>4
  <2> QED
    BY <1>1, <1>3, <1>4, <2>1, Zenon
<1> QED
  BY <1>1, <1>2, <1>3, <1>4

\* A statement that succeeds keeps the invariant.
LEMMA ExecutesStep ==
    ASSUME PgInv, TypeOK', ServerExecutes
    PROVE  PgInv'
<1> DEFINE m == Answer("tuples", outq[1])
<1>0. TypeOK /\ StreamInv /\ ServerInv /\ EffectInv
  BY Zenon DEF PgInv
<1>1. /\ ServerTakes /\ ~ignoring /\ alive /\ UNCHANGED <<driver, libpq, history>>
      /\ UNCHANGED <<sync_sent, flush_pending, count, cmdq, pipeline, delivered>>
      /\ UNCHANGED <<ignoring, alive, committed>>
  BY Zenon DEF ServerExecutes, ServerTakes, driver, libpq, history
<1>2. /\ outq[1].t = "query" /\ outq[1] \in Command /\ outq[1].id \in Nat
      /\ stream' = Append(stream, m) /\ txn' = txn \union {outq[1].id}
      /\ Len(outq') = Len(outq) - 1
      /\ \A k \in 1 .. Len(outq') : outq'[k] = outq[k + 1]
  <2>1. /\ Head(outq) = outq[1] /\ outq[1] \in Command /\ outq[1].id \in Nat
        /\ Len(outq') = Len(outq) - 1
        /\ \A k \in 1 .. Len(outq') : outq'[k] = outq[k + 1]
    BY <1>0, <1>1, TakeType, Zenon
  <2> QED
    BY <2>1, Zenon DEF ServerExecutes
<1>3. m \in Message /\ m.t = "tuples" /\ m.id = outq[1].id /\ m.kind = outq[1].kind
  BY <1>2, AnswerType, Zenon DEF Answer
<1> HIDE DEF m
<1>4. /\ Len(stream) \in Nat /\ Len(stream') = Len(stream) + 1
      /\ stream'[Len(stream) + 1] = m
      /\ \A i \in 1 .. Len(stream) : stream'[i] = stream[i]
      /\ \A i \in 1 .. Len(stream') : i \in 1 .. Len(stream) \/ i = Len(stream) + 1
  BY <1>0, <1>2, <1>3, StreamAppend, Zenon
<1>5. /\ \A i \in 1 .. Len(stream) : stream[i].t = "tuples"
      /\ ~HasSync /\ Len(outq) \in Nat /\ Len(outq) > 0
  BY <1>1, TakeFacts, Zenon
<1>6. \A i \in 1 .. Len(stream') : stream'[i].t = "tuples"
  BY <1>3, <1>4, <1>5, Zenon
<1>7. /\ pipeline = "ON" /\ Len(stream) + Len(outq) = Len(cmdq)
      /\ outq[1] = cmdq[Len(stream) + 1] /\ Len(stream) + 1 <= count
      /\ outq[1].id = Len(delivered) + Len(stream) + 1
      /\ \A k \in 1 .. Len(outq) : outq[k] = cmdq[Len(stream) + k]
  BY <1>1, <1>2, NextCommand, Zenon
<1>8. FifoAligned' /\ CallbackIdentity' /\ Numbering' /\ StatusInv' /\ FailsOnlyWhenLost'
  BY <1>1, ServerFrame, ZenonT(40)
<1>9. OutInv'
  BY <1>1, OutTake, Zenon
<1>10. StreamInv'
  <2>1. RowsAligned'
    <3> SUFFICES ASSUME NEW i \in 1 .. Len(stream')
                 PROVE  /\ i <= count
                        /\ stream'[i].id = cmdq[i].id /\ stream'[i].kind = cmdq[i].kind
      BY <1>1, <1>7, Zenon DEF RowsAligned
    <3>1. CASE i \in 1 .. Len(stream)
      BY <1>0, <1>4, <1>5, <3>1, Zenon DEF StreamInv, RowsAligned
    <3>2. CASE i = Len(stream) + 1
      BY <1>3, <1>4, <1>7, <3>2, Zenon
    <3> QED
      BY <1>4, <3>1, <3>2, Zenon
  <2>2. ErrorEndsBatch' /\ SyncEndsBatch' /\ FatalIsLast'
    BY <1>6, Zenon DEF ErrorEndsBatch, SyncEndsBatch, FatalIsLast
  <2> QED
    BY <2>1, <2>2, Zenon DEF StreamInv
<1>11. ServerInv'
  <2>1. ~HasSync' /\ ~HasError'
    BY <1>6, Zenon DEF HasSync, HasError
  <2>a. /\ Len(stream) \in Nat /\ Len(outq) \in Nat /\ Len(stream) + Len(outq) = Len(cmdq)
        /\ Len(stream') = Len(stream) + 1 /\ Len(outq') = Len(outq) - 1
    BY <1>2, <1>4, <1>5, <1>7, Zenon
  <2>2. Len(stream') + Len(outq') = Len(cmdq)
    BY <2>a
  <2>3. ASSUME NEW k \in 1 .. Len(outq') PROVE outq'[k] = cmdq[Len(stream') + k]
    <3>1. k + 1 \in 1 .. Len(outq) /\ Len(stream') + k = Len(stream) + (k + 1)
      BY <2>a
    <3> QED
      BY <1>2, <1>7, <3>1
  <2> QED
    BY <1>1, <1>7, <2>1, <2>2, <2>3, Zenon DEF ServerInv
<1>12. EffectInv'
  <2> SUFFICES ASSUME NEW x \in txn \union committed \union {outq[1].id}
               PROVE  /\ x >= 1
                      /\ x <= Len(delivered) => delivered[x].ok
                      /\ x > Len(delivered) => x - Len(delivered) <= Len(stream')
    BY <1>1, <1>2, <1>6, <1>7, Zenon DEF EffectInv
  <2>1. Len(delivered) \in Nat /\ (x \in txn \union committed => x \in Nat)
    <3>1. Len(delivered) \in Nat
      BY <1>0 DEF TypeOK, HistoryType
    <3>2. x \in txn \union committed => x \in Nat
      BY <1>0, Zenon DEF TypeOK, ServerType
    <3> QED
      BY <3>1, <3>2, Zenon
  <2>2. CASE x \in txn \union committed
    BY <1>0, <1>1, <1>4, <2>1, <2>2 DEF EffectInv
  <2>3. CASE x = outq[1].id
    BY <1>4, <1>7, <2>1, <2>3
  <2> QED
    BY <2>2, <2>3, Zenon
<1> QED
  BY <1>8, <1>9, <1>10, <1>11, <1>12, Zenon DEF PgInv

\* A statement that fails keeps the invariant: the batch is aborted.
LEMMA RejectsStep ==
    ASSUME PgInv, TypeOK', ServerRejects
    PROVE  PgInv'
<1> DEFINE m == Answer("error", outq[1])
<1>0. TypeOK /\ StreamInv /\ ServerInv /\ EffectInv
  BY Zenon DEF PgInv
<1>1. /\ ServerTakes /\ ~ignoring /\ ignoring' = TRUE /\ alive
      /\ UNCHANGED <<driver, libpq, history>>
      /\ UNCHANGED <<sync_sent, flush_pending, count, cmdq, pipeline, delivered>>
      /\ UNCHANGED <<alive, committed>> /\ txn' = {}
  BY Zenon DEF ServerRejects, ServerTakes, driver, libpq, history
<1>2. outq[1].t = "query" /\ outq[1] \in Command /\ stream' = Append(stream, m)
  <2>1. Head(outq) = outq[1] /\ outq[1] \in Command
    BY <1>0, <1>1, TakeType, Zenon
  <2> QED
    BY <2>1, Zenon DEF ServerRejects
<1>3. m \in Message /\ m.t = "error" /\ m.id = outq[1].id /\ m.kind = outq[1].kind
  BY <1>2, AnswerType, Zenon DEF Answer
<1> HIDE DEF m
<1>4. /\ Len(stream) \in Nat /\ Len(stream') = Len(stream) + 1
      /\ stream'[Len(stream) + 1] = m
      /\ \A i \in 1 .. Len(stream) : stream'[i] = stream[i]
      /\ \A i \in 1 .. Len(stream') : i \in 1 .. Len(stream) \/ i = Len(stream) + 1
  BY <1>0, <1>2, <1>3, StreamAppend, Zenon
<1>5. \A i \in 1 .. Len(stream) : stream[i].t = "tuples"
  BY <1>1, TakeFacts, Zenon
<1>6. /\ pipeline = "ON" /\ outq[1] = cmdq[Len(stream) + 1] /\ Len(stream) + 1 <= count
  BY <1>1, <1>2, NextCommand, Zenon
<1>7. FifoAligned' /\ CallbackIdentity' /\ Numbering' /\ StatusInv' /\ FailsOnlyWhenLost'
  BY <1>1, ServerFrame, Zenon
<1>8. OutInv'
  BY <1>1, OutTake, Zenon
<1>9. StreamInv'
  <2>1. RowsAligned'
    <3> SUFFICES ASSUME NEW i \in 1 .. Len(stream')
                 PROVE  /\ i <= count
                        /\ stream'[i].id = cmdq[i].id /\ stream'[i].kind = cmdq[i].kind
      BY <1>1, <1>6, Zenon DEF RowsAligned
    <3>1. CASE i \in 1 .. Len(stream)
      BY <1>0, <1>4, <1>5, <3>1, Zenon DEF StreamInv, RowsAligned
    <3>2. CASE i = Len(stream) + 1
      BY <1>3, <1>4, <1>6, <3>2, Zenon
    <3> QED
      BY <1>4, <3>1, <3>2, Zenon
  <2>2. \A i \in 1 .. Len(stream') :
            /\ stream'[i].t \in {"tuples", "error"}
            /\ stream'[i].t = "error" => i = Len(stream')
    BY <1>3, <1>4, <1>5, Zenon
  <2>3. ErrorEndsBatch' /\ SyncEndsBatch' /\ FatalIsLast'
    BY <1>4, <2>2 DEF ErrorEndsBatch, SyncEndsBatch, FatalIsLast
  <2> QED
    BY <2>1, <2>3, Zenon DEF StreamInv
<1>10. ServerInv'
  <2>1. ~HasSync' /\ HasError'
    BY <1>3, <1>4, <1>5 DEF HasSync, HasError
  <2> QED
    BY <1>1, <2>1, Zenon DEF ServerInv
<1>11. EffectInv'
  BY <1>1, <1>2, <1>3, EffectAppend, Zenon
<1> QED
  BY <1>7, <1>8, <1>9, <1>10, <1>11, Zenon DEF PgInv

\* A statement skipped in an aborted batch keeps the invariant.
LEMMA SkipsStep ==
    ASSUME PgInv, TypeOK', ServerSkips
    PROVE  PgInv'
<1>0. TypeOK /\ StreamInv /\ ServerInv /\ EffectInv
  BY Zenon DEF PgInv
<1>1. /\ ServerTakes /\ ignoring
      /\ UNCHANGED <<driver, libpq, history>>
      /\ UNCHANGED <<sync_sent, flush_pending, count, cmdq, pipeline, delivered, stream>>
      /\ UNCHANGED <<alive, committed, txn, ignoring>>
  BY Zenon DEF ServerSkips, driver, libpq, history, server
<1>2. ~HasSync
  BY <1>1, TakeFacts, Zenon
<1>3. FifoAligned' /\ CallbackIdentity' /\ Numbering' /\ StatusInv' /\ FailsOnlyWhenLost'
  BY <1>1, ServerFrame, Zenon
<1>4. OutInv'
  BY <1>1, OutTake, Zenon
<1>5. StreamInv'
  BY <1>0, <1>1, <1>2
  DEF StreamInv, RowsAligned, ErrorEndsBatch, SyncEndsBatch, FatalIsLast, HasSync
<1>6. ServerInv' /\ EffectInv'
  BY <1>0, <1>1, Zenon DEF ServerInv, EffectInv, HasSync, HasError
<1> QED
  BY <1>3, <1>4, <1>5, <1>6, Zenon DEF PgInv

\* A sync point at the server keeps the invariant.
LEMMA SyncsStep ==
    ASSUME PgInv, TypeOK', ServerSyncs
    PROVE  PgInv'
<1> DEFINE m == Answer("sync", outq[1])
<1>0. TypeOK /\ FifoAligned /\ StreamInv /\ OutInv /\ ServerInv /\ EffectInv
  BY Zenon DEF PgInv
<1>1. /\ ServerTakes /\ alive /\ ignoring' = FALSE
      /\ UNCHANGED <<driver, libpq, history>>
      /\ UNCHANGED <<sync_sent, flush_pending, count, cmdq, pipeline, delivered>>
      /\ UNCHANGED <<alive>> /\ txn' = {} /\ committed' = committed \union txn
  BY Zenon DEF ServerSyncs, ServerTakes, driver, libpq, history
<1>2. /\ outq[1].t = "sync" /\ outq[1] \in Command /\ stream' = Append(stream, m)
      /\ Len(outq) > 0 /\ Len(outq') = Len(outq) - 1 /\ outq' \in Seq(Command)
  <2>1. /\ Head(outq) = outq[1] /\ outq[1] \in Command
        /\ Len(outq) > 0 /\ Len(outq') = Len(outq) - 1 /\ outq' \in Seq(Command)
    BY <1>0, <1>1, TakeType, Zenon
  <2> QED
    BY <2>1, Zenon DEF ServerSyncs
<1>3. m \in Message /\ m.t = "sync"
  BY <1>2, AnswerType, Zenon DEF Answer
<1> HIDE DEF m
<1>4. /\ Len(stream) \in Nat /\ Len(stream') = Len(stream) + 1
      /\ stream'[Len(stream) + 1] = m
      /\ \A i \in 1 .. Len(stream) : stream'[i] = stream[i]
      /\ \A i \in 1 .. Len(stream') : i \in 1 .. Len(stream) \/ i = Len(stream) + 1
  BY <1>0, <1>2, <1>3, StreamAppend, Zenon
<1>5. \A i \in 1 .. Len(stream) : stream[i].t \in {"tuples", "error"}
  BY <1>1, TakeFacts, Zenon
<1>6. Len(outq) = 1 /\ sync_sent /\ outq' = <<>>
  <2>1. Len(outq) \in Nat
    BY <1>1, TakeFacts, Zenon
  <2>2. 1 = Len(outq) /\ sync_sent
    BY <1>0, <1>2, <2>1 DEF OutInv
  <2>3. outq' \in Seq(Command) /\ Len(outq') = 0
    <3>1. Len(outq') = Len(outq) - 1 /\ Len(outq) = 1
      BY <1>2, <2>2, Zenon
    <3> QED
      BY <1>2, <3>1
  <2>4. outq' = <<>>
    BY <2>3
  <2> QED
    BY <2>2, <2>4, Zenon
<1>7. FifoAligned' /\ CallbackIdentity' /\ Numbering' /\ StatusInv' /\ FailsOnlyWhenLost'
  BY <1>1, ServerFrame, Zenon
<1>8. OutInv'
  BY <1>1, OutTake, Zenon
<1>9. StreamInv'
  <2>1. RowsAligned'
    <3> SUFFICES ASSUME NEW i \in 1 .. Len(stream'), stream'[i].t \in {"tuples", "error"}
                 PROVE  /\ pipeline = "ON" /\ i <= count
                        /\ stream'[i].id = cmdq[i].id /\ stream'[i].kind = cmdq[i].kind
      BY <1>1, Zenon DEF RowsAligned
    <3>1. i \in 1 .. Len(stream) /\ stream'[i] = stream[i]
      BY <1>3, <1>4, Zenon
    <3> QED
      BY <1>0, <3>1, Zenon DEF StreamInv, RowsAligned
  <2>2. ErrorEndsBatch'
    <3> SUFFICES ASSUME NEW i \in 1 .. Len(stream'), NEW j \in 1 .. Len(stream'),
                        stream'[i].t = "error", i < j
                 PROVE  stream'[j].t \in {"sync", "fatal"}
      BY Zenon DEF ErrorEndsBatch
    <3>1. i \in 1 .. Len(stream)
      BY <1>3, <1>4, Zenon
    <3>2. CASE j \in 1 .. Len(stream)
      BY <1>0, <1>4, <3>1, <3>2, Zenon DEF StreamInv, ErrorEndsBatch
    <3>3. CASE j = Len(stream) + 1
      BY <1>3, <1>4, <3>3, Zenon
    <3> QED
      BY <1>4, <3>2, <3>3, Zenon
  <2>3. FatalIsLast'
    BY <1>3, <1>4, <1>5, Zenon DEF FatalIsLast
  <2>4. \/ pipeline = "ABORTED" \/ Len(stream) + 1 = count + 1
        \/ \E j \in 1 .. Len(stream) : stream[j].t = "error"
    <3>1. CASE ignoring
      BY <1>0, <1>1, <3>1, ZenonT(40) DEF ServerInv, HasError
    <3>2. CASE ~ignoring
      <4>1. Len(stream) + Len(outq) = Len(cmdq)
        BY <1>1, <3>2, NextCommand, Zenon
      <4>2. Len(cmdq) = count + 1
        BY <1>0, <1>6, Zenon DEF FifoAligned
      <4> QED
        BY <1>6, <4>1, <4>2, Zenon
    <3> QED
      BY <3>1, <3>2, ZenonT(40)
  <2>5. SyncEndsBatch'
    <3> SUFFICES ASSUME NEW i \in 1 .. Len(stream'), stream'[i].t = "sync"
                 PROVE  /\ \A j \in 1 .. Len(stream') : i < j => stream'[j].t = "fatal"
                        /\ \/ pipeline = "ABORTED" \/ i = count + 1
                           \/ \E j \in 1 .. Len(stream') : j < i /\ stream'[j].t = "error"
      BY <1>1, <1>6, Zenon DEF SyncEndsBatch
    <3>1. i = Len(stream) + 1 /\ i = Len(stream')
      BY <1>4, <1>5, Zenon
    <3>2. ASSUME NEW j \in 1 .. Len(stream), stream[j].t = "error"
          PROVE  \E n \in 1 .. Len(stream') : n < i /\ stream'[n].t = "error"
      <4>1. j \in 1 .. Len(stream') /\ j < i /\ stream'[j] = stream[j]
        BY <1>4, <3>1
      <4> QED
        BY <3>2, <4>1, Zenon
    <3> QED
      BY <1>4, <2>4, <3>1, <3>2, SMTT(30)
  <2> QED
    BY <2>1, <2>2, <2>3, <2>5, Zenon DEF StreamInv
<1>10. ServerInv'
  <2>1. HasSync'
    <3>1. Len(stream) + 1 \in 1 .. Len(stream')
      BY <1>4
    <3> QED
      BY <1>3, <1>4, <3>1, Zenon DEF HasSync
  <2> QED
    BY <1>1, <2>1, Zenon DEF ServerInv
<1>11. EffectInv'
  BY <1>1, <1>2, <1>3, EffectAppend, Zenon
<1> QED
  BY <1>7, <1>8, <1>9, <1>10, <1>11, Zenon DEF PgInv

\* A server that says it is going away keeps the invariant.
LEMMA TerminatesStep ==
    ASSUME PgInv, TypeOK', ServerTerminates
    PROVE  PgInv'
<1> DEFINE m == Answer("fatal", Sync)
<1>0. TypeOK /\ StreamInv /\ OutInv /\ ServerInv /\ EffectInv
  BY Zenon DEF PgInv
<1>1. /\ alive /\ alive' = FALSE /\ txn' = {} /\ state = "READY"
      /\ UNCHANGED <<driver, libpq, history>>
      /\ UNCHANGED <<sync_sent, flush_pending, count, cmdq, pipeline, delivered>>
      /\ UNCHANGED <<outq, sent, committed>> /\ stream' = Append(stream, m)
  BY Zenon DEF ServerTerminates, driver, libpq, history
<1>2. m \in Message /\ m.t = "fatal" /\ m.id = 0
  BY NoRequestType, AnswerType, Zenon DEF Answer, Sync
<1> HIDE DEF m
<1>3. /\ Len(stream) \in Nat /\ Len(stream') = Len(stream) + 1
      /\ stream'[Len(stream) + 1] = m
      /\ \A i \in 1 .. Len(stream) : stream'[i] = stream[i]
      /\ \A i \in 1 .. Len(stream') : i \in 1 .. Len(stream) \/ i = Len(stream) + 1
  BY <1>0, <1>1, <1>2, StreamAppend, Zenon
<1>4. \A i \in 1 .. Len(stream) : stream[i].t # "fatal"
  BY <1>0, <1>1, Zenon DEF StreamInv, FatalIsLast
<1>5. FifoAligned' /\ CallbackIdentity' /\ Numbering' /\ StatusInv' /\ FailsOnlyWhenLost'
  BY <1>1, ServerFrame, Zenon
<1>6. OutInv' /\ ServerInv'
  BY <1>0, <1>1, Zenon DEF OutInv, ServerInv
<1>7. StreamInv'
  <2>1. RowsAligned'
    <3> SUFFICES ASSUME NEW i \in 1 .. Len(stream'), stream'[i].t \in {"tuples", "error"}
                 PROVE  /\ pipeline = "ON" /\ i <= count
                        /\ stream'[i].id = cmdq[i].id /\ stream'[i].kind = cmdq[i].kind
      BY <1>1, Zenon DEF RowsAligned
    <3>1. i \in 1 .. Len(stream) /\ stream'[i] = stream[i]
      BY <1>2, <1>3, Zenon
    <3> QED
      BY <1>0, <3>1, Zenon DEF StreamInv, RowsAligned
  <2>2. ErrorEndsBatch'
    <3> SUFFICES ASSUME NEW i \in 1 .. Len(stream'), NEW j \in 1 .. Len(stream'),
                        stream'[i].t = "error", i < j
                 PROVE  stream'[j].t \in {"sync", "fatal"}
      BY Zenon DEF ErrorEndsBatch
    <3>1. i \in 1 .. Len(stream)
      BY <1>2, <1>3, Zenon
    <3>2. CASE j \in 1 .. Len(stream)
      BY <1>0, <1>3, <3>1, <3>2, Zenon DEF StreamInv, ErrorEndsBatch
    <3>3. CASE j = Len(stream) + 1
      BY <1>2, <1>3, <3>3, Zenon
    <3> QED
      BY <1>3, <3>2, <3>3, Zenon
  <2>3. FatalIsLast'
    BY <1>1, <1>2, <1>3, <1>4, Zenon DEF FatalIsLast
  <2>4. SyncEndsBatch'
    <3> SUFFICES ASSUME NEW i \in 1 .. Len(stream'), stream'[i].t = "sync"
                 PROVE  /\ sync_sent /\ outq = <<>>
                        /\ \A j \in 1 .. Len(stream') : i < j => stream'[j].t = "fatal"
                        /\ \/ pipeline = "ABORTED" \/ i = count + 1
                           \/ \E j \in 1 .. Len(stream') : j < i /\ stream'[j].t = "error"
      BY <1>1 DEF SyncEndsBatch
    <3>1. i \in 1 .. Len(stream) /\ stream[i].t = "sync"
      BY <1>2, <1>3, Zenon
    <3>2. /\ sync_sent /\ outq = <<>>
          /\ \A j \in 1 .. Len(stream) : i < j => stream[j].t = "fatal"
          /\ \/ pipeline = "ABORTED" \/ i = count + 1
             \/ \E j \in 1 .. Len(stream) : j < i /\ stream[j].t = "error"
      BY <1>0, <3>1, Zenon DEF StreamInv, SyncEndsBatch
    <3>3. ASSUME NEW j \in 1 .. Len(stream'), i < j PROVE stream'[j].t = "fatal"
      BY <1>2, <1>3, <3>2, <3>3, Zenon
    <3>4. ASSUME NEW j \in 1 .. Len(stream), j < i, stream[j].t = "error"
          PROVE  \E n \in 1 .. Len(stream') : n < i /\ stream'[n].t = "error"
      <4>1. j \in 1 .. Len(stream') /\ stream'[j] = stream[j]
        BY <1>3
      <4> QED
        BY <3>4, <4>1, Zenon
    <3> QED
      BY <3>2, <3>3, <3>4, Zenon
  <2> QED
    BY <2>1, <2>2, <2>3, <2>4, Zenon DEF StreamInv
<1>8. EffectInv'
  BY <1>1, <1>2, EffectAppend, Zenon
<1> QED
  BY <1>5, <1>6, <1>7, <1>8, Zenon DEF PgInv

\* A server that vanishes keeps the invariant.
LEMMA CrashesStep ==
    ASSUME PgInv, TypeOK', ServerCrashes
    PROVE  PgInv'
<1>0. TypeOK /\ StreamInv /\ OutInv /\ ServerInv /\ EffectInv
  BY Zenon DEF PgInv
<1>1. /\ alive /\ alive' = FALSE /\ txn' = {} /\ state = "READY"
      /\ UNCHANGED <<driver, libpq, history>>
      /\ UNCHANGED <<sync_sent, flush_pending, count, cmdq, pipeline, delivered>>
      /\ UNCHANGED <<outq, sent, committed>>
  BY Zenon DEF ServerCrashes, driver, libpq, history
<1>2. /\ Len(stream) \in Nat /\ Len(stream') \in 0 .. Len(stream)
      /\ \A i \in 1 .. Len(stream') : stream'[i] = stream[i] /\ i \in 1 .. Len(stream)
  <2>1. PICK k \in arrived .. flushed : stream' = SubSeq(stream, 1, k)
    BY Zenon DEF ServerCrashes
  <2>2. k \in 0 .. Len(stream) /\ stream \in Seq(Message) /\ Len(stream) \in Nat
    BY <1>0, SMTT(30) DEF TypeOK, NetType
  <2>3. Len(stream') = k /\ \A i \in 1 .. k : stream'[i] = stream[i]
    BY <2>1, <2>2
  <2> QED
    BY <2>2, <2>3
<1>3. FifoAligned' /\ CallbackIdentity' /\ Numbering' /\ StatusInv' /\ FailsOnlyWhenLost'
  BY <1>1, ServerFrame, Zenon
<1>4. OutInv' /\ ServerInv'
  BY <1>0, <1>1, Zenon DEF OutInv, ServerInv
<1>5. StreamInv'
  <2>1. RowsAligned' /\ ErrorEndsBatch'
    BY <1>0, <1>1, <1>2, SMTT(30) DEF StreamInv, RowsAligned, ErrorEndsBatch
  <2>2. FatalIsLast'
    BY <1>0, <1>1, <1>2, Zenon DEF StreamInv, FatalIsLast
  <2>3. SyncEndsBatch'
    <3> SUFFICES ASSUME NEW i \in 1 .. Len(stream'), stream'[i].t = "sync"
                 PROVE  /\ sync_sent /\ outq = <<>>
                        /\ \A j \in 1 .. Len(stream') : i < j => stream'[j].t = "fatal"
                        /\ \/ pipeline = "ABORTED" \/ i = count + 1
                           \/ \E j \in 1 .. Len(stream') : j < i /\ stream'[j].t = "error"
      BY <1>1, Zenon DEF SyncEndsBatch
    <3>1. /\ sync_sent /\ outq = <<>>
          /\ \A j \in 1 .. Len(stream) : i < j => stream[j].t = "fatal"
          /\ \/ pipeline = "ABORTED" \/ i = count + 1
             \/ \E j \in 1 .. Len(stream) : j < i /\ stream[j].t = "error"
      BY <1>0, <1>2, Zenon DEF StreamInv, SyncEndsBatch
    <3>2. ASSUME NEW j \in 1 .. Len(stream), j < i, stream[j].t = "error"
          PROVE  \E n \in 1 .. Len(stream') : n < i /\ stream'[n].t = "error"
      <4>1. j \in 1 .. Len(stream')
        BY <1>2, <3>2
      <4> QED
        BY <1>2, <3>2, <4>1, Zenon
    <3> QED
      BY <1>2, <3>1, <3>2, Zenon
  <2> QED
    BY <2>1, <2>2, <2>3, Zenon DEF StreamInv
<1>6. EffectInv'
  BY <1>0, <1>1, <1>2, ZenonT(40) DEF EffectInv
<1> QED
  BY <1>3, <1>4, <1>5, <1>6, Zenon DEF PgInv

-----------------------------------------------------------------------------
(* The steps of the client and of libpq that move requests and messages. *)

\* send_request writes the slot after the last: the ring grows by it.
LEMMA RingAppend ==
    ASSUME TypeOK, count # Capacity, NEW r \in Request,
           fifo' = [fifo EXCEPT ![TailSlot] = r], head' = head
    PROVE  /\ \A i \in 1 .. count : fifo'[Slot(i - 1)'] = fifo[Slot(i - 1)]
           /\ fifo'[TailSlot] = r
<1>0. /\ head \in Slots /\ count \in 0 .. Capacity - 1 /\ Capacity \in Nat \ {0}
      /\ fifo \in [Slots -> Request]
  BY CapacityAssumption DEF TypeOK, DriverType
<1>1. TailSlot = (head + count) % Capacity /\ TailSlot \in Slots
  BY <1>0, Wrap DEF TailSlot
<1>2. fifo'[TailSlot] = r
  BY <1>0, <1>1, Zenon
<1>3. ASSUME NEW i \in 1 .. count PROVE fifo'[Slot(i - 1)'] = fifo[Slot(i - 1)]
  <2>1. i - 1 \in 0 .. Capacity /\ count \in 0 .. Capacity
    BY <1>0
  <2>a. /\ (head + (i - 1)) % Capacity =
              IF head + (i - 1) < Capacity THEN head + (i - 1) ELSE head + (i - 1) - Capacity
        /\ (head + (i - 1)) % Capacity \in Slots
    BY <1>0, <2>1, Wrap, Zenon
  <2>b. TailSlot = IF head + count < Capacity THEN head + count ELSE head + count - Capacity
    BY <1>0, <1>1, <2>1, Wrap, Zenon
  <2>2. (head + (i - 1)) % Capacity # TailSlot /\ (head + (i - 1)) % Capacity \in Slots
    BY <1>0, <2>a, <2>b DEF Slots
  <2> QED
    BY <1>0, <2>2, Zenon DEF Slot
<1> QED
  BY <1>2, <1>3, Zenon

\* send_request keeps the invariant.
LEMMA SendStep ==
    ASSUME PgInv, TypeOK', NEW kind \in Kinds, send_request(kind)
    PROVE  PgInv'
<1> DEFINE r == [id |-> issued + 1, kind |-> kind]
<1>0. /\ TypeOK /\ FifoAligned /\ CallbackIdentity /\ FailsOnlyWhenLost /\ Numbering
      /\ StatusInv /\ StreamInv /\ OutInv /\ ServerInv /\ EffectInv
  BY Zenon DEF PgInv
<1>1. /\ state = "READY" /\ ~sync_sent /\ count # Capacity
      /\ fifo' = [fifo EXCEPT ![TailSlot] = r] /\ count' = count + 1
      /\ issued' = issued + 1 /\ cmdq' = Append(cmdq, Query(r)) /\ outq' = Append(outq, Query(r))
      /\ async' = AppendStatus(cmdq')
      /\ UNCHANGED <<state, sync_sent, head, pipeline, stream, ignoring, alive, txn, committed,
                     delivered>>
  BY <1>0, Zenon DEF send_request, Accepts, server
<1>2. /\ count \in Nat /\ Len(stream) \in Nat /\ cmdq \in Seq(Command) /\ outq \in Seq(Command)
      /\ issued \in Nat /\ Len(delivered) \in Nat /\ stream \in Seq(Message)
  <2>1. count \in Nat
    BY <1>0, CapacityAssumption DEF TypeOK, DriverType
  <2>2. issued \in Nat /\ Len(delivered) \in Nat
    BY <1>0, MaxRequestsAssumption DEF TypeOK, HistoryType
  <2> QED
    BY <1>0, <2>1, <2>2 DEF TypeOK, LibpqType, NetType
<1>3. r \in Request
  BY <1>2 DEF Request
<1>4. Query(r) \in Command /\ Query(r).t = "query"
  BY <1>3, QueryType, ZenonT(40) DEF Query
<1>5. /\ Len(cmdq') = Len(cmdq) + 1 /\ cmdq'[Len(cmdq) + 1] = Query(r)
      /\ \A i \in 1 .. Len(cmdq) : cmdq'[i] = cmdq[i]
  BY <1>1, <1>2, <1>4, AppendFacts
<1>6. /\ Len(outq') = Len(outq) + 1 /\ outq'[Len(outq) + 1] = Query(r)
      /\ \A i \in 1 .. Len(outq) : outq'[i] = outq[i]
  BY <1>1, <1>2, <1>4, AppendFacts, SMTT(30)
<1>7. Len(cmdq) = count /\ Len(cmdq) \in Nat /\ Len(outq) \in Nat
  BY <1>0, <1>1, <1>2 DEF FifoAligned
<1>8. /\ \A i \in 1 .. count : fifo'[Slot(i - 1)'] = fifo[Slot(i - 1)]
      /\ fifo'[TailSlot] = r
  BY <1>0, <1>1, <1>3, RingAppend, ZenonT(40)
<1>9. FifoAligned'
  <2>1. ASSUME NEW i \in 1 .. count + 1 PROVE cmdq'[i] = Query(fifo'[Slot(i - 1)'])
    <3>1. CASE i \in 1 .. count
      BY <1>0, <1>5, <1>7, <1>8, <3>1, Zenon DEF FifoAligned
    <3>2. CASE i = count + 1
      BY <1>1, <1>2, <1>5, <1>7, <1>8, <3>2 DEF Slot, TailSlot
    <3> QED
      BY <1>2, <3>1, <3>2
  <2> QED
    BY <1>1, <1>5, <1>7, <2>1, SMTT(30) DEF FifoAligned, Query
<1>10. CallbackIdentity' /\ FailsOnlyWhenLost' /\ EffectInv'
  BY <1>0, <1>1, Zenon DEF CallbackIdentity, FailsOnlyWhenLost, EffectInv
<1>11. Numbering'
  <2>1. ASSUME NEW i \in 1 .. count + 1 PROVE fifo'[Slot(i - 1)'].id = Len(delivered) + i
    <3>1. CASE i \in 1 .. count
      BY <1>0, <1>8, <3>1, Zenon DEF Numbering
    <3>2. CASE i = count + 1
      <4>1. Slot(i - 1)' = TailSlot
        BY <1>1, <1>2, <3>2, SMTT(30) DEF Slot, TailSlot
      <4> QED
        BY <1>0, <1>2, <1>8, <3>2, <4>1 DEF Numbering
    <3> QED
      BY <1>2, <3>1, <3>2, SMTT(30)
  <2> QED
    BY <1>0, <1>1, <1>2, <2>1 DEF Numbering
<1>12. StatusInv'
  <2>1. Head(cmdq') = cmdq'[1] /\ cmdq' # <<>> /\ cmdq'[1].t = "query"
    <3>1. count > 0 => cmdq[1].t = "query"
      <4>1. ASSUME count > 0 PROVE cmdq[1] = Query(fifo[Slot(1 - 1)])
        BY <1>0, <1>2, <4>1 DEF FifoAligned
      <4> QED
        BY <4>1 DEF Query
    <3> QED
      BY <1>1, <1>2, <1>4, <1>5, <1>7, <3>1, SMTT(30)
  <2> QED
    BY <1>0, <1>1, <1>5, <1>7, <2>1, SMTT(30)
       DEF StatusInv, AppendStatus, ProcessQueue, TypeOK, LibpqType
<1>13. StreamInv'
  <2>1. RowsAligned'
    BY <1>0, <1>1, <1>2, <1>5, <1>7, SMTT(30) DEF StreamInv, RowsAligned
  <2>2. ErrorEndsBatch' /\ FatalIsLast'
    BY <1>0, <1>1, Zenon DEF StreamInv, ErrorEndsBatch, FatalIsLast
  <2>3. SyncEndsBatch'
    BY <1>0, <1>1, Zenon DEF StreamInv, SyncEndsBatch
  <2> QED
    BY <2>1, <2>2, <2>3, Zenon DEF StreamInv
<1>14. OutInv'
  <2>1. ASSUME NEW k \in 1 .. Len(outq') PROVE outq'[k].t # "sync"
    BY <1>0, <1>1, <1>4, <1>6, <1>7 DEF OutInv
  <2>2. sent' < Len(outq') => flush_pending'
    <3>1. PICK ret \in {0, 1, -1} :
            PQflush(Append(outq, Query(r)), ret) /\ flush_pending' = FlushPending(ret)
      BY Zenon DEF send_request
    <3>3. ret # 0 => flush_pending'
      BY <3>1, Zenon DEF FlushPending
    <3>2. ret = 0 => sent' = Len(outq')
      BY <1>1, <3>1 DEF PQflush
    <3> QED
      BY <1>6, <1>7, <3>2, <3>3
  <2> QED
    BY <2>1, <2>2, Zenon DEF OutInv
<1>15. ServerInv'
  <2>1. HasSync' = HasSync /\ HasError' = HasError
    BY <1>1, Zenon DEF HasSync, HasError
  <2>2. ASSUME alive, ~ignoring, ~HasSync
        PROVE  /\ Len(stream) + Len(outq') = Len(cmdq')
               /\ \A k \in 1 .. Len(outq') : outq'[k] = cmdq'[Len(stream) + k]
    <3>1. /\ Len(stream) + Len(outq) = Len(cmdq)
          /\ \A k \in 1 .. Len(outq) : outq[k] = cmdq[Len(stream) + k]
      BY <1>0, <2>2, Zenon DEF ServerInv
    <3>2. ASSUME NEW k \in 1 .. Len(outq) PROVE outq'[k] = cmdq'[Len(stream) + k]
      BY <1>2, <1>5, <1>6, <1>7, <3>1
    <3>3. outq'[Len(outq) + 1] = cmdq'[Len(stream) + (Len(outq) + 1)]
      <4>1. Len(stream) + (Len(outq) + 1) = Len(cmdq) + 1
        <5>1. Len(stream) + Len(outq) = Len(cmdq)
          BY <3>1, Zenon
        <5>2. Len(stream) \in Nat
          BY <1>2, Zenon
        <5> QED
          BY <1>7, <5>1, <5>2
      <4> QED
        BY <1>5, <1>6, <4>1, Zenon
    <3> QED
      BY <1>2, <1>5, <1>6, <1>7, <3>1, <3>2, <3>3, SMTT(30)
  <2> QED
    BY <1>0, <1>1, <2>1, <2>2, Zenon DEF ServerInv
<1> QED
  BY <1>9, <1>10, <1>11, <1>12, <1>13, <1>14, <1>15, Zenon DEF PgInv

\* PQflush inside alpha_pg_service keeps the invariant.
LEMMA WriteStep ==
    ASSUME PgInv, TypeOK', NEW readable \in BOOLEAN, ServiceWrite(readable)
    PROVE  PgInv'
<1>0. /\ TypeOK /\ FifoAligned /\ CallbackIdentity /\ FailsOnlyWhenLost /\ Numbering
      /\ StatusInv /\ StreamInv /\ OutInv /\ ServerInv /\ EffectInv
  BY Zenon DEF PgInv
<1>1. /\ UNCHANGED <<state, fifo, head, count, pipeline, stream, ignoring, alive, txn, committed,
                     issued, delivered>>
  BY Zenon DEF ServiceWrite, server, history
<1>2. /\ count \in Nat /\ Len(stream) \in Nat /\ cmdq \in Seq(Command) /\ outq \in Seq(Command)
      /\ stream \in Seq(Message) /\ Len(outq) \in Nat
  <2>1. /\ count \in Nat /\ cmdq \in Seq(Command)
        /\ outq \in Seq(Command) /\ stream \in Seq(Message)
    BY <1>0, CapacityAssumption DEF TypeOK, DriverType, LibpqType, NetType
  <2> QED
    BY <2>1
<1>3. sent' < Len(outq') => flush_pending'
  <2>1. PICK ret \in {0, 1, -1} : PQflush(outq', ret) /\ flush_pending' = FlushPending(ret)
    BY Zenon DEF ServiceWrite
  <2>4. ret # 0 => flush_pending'
    BY <2>1, Zenon DEF FlushPending
  <2>2. ret = 0 => sent' = Len(outq')
    BY <2>1 DEF PQflush
  <2>3. Len(outq') \in Nat
    BY DEF TypeOK, NetType
  <2> QED
    BY <2>2, <2>3, <2>4
<1>4. CASE ~(count > 0 /\ ~sync_sent)
  <2>1. UNCHANGED <<sync_sent, cmdq, async, outq>>
    BY <1>0, <1>4, Zenon DEF ServiceWrite, TypeOK, DriverType
  <2>2. OutInv' /\ FailsOnlyWhenLost'
    BY <1>0, <1>1, <1>3, <2>1, Zenon DEF OutInv, FailsOnlyWhenLost
  <2> QED
    BY <1>0, <1>1, <2>1, <2>2, Frame, Zenon DEF Numbering
<1>5. CASE count > 0 /\ ~sync_sent
  <2>1. /\ sync_sent' = TRUE /\ cmdq' = Append(cmdq, Sync) /\ outq' = Append(outq, Sync)
        /\ async' = AppendStatus(cmdq')
    BY <1>5, Zenon DEF ServiceWrite
  <2>2. Sync \in Command /\ Sync.t = "sync"
    BY NoRequestType, Zenon DEF Sync
  <2>3. /\ Len(cmdq') = Len(cmdq) + 1 /\ cmdq'[Len(cmdq) + 1] = Sync
        /\ \A i \in 1 .. Len(cmdq) : cmdq'[i] = cmdq[i]
    BY <1>2, <2>1, <2>2, AppendFacts
  <2>4. /\ Len(outq') = Len(outq) + 1 /\ outq'[Len(outq) + 1] = Sync
        /\ \A i \in 1 .. Len(outq) : outq'[i] = outq[i]
    BY <1>2, <2>1, <2>2, AppendFacts, SMTT(30)
  <2>5. Len(cmdq) = count
    BY <1>0, <1>2, <1>5, SMTT(30) DEF FifoAligned
  <2>6. FifoAligned'
    BY <1>0, <1>1, <1>2, <2>1, <2>3, <2>5, SMTT(30) DEF FifoAligned, Slot, Query
  <2>7. CallbackIdentity' /\ FailsOnlyWhenLost' /\ EffectInv' /\ Numbering'
    BY <1>0, <1>1, Zenon DEF CallbackIdentity, FailsOnlyWhenLost, EffectInv, Numbering, Slot
  <2>8. StatusInv'
    <3>1. Head(cmdq') = cmdq'[1] /\ cmdq' # <<>> /\ cmdq'[1].t = "query" /\ cmdq # <<>>
      <4>1. cmdq[1].t = "query"
        BY <1>0, <1>2, <1>5 DEF FifoAligned, Query
      <4> QED
        BY <1>2, <1>5, <2>1, <2>2, <2>3, <2>5, <4>1
    <3> QED
      BY <1>0, <1>1, <2>1, <3>1, SMTT(30) DEF StatusInv, AppendStatus, ProcessQueue, TypeOK, LibpqType
  <2>9. StreamInv'
    <3>1. RowsAligned'
      BY <1>0, <1>1, <1>2, <2>3, <2>5 DEF StreamInv, RowsAligned
    <3>2. ErrorEndsBatch' /\ FatalIsLast'
      BY <1>0, <1>1, Zenon DEF StreamInv, ErrorEndsBatch, FatalIsLast
    <3>3. SyncEndsBatch'
      BY <1>0, <1>1, <1>5, Zenon DEF StreamInv, SyncEndsBatch
    <3> QED
      BY <3>1, <3>2, <3>3, Zenon DEF StreamInv
  <2>10. OutInv'
    <3>1. ASSUME NEW k \in 1 .. Len(outq), outq[k].t = "sync" PROVE FALSE
      BY <1>0, <1>5, <3>1, Zenon DEF OutInv
    <3> QED
      <4>1. ASSUME NEW k \in 1 .. Len(outq'), outq'[k].t = "sync" PROVE k = Len(outq') /\ sync_sent'
        <5>1. k \in 1 .. Len(outq) => FALSE
          BY <2>4, <3>1, <4>1, Zenon
        <5>2. k = Len(outq')
          BY <1>2, <2>4, <5>1
        <5> QED
          BY <2>1, <5>2, Zenon
      <4> QED
        BY <1>3, <4>1, Zenon DEF OutInv
  <2>11. ServerInv'
    <3>1. HasSync' = HasSync /\ HasError' = HasError
      BY <1>1, Zenon DEF HasSync, HasError
    <3>2. ASSUME alive, ~ignoring, ~HasSync
          PROVE  /\ Len(stream) + Len(outq') = Len(cmdq')
                 /\ \A k \in 1 .. Len(outq') : outq'[k] = cmdq'[Len(stream) + k]
      <4>1. /\ Len(stream) + Len(outq) = Len(cmdq)
            /\ \A k \in 1 .. Len(outq) : outq[k] = cmdq[Len(stream) + k]
        BY <1>0, <3>2, Zenon DEF ServerInv
      <4>2. ASSUME NEW k \in 1 .. Len(outq) PROVE outq'[k] = cmdq'[Len(stream) + k]
        <5>1. Len(stream) + k \in 1 .. Len(cmdq)
          <6>1. Len(stream) + Len(outq) = Len(cmdq)
            BY <4>1, Zenon
          <6> QED
            BY <1>2, <4>2, <6>1
        <5> QED
          BY <2>3, <2>4, <4>1, <4>2, <5>1, Zenon
      <4>3. outq'[Len(outq) + 1] = cmdq'[Len(stream) + (Len(outq) + 1)]
        <5>1. Len(stream) + Len(outq) = Len(cmdq)
          BY <4>1, Zenon
        <5>2. Len(stream) + (Len(outq) + 1) = Len(cmdq) + 1
          BY <1>2, <5>1
        <5> QED
          BY <2>3, <2>4, <5>2, Zenon
      <4> QED
        BY <1>2, <2>3, <2>4, <2>5, <4>1, <4>2, <4>3, SMTT(30)
    <3> QED
      BY <1>0, <1>1, <3>1, <3>2, Zenon DEF ServerInv
  <2> QED
    BY <2>6, <2>7, <2>8, <2>9, <2>10, <2>11, Zenon DEF PgInv
<1> QED
  BY <1>4, <1>5, Zenon

\* A NULL from PQgetResult keeps the invariant: it ends one command.
LEMMA NullStep ==
    ASSUME PgInv, TypeOK', DrainNull
    PROVE  PgInv'
<1>0. /\ TypeOK /\ FifoAligned /\ CallbackIdentity /\ FailsOnlyWhenLost /\ Numbering
      /\ StatusInv /\ StreamInv /\ OutInv /\ ServerInv /\ EffectInv
  BY Zenon DEF PgInv
<1>1. /\ UNCHANGED <<fifo, head, count, sync_sent, cmdq, pipeline, outq>>
      /\ UNCHANGED <<state, flush_pending, sent, alive, txn, committed, ignoring, issued, delivered>>
  BY Zenon DEF DrainNull, driver, server, history
<1>2. OutInv' /\ FailsOnlyWhenLost' /\ CallbackIdentity' /\ FifoAligned' /\ Numbering'
  BY <1>0, <1>1, Zenon DEF OutInv, FailsOnlyWhenLost, CallbackIdentity, FifoAligned, Numbering, Slot
<1>3. CASE async # "IDLE"
  <2>1. async' = ProcessQueue(cmdq, pipeline) /\ stream' = stream
    BY <1>3, Zenon DEF DrainNull
  <2>2. cmdq # <<>> => Head(cmdq) = cmdq[1] /\ cmdq[1].t \in {"query", "sync"}
    <3>1. cmdq \in Seq(Command)
      BY <1>0, Zenon DEF TypeOK, LibpqType
    <3>2. cmdq # <<>> => Head(cmdq) = cmdq[1] /\ cmdq[1] \in Command
      BY <3>1
    <3> QED
      BY <3>2, Zenon DEF Command
  <2>3. StatusInv'
    BY <1>1, <2>1, <2>2, Zenon DEF StatusInv, ProcessQueue
  <2> QED
    BY <1>0, <1>1, <1>2, <2>1, <2>3, Frame, Zenon DEF Numbering
<1>4. CASE async = "IDLE"
  <2>1. cmdq = <<>> /\ count = 0 /\ ~sync_sent
    <3>1. cmdq = <<>> /\ count \in Nat /\ sync_sent \in BOOLEAN
      BY <1>0, <1>4, CapacityAssumption DEF StatusInv, TypeOK, DriverType
    <3> QED
      BY <1>0, <3>1 DEF FifoAligned
  <2>2. /\ stream \in Seq(Message) /\ arrived \in 0 .. Len(stream) /\ Len(stream) \in Nat
        /\ stream' = SubSeq(stream, arrived + 1, Len(stream)) /\ async' = async
    BY <1>0, <1>4 DEF DrainNull, TypeOK, NetType
  <2>3. /\ Len(stream') = Len(stream) - arrived
        /\ \A i \in 1 .. Len(stream') : stream'[i] = stream[arrived + i]
    <3>1. /\ Len(stream') = Len(stream) - (arrived + 1) + 1
          /\ \A i \in 1 .. Len(stream) - (arrived + 1) + 1 : stream'[i] = stream[arrived + 1 + i - 1]
      BY <2>2, SubSeqFacts
    <3> QED
      BY <2>2, <3>1
  <2>4. \A i \in 1 .. Len(stream) : stream[i].t = "fatal"
    <3> SUFFICES ASSUME NEW i \in 1 .. Len(stream) PROVE stream[i].t = "fatal"
      OBVIOUS
    <3>1. stream[i].t \in {"tuples", "error", "fatal", "sync"}
      BY <1>0, MessageType, Zenon
    <3>2. stream[i].t \notin {"tuples", "error"}
      BY <1>0, <2>1 DEF StreamInv, RowsAligned
    <3>3. stream[i].t # "sync"
      BY <1>0, <2>1, Zenon DEF StreamInv, SyncEndsBatch
    <3> QED
      BY <3>1, <3>2, <3>3, Zenon
  <2>5. \A i \in 1 .. Len(stream') : stream'[i].t = "fatal" /\ arrived + i \in 1 .. Len(stream)
    BY <2>2, <2>3, <2>4
  <2>6. StreamInv'
    <3>1. FatalIsLast'
      BY <1>0, <1>1, <2>2, <2>3, <2>4, <2>5 DEF StreamInv, FatalIsLast
    <3> QED
      BY <2>5, <3>1, Zenon DEF StreamInv, RowsAligned, ErrorEndsBatch, SyncEndsBatch
  <2>7. StatusInv'
    BY <1>0, <1>1, <2>2, Zenon DEF StatusInv
  <2>8. ServerInv'
    <3>1. ~HasSync /\ ~HasError /\ ~HasSync' /\ ~HasError'
      BY <2>4, <2>5, Zenon DEF HasSync, HasError
    <3>2. alive => Len(stream) = 0
      <4>1. ASSUME alive, Len(stream) # 0 PROVE FALSE
        <5>1. 1 \in 1 .. Len(stream)
          BY <2>2, <4>1
        <5> QED
          BY <1>0, <2>4, <4>1, <5>1, Zenon DEF StreamInv, FatalIsLast
      <4> QED
        BY <4>1, Zenon
    <3>3. alive => Len(stream') = Len(stream)
      BY <2>2, <2>3, <3>2
    <3> QED
      BY <1>0, <1>1, <3>1, <3>3, Zenon DEF ServerInv
  <2>9. EffectInv'
    <3> SUFFICES ASSUME NEW x \in txn \union committed, x > Len(delivered)
                 PROVE  /\ alive => x - Len(delivered) <= Len(stream')
                        /\ \A j \in 1 .. Len(stream') :
                              j <= x - Len(delivered) => stream'[j].t = "tuples"
      BY <1>0, <1>1, Zenon DEF EffectInv
    <3>1. x \in Nat /\ Len(delivered) \in Nat
      BY <1>0 DEF TypeOK, ServerType, HistoryType
    <3>2. Len(stream) = 0
      <4>1. ASSUME Len(stream) # 0 PROVE FALSE
        <5>1. 1 \in 1 .. Len(stream) /\ 1 <= x - Len(delivered)
          BY <2>2, <3>1, <4>1
        <5>2. stream[1].t = "tuples"
          BY <1>0, <5>1, Zenon DEF EffectInv
        <5> QED
          BY <2>4, <5>1, <5>2, Zenon
      <4> QED
        BY <4>1, Zenon
    <3>3. Len(stream') = 0
      BY <2>2, <2>3, <3>2
    <3> QED
      BY <1>0, <3>2, <3>3 DEF EffectInv
  <2> QED
    BY <1>2, <2>6, <2>7, <2>8, <2>9, Zenon DEF PgInv
<1> QED
  BY <1>3, <1>4, Zenon

\* A PGRES_PIPELINE_SYNC keeps the invariant.
LEMMA BoundaryStep ==
    ASSUME PgInv, TypeOK', DrainSync
    PROVE  PgInv'
<1>0. /\ TypeOK /\ FifoAligned /\ CallbackIdentity /\ FailsOnlyWhenLost /\ Numbering
      /\ StatusInv /\ StreamInv /\ OutInv /\ ServerInv /\ EffectInv
  BY Zenon DEF PgInv
<1>1. /\ PopMessage /\ Head(stream).t = "sync" /\ async = "BUSY"
      /\ sync_sent' = FALSE /\ cmdq' = Tail(cmdq) /\ pipeline' = "ON"
      /\ async' = ProcessQueue(Tail(cmdq), "ON")
      /\ UNCHANGED <<state, flush_pending, fifo, head, count, outq, sent>>
      /\ UNCHANGED <<ignoring, alive, txn, committed, issued, delivered>>
  BY Zenon DEF DrainSync, DrainBoundary, IsBoundary, PopMessage, server, history
<1>2. /\ Len(stream) \in Nat /\ Len(stream) > 0 /\ Len(stream') = Len(stream) - 1
      /\ stream[1].t = "sync" /\ 1 \in 1 .. Len(stream)
      /\ \A i \in 1 .. Len(stream') : stream'[i] = stream[i + 1]
  <2>1. stream \in Seq(Message)
    BY <1>0, Zenon DEF TypeOK, NetType
  <2>2. /\ Len(stream) > 0 /\ Len(stream') = Len(stream) - 1 /\ Head(stream) = stream[1]
        /\ \A i \in 1 .. Len(stream') : stream'[i] = stream[i + 1]
    BY <1>0, <1>1, PopType, Zenon
  <2>3. Len(stream) \in Nat /\ 1 \in 1 .. Len(stream)
    BY <2>1, <2>2
  <2> QED
    BY <1>1, <2>2, <2>3, Zenon
<1>3. sync_sent /\ outq = <<>> /\ count = 0
  <2>1. /\ sync_sent /\ outq = <<>>
        /\ \/ pipeline = "ABORTED" \/ 1 = count + 1
           \/ \E j \in 1 .. Len(stream) : j < 1 /\ stream[j].t = "error"
    BY <1>0, <1>2, Zenon DEF StreamInv, SyncEndsBatch
  <2>2. count \in Nat
    BY <1>0, CapacityAssumption DEF TypeOK, DriverType
  <2>3. ASSUME count > 0, pipeline = "ABORTED" PROVE FALSE
    <3>1. cmdq[1] = Query(fifo[Slot(1 - 1)])
      BY <1>0, <2>2, <2>3 DEF FifoAligned
    <3> QED
      BY <1>0, <1>1, <2>3, <3>1 DEF StatusInv, Query
  <2> QED
    BY <1>2, <2>1, <2>2, <2>3
<1>4. cmdq' = <<>> /\ Len(cmdq') = 0
  <2>1. Len(cmdq) = 1 /\ cmdq \in Seq(Command)
    BY <1>0, <1>3 DEF FifoAligned, TypeOK, LibpqType
  <2> QED
    BY <1>1, <2>1
<1>5. \A i \in 1 .. Len(stream') : stream'[i].t = "fatal"
  <2>1. \A j \in 1 .. Len(stream) : 1 < j => stream[j].t = "fatal"
    BY <1>0, <1>2, Zenon DEF StreamInv, SyncEndsBatch
  <2> QED
    BY <1>2, <2>1
<1>6. FifoAligned' /\ Numbering'
  <2>1. count' = 0 /\ sync_sent' = FALSE /\ Len(cmdq') = 0
        /\ UNCHANGED <<issued, delivered, state>>
    BY <1>1, <1>3, <1>4, Zenon
  <2>2. \A i \in 1 .. count' : FALSE
    BY <2>1
  <2>3. FifoAligned'
    BY <2>1, <2>2 DEF FifoAligned
  <2>4. issued = Len(delivered) + 0 /\ (state \in {"NONE", "CONNECTING"} => issued = 0)
    BY <1>0, <1>3, Zenon DEF Numbering
  <2>5. Numbering'
    BY <2>1, <2>2, <2>4, Zenon DEF Numbering
  <2> QED
    BY <2>3, <2>5, Zenon
<1>7. CallbackIdentity' /\ FailsOnlyWhenLost'
  BY <1>0, <1>1, Zenon DEF CallbackIdentity, FailsOnlyWhenLost
<1>8. StatusInv'
  BY <1>1, <1>4, Zenon DEF StatusInv, ProcessQueue
<1>9. StreamInv'
  <2>1. FatalIsLast'
    BY <1>0, <1>1, <1>2, <1>5, SMTT(30) DEF StreamInv, FatalIsLast
  <2> QED
    BY <1>5, <2>1, Zenon DEF StreamInv, RowsAligned, ErrorEndsBatch, SyncEndsBatch
<1>10. OutInv'
  BY <1>0, <1>1, <1>3 DEF OutInv
<1>11. ServerInv'
  <2>1. ~HasSync' /\ ~HasError' /\ HasSync
    BY <1>2, <1>5, Zenon DEF HasSync, HasError
  <2>2. alive => Len(stream') = 0
    <3>1. ASSUME alive, Len(stream') # 0 PROVE FALSE
      <4>1. 1 \in 1 .. Len(stream') /\ 2 \in 1 .. Len(stream) /\ stream'[1] = stream[1 + 1]
        BY <1>2, <3>1
      <4>2. stream[2].t = "fatal"
        BY <1>5, <4>1
      <4> QED
        BY <1>0, <3>1, <4>1, <4>2, Zenon DEF StreamInv, FatalIsLast
    <3> QED
      BY <3>1, Zenon
  <2> QED
    BY <1>0, <1>1, <1>3, <1>4, <2>1, <2>2 DEF ServerInv
<1>12. EffectInv'
  <2>1. ASSUME NEW x \in txn \union committed, x > Len(delivered) PROVE FALSE
    <3>1. x \in Nat /\ Len(delivered) \in Nat
      BY <1>0 DEF TypeOK, ServerType, HistoryType
    <3>2. 1 <= x - Len(delivered)
      BY <2>1, <3>1
    <3>3. stream[1].t = "tuples"
      BY <1>0, <1>2, <2>1, <3>2, ZenonT(40) DEF EffectInv
    <3> QED
      BY <1>2, <3>3, Zenon
  <2> QED
    BY <1>0, <1>1, <2>1, Zenon DEF EffectInv
<1> QED
  BY <1>6, <1>7, <1>8, <1>9, <1>10, <1>11, <1>12, Zenon DEF PgInv

-----------------------------------------------------------------------------
(* The steps that call a request back. *)

\* Calling back the head of the ring, for the command libpq takes off its queue.
LEMMA RingPop ==
    ASSUME TypeOK, FifoAligned, Numbering, CallbackIdentity, count # 0,
           NEW ok \in BOOLEAN, NEW res \in Nat, complete_head(ok, res), ok => res = cmdq[1].id,
           cmdq' = Tail(cmdq), UNCHANGED <<fifo, sync_sent, issued, state>>
    PROVE  /\ FifoAligned' /\ Numbering' /\ CallbackIdentity'
           /\ count' = count - 1 /\ count \in Nat /\ Len(cmdq') = Len(cmdq) - 1
           /\ \A i \in 1 .. Len(cmdq) - 1 : cmdq'[i] = cmdq[i + 1]
           /\ Len(delivered) \in Nat /\ Len(delivered') = Len(delivered) + 1
           /\ delivered'[Len(delivered) + 1].ok = ok
           /\ \A i \in 1 .. Len(delivered) : delivered'[i] = delivered[i]
<1>0. /\ head \in Slots /\ count \in 1 .. Capacity /\ Capacity \in Nat \ {0}
      /\ cmdq \in Seq(Command) /\ sync_sent \in BOOLEAN
      /\ delivered \in Seq([id : Nat, ok : BOOLEAN, res : Nat])
  BY CapacityAssumption DEF TypeOK, DriverType, LibpqType, HistoryType
<1>1. /\ head' = (head + 1) % Capacity /\ count' = count - 1
      /\ delivered' = Append(delivered, [id |-> fifo[head].id, ok |-> ok, res |-> res])
  BY Zenon DEF complete_head
<1>2. Len(cmdq) = count + (IF sync_sent THEN 1 ELSE 0)
  BY Zenon DEF FifoAligned
<1>3. /\ Len(cmdq') = Len(cmdq) - 1
      /\ \A i \in 1 .. Len(cmdq) - 1 : cmdq'[i] = cmdq[i + 1]
  BY <1>0, <1>2, TailFacts
<1>4. ASSUME NEW i \in 1 .. count - 1 PROVE Slot(i - 1)' = Slot(i + 1 - 1)
  <2>1. 1 \in 0 .. Capacity /\ i \in 0 .. Capacity /\ i - 1 \in 0 .. Capacity
    BY <1>0
  <2>2. /\ head' = IF head + 1 < Capacity THEN head + 1 ELSE head + 1 - Capacity
        /\ head' \in Slots
    BY <1>0, <1>1, <2>1, Wrap, Zenon
  <2>3. (head + i) % Capacity = IF head + i < Capacity THEN head + i ELSE head + i - Capacity
    BY <1>0, <2>1, Wrap, Zenon
  <2>4. (head' + (i - 1)) % Capacity =
            IF head' + (i - 1) < Capacity THEN head' + (i - 1) ELSE head' + (i - 1) - Capacity
    BY <2>1, <2>2, Wrap, Zenon
  <2>5. i + 1 - 1 = i
    BY <1>0
  <2>6. Slot(i - 1)' = (head' + (i - 1)) % Capacity
    BY Zenon DEF Slot
  <2>7. Slot(i + 1 - 1) = (head + i) % Capacity
    BY <2>5 DEF Slot
  <2>8. (head' + (i - 1)) % Capacity = (head + i) % Capacity
    <3>0. head \in Nat /\ head < Capacity /\ i \in Nat
      BY <1>0 DEF Slots
    <3>1. CASE head + 1 < Capacity
      BY <1>0, <2>2, <2>3, <2>4, <3>0, <3>1
    <3>2. CASE head + 1 = Capacity
      BY <1>0, <2>2, <2>3, <2>4, <3>0, <3>2
    <3> QED
      BY <1>0, <3>0, <3>1, <3>2, SMTT(30)
  <2> QED
    BY <2>6, <2>7, <2>8, Zenon
<1>5. Slot(1 - 1) = head
  <2>1. head % Capacity = head
    BY <1>0, SlotMod, Zenon
  <2>2. head + (1 - 1) = head
    BY <1>0, SMTT(30) DEF Slots
  <2> QED
    BY <2>1, <2>2, Zenon DEF Slot
<1>6. FifoAligned'
  <2>1. ASSUME NEW i \in 1 .. count - 1 PROVE cmdq'[i] = Query(fifo'[Slot(i - 1)'])
    <3>1. cmdq[i + 1] = Query(fifo[Slot(i + 1 - 1)])
      BY <1>0 DEF FifoAligned
    <3>2. cmdq'[i] = cmdq[i + 1]
      BY <1>0, <1>2, <1>3
    <3> QED
      BY <1>4, <3>1, <3>2, Zenon
  <2>2. sync_sent => cmdq'[count - 1 + 1] = Sync
    BY <1>0, <1>2, <1>3 DEF FifoAligned
  <2> QED
    BY <1>0, <1>1, <1>2, <1>3, <2>1, <2>2, SMTT(30) DEF FifoAligned, Query, Sync, NoRequest
<1>7. /\ Len(delivered) \in Nat /\ Len(delivered') = Len(delivered) + 1
      /\ delivered'[Len(delivered) + 1] = [id |-> fifo[head].id, ok |-> ok, res |-> res]
      /\ \A i \in 1 .. Len(delivered) : delivered'[i] = delivered[i]
  <2>1. fifo[head].id \in Nat
    BY <1>0, Zenon DEF TypeOK, DriverType, Request
  <2> DEFINE e == [id |-> fifo[head].id, ok |-> ok, res |-> res]
             E == [id : Nat, ok : BOOLEAN, res : Nat]
  <2>2. e \in E /\ delivered \in Seq(E) /\ delivered' = Append(delivered, e)
    BY <1>0, <1>1, <2>1, Zenon
  <2>3. /\ Len(delivered) \in Nat /\ Len(delivered') = Len(delivered) + 1
        /\ delivered'[Len(delivered) + 1] = e
        /\ \A i \in 1 .. Len(delivered) : delivered'[i] = delivered[i]
    <3> HIDE DEF e, E
    <3> QED
      BY <2>2, AppendFacts
  <2> QED
    BY <2>3, Zenon
<1>8. Numbering'
  <2>1. ASSUME NEW i \in 1 .. count - 1
        PROVE  fifo'[Slot(i - 1)'].id = Len(delivered) + 1 + i
    <3>1. fifo[Slot(i + 1 - 1)].id = Len(delivered) + (i + 1)
      <4>1. i + 1 \in 1 .. count
        BY <1>0
      <4>2. \A n \in 1 .. count : fifo[Slot(n - 1)].id = Len(delivered) + n
        BY Zenon DEF Numbering
      <4> QED
        BY <4>1, <4>2
    <3> QED
      BY <1>0, <1>4, <1>7, <3>1
  <2> QED
    BY <1>0, <1>1, <1>7, <2>1 DEF Numbering
<1>9. CallbackIdentity'
  <2>1. fifo[head].id = Len(delivered) + 1
    BY <1>0, <1>5 DEF Numbering
  <2>2. cmdq[1].id = Len(delivered) + 1
    <3>1. cmdq[1] = Query(fifo[Slot(1 - 1)])
      BY <1>0 DEF FifoAligned
    <3> QED
      BY <1>5, <2>1, <3>1, SMTT(30) DEF Query
  <2>3. ASSUME NEW i \in 1 .. Len(delivered) + 1
        PROVE  delivered'[i].id = i /\ (delivered'[i].ok => delivered'[i].res = i)
    <3>1. CASE i \in 1 .. Len(delivered)
      BY <1>7, <3>1, ZenonT(40) DEF CallbackIdentity
    <3>2. CASE i = Len(delivered) + 1
      BY <1>7, <2>1, <2>2, <3>2
    <3> QED
      BY <1>7, <3>1, <3>2, SMTT(30)
  <2> QED
    BY <1>7, <2>3, Zenon DEF CallbackIdentity
<1> QED
  BY <1>0, <1>1, <1>3, <1>6, <1>7, <1>8, <1>9

\* A PGRES_PIPELINE_ABORTED keeps the invariant.
LEMMA AbortedStep ==
    ASSUME PgInv, TypeOK', DrainAborted
    PROVE  PgInv'
<1>0. /\ TypeOK /\ FifoAligned /\ CallbackIdentity /\ FailsOnlyWhenLost /\ Numbering
      /\ StatusInv /\ StreamInv /\ OutInv /\ ServerInv /\ EffectInv
  BY Zenon DEF PgInv
<1>1. /\ pipeline = "ABORTED" /\ cmdq \in Seq(Command) /\ Len(cmdq) > 0 /\ cmdq[1].t = "query"
      /\ Head(cmdq).id \in Nat
  <2>1. pipeline = "ABORTED" /\ cmdq \in Seq(Command) /\ Len(cmdq) > 0 /\ cmdq[1].t = "query"
    BY <1>0 DEF DrainAborted, StatusInv, TypeOK, LibpqType
  <2>2. Head(cmdq) \in Command
    BY <2>1, TailFacts, Zenon
  <2> QED
    BY <2>1, <2>2, Zenon DEF Command
<1>2. count # 0
  <2>1. ASSUME count = 0 PROVE FALSE
    <3>1. cmdq[1] = Sync
      BY <1>0, <1>1, <2>1 DEF FifoAligned, TypeOK, DriverType
    <3> QED
      BY <1>1, <3>1 DEF Sync
  <2> QED
    BY <2>1, ZenonT(40)
<1>3. /\ complete_head(FALSE, Head(cmdq).id)
      /\ cmdq' = Tail(cmdq) /\ async' = "PIPELINE_IDLE"
      /\ UNCHANGED <<state, flush_pending, sync_sent, fifo, pipeline, outq, sent, stream>>
      /\ UNCHANGED <<ignoring, alive, txn, committed, issued>>
  BY <1>2, Zenon DEF DrainAborted, net, server
<1>4. /\ FifoAligned' /\ Numbering' /\ CallbackIdentity'
      /\ Len(delivered) \in Nat /\ Len(delivered') = Len(delivered) + 1
      /\ \A i \in 1 .. Len(delivered) : delivered'[i] = delivered[i]
  BY <1>0, <1>1, <1>2, <1>3, RingPop, Zenon
<1>5. FailsOnlyWhenLost' /\ OutInv' /\ StatusInv'
  BY <1>0, <1>3, Zenon DEF FailsOnlyWhenLost, OutInv, StatusInv
<1>6. StreamInv'
  <2>1. RowsAligned'
    BY <1>0, <1>1, <1>3, Zenon DEF StreamInv, RowsAligned
  <2>2. ErrorEndsBatch' /\ FatalIsLast'
    BY <1>0, <1>3, Zenon DEF StreamInv, ErrorEndsBatch, FatalIsLast
  <2>3. SyncEndsBatch'
    BY <1>0, <1>1, <1>3, ZenonT(40) DEF StreamInv, SyncEndsBatch
  <2> QED
    BY <2>1, <2>2, <2>3, Zenon DEF StreamInv
<1>7. ServerInv'
  BY <1>0, <1>1, <1>3, Zenon DEF ServerInv, HasSync, HasError
<1>8. EffectInv'
  <2>1. ASSUME NEW x \in txn \union committed PROVE x \in 1 .. Len(delivered) /\ delivered[x].ok
    <3>1. x \in Nat
      BY <1>0, Zenon DEF TypeOK, ServerType
    <3> QED
      BY <1>0, <1>1, <1>4, <3>1 DEF EffectInv
  <2> QED
    BY <1>3, <1>4, <2>1 DEF EffectInv
<1> QED
  BY <1>4, <1>5, <1>6, <1>7, <1>8, Zenon DEF PgInv

\* A row or an error result keeps the invariant.
LEMMA ResultStep ==
    ASSUME PgInv, TypeOK', DrainResult
    PROVE  PgInv'
<1>0. /\ TypeOK /\ FifoAligned /\ CallbackIdentity /\ FailsOnlyWhenLost /\ Numbering
      /\ StatusInv /\ StreamInv /\ OutInv /\ ServerInv /\ EffectInv
  BY Zenon DEF PgInv
<1>1. /\ PopMessage /\ Head(stream).t # "sync" /\ async = "BUSY"
      /\ cmdq' = (IF Head(cmdq).t = "sync" THEN cmdq ELSE Tail(cmdq))
      /\ pipeline' = (IF Head(stream).t = "tuples" THEN pipeline ELSE "ABORTED")
      /\ async' = "PIPELINE_IDLE"
      /\ UNCHANGED <<flush_pending, sync_sent, fifo, outq, sent>>
      /\ UNCHANGED <<ignoring, alive, txn, committed, issued>>
  BY Zenon DEF DrainResult, IsBoundary, PopMessage, server
<1>2. /\ Len(stream) \in Nat /\ Len(stream) > 0 /\ Len(stream') = Len(stream) - 1
      /\ Head(stream) = stream[1] /\ stream[1] \in Message /\ stream[1].id \in Nat
      /\ 1 \in 1 .. Len(stream) /\ stream[1].t \in {"tuples", "error", "fatal"}
      /\ \A i \in 1 .. Len(stream') : stream'[i] = stream[i + 1] /\ i + 1 \in 1 .. Len(stream)
  <2>1. /\ Len(stream) \in Nat /\ Len(stream) > 0 /\ Len(stream') = Len(stream) - 1
        /\ Head(stream) = stream[1] /\ stream[1] \in Message
        /\ \A i \in 1 .. Len(stream') : stream'[i] = stream[i + 1]
    BY <1>0, <1>1, PopType DEF TypeOK, NetType
  <2>2. 1 \in 1 .. Len(stream) /\ \A i \in 1 .. Len(stream') : i + 1 \in 1 .. Len(stream)
    BY <2>1
  <2> QED
    BY <1>1, <2>1, <2>2, Zenon DEF Message
<1>3. /\ cmdq \in Seq(Command) /\ Len(cmdq) > 0 /\ Len(cmdq) \in Nat /\ Head(cmdq) = cmdq[1]
      /\ count \in Nat /\ Len(delivered) \in Nat
  <2>1. cmdq \in Seq(Command) /\ Len(cmdq) > 0 /\ Len(cmdq) \in Nat
    BY <1>0, <1>1 DEF TypeOK, LibpqType, StatusInv
  <2>2. count \in Nat /\ Len(delivered) \in Nat
    BY <1>0, CapacityAssumption DEF TypeOK, DriverType, HistoryType
  <2> QED
    BY <2>1, <2>2, TailFacts, Zenon
<1>4. StatusInv' /\ OutInv'
  BY <1>0, <1>1, Zenon DEF StatusInv, OutInv
<1>5. ASSUME NEW x \in txn \union committed, x > Len(delivered)
      PROVE  x \in Nat /\ stream[1].t = "tuples"
  <2>1. x \in Nat
    BY <1>0, Zenon DEF TypeOK, ServerType
  <2>2. 1 <= x - Len(delivered)
    BY <1>3, <1>5, <2>1
  <2> QED
    BY <1>0, <1>2, <1>5, <2>1, <2>2, Zenon DEF EffectInv
<1>6. FatalIsLast'
  <2> SUFFICES ASSUME NEW i \in 1 .. Len(stream'), stream'[i].t = "fatal"
               PROVE  i = Len(stream') /\ ~alive' /\ stream'[i].id = 0
    BY Zenon DEF FatalIsLast
  <2>1. stream'[i] = stream[i + 1] /\ i + 1 \in 1 .. Len(stream)
    BY <1>2, Zenon
  <2>2. i + 1 = Len(stream) /\ ~alive /\ stream[i + 1].id = 0
    BY <1>0, <2>1, Zenon DEF StreamInv, FatalIsLast
  <2>3. QED
    BY <1>1, <1>2, <2>1, <2>2
<1>7. CASE count = 0
  <2>1. /\ state' = "FAILED" /\ UNCHANGED <<head, count, delivered>>
    BY <1>7, Zenon DEF DrainResult
  <2>2. stream[1].t = "fatal" /\ ~alive /\ Len(stream) = 1
    <3>1. stream[1].t \notin {"tuples", "error"}
      BY <1>0, <1>2, <1>7, SMTT(30) DEF StreamInv, RowsAligned
    <3> QED
      BY <1>0, <1>2, <3>1, Zenon DEF StreamInv, FatalIsLast
  <2>3. cmdq' = cmdq
    <3>1. cmdq[1] = Sync
      BY <1>0, <1>3, <1>7 DEF FifoAligned, TypeOK, DriverType
    <3> QED
      BY <1>1, <1>3, <3>1 DEF Sync
  <2>4. Len(stream') = 0
    BY <1>2, <2>2
  <2>5. FifoAligned' /\ Numbering' /\ CallbackIdentity'
    BY <1>0, <1>1, <2>1, <2>3, Zenon DEF FifoAligned, Numbering, CallbackIdentity, Slot
  <2>6. FailsOnlyWhenLost' /\ ServerInv'
    BY <1>1, <2>2, Zenon DEF FailsOnlyWhenLost, ServerInv
  <2>7. StreamInv'
    BY <2>4 DEF StreamInv, RowsAligned, ErrorEndsBatch, SyncEndsBatch, FatalIsLast
  <2>8. EffectInv'
    BY <1>0, <1>1, <1>5, <2>1, <2>2, Zenon DEF EffectInv
  <2> QED
    BY <1>4, <2>5, <2>6, <2>7, <2>8, Zenon DEF PgInv
<1>8. CASE count # 0
  <2>1. complete_head(Parsed(stream[1]), stream[1].id) /\ state' = state
    BY <1>2, <1>8, Zenon DEF DrainResult
  <2>2. cmdq[1] = Query(fifo[head]) /\ cmdq' = Tail(cmdq)
    <3>1. cmdq[1] = Query(fifo[Slot(1 - 1)])
      BY <1>0, <1>3, <1>8 DEF FifoAligned
    <3>2. Slot(1 - 1) = head
      <4>1. head \in Slots /\ head + (1 - 1) = head
        BY <1>0 DEF TypeOK, DriverType, Slots
      <4> QED
        BY <4>1, SlotMod, Zenon DEF Slot
    <3> QED
      BY <1>1, <1>3, <3>1, <3>2 DEF Query
  <2>3. stream[1].t \in {"tuples", "error"} =>
            /\ pipeline = "ON" /\ stream[1].id = cmdq[1].id /\ stream[1].kind = cmdq[1].kind
    BY <1>0, <1>2, ZenonT(40) DEF StreamInv, RowsAligned
  <2>4. Parsed(stream[1]) \in BOOLEAN /\ (Parsed(stream[1]) <=> stream[1].t = "tuples")
    <3>1. Parsed(stream[1]) \in BOOLEAN
      BY Zenon DEF Parsed
    <3>2. stream[1].t = "tuples" => stream[1].kind = fifo[head].kind
      BY <2>2, <2>3 DEF Query
    <3> QED
      BY <3>1, <3>2, ZenonT(40) DEF Parsed
  <2>5. Parsed(stream[1]) => stream[1].id = cmdq[1].id
    BY <2>3, <2>4, Zenon
  <2>6. /\ FifoAligned' /\ Numbering' /\ CallbackIdentity'
        /\ count' = count - 1 /\ Len(cmdq') = Len(cmdq) - 1
        /\ \A i \in 1 .. Len(cmdq) - 1 : cmdq'[i] = cmdq[i + 1]
        /\ Len(delivered') = Len(delivered) + 1
        /\ delivered'[Len(delivered) + 1].ok = Parsed(stream[1])
        /\ \A i \in 1 .. Len(delivered) : delivered'[i] = delivered[i]
    BY <1>0, <1>1, <1>2, <1>8, <2>1, <2>2, <2>4, <2>5, RingPop, Zenon
  <2>7. FailsOnlyWhenLost'
    BY <1>0, <1>1, <2>1, Zenon DEF FailsOnlyWhenLost
  <2>8. EffectInv'
    <3> SUFFICES ASSUME NEW x \in txn \union committed
                 PROVE  /\ x >= 1
                        /\ x <= Len(delivered') => delivered'[x].ok
                        /\ x > Len(delivered') =>
                              /\ pipeline' = "ON"
                              /\ alive => x - Len(delivered') <= Len(stream')
                              /\ \A j \in 1 .. Len(stream') :
                                    j <= x - Len(delivered') => stream'[j].t = "tuples"
      BY <1>1, ZenonT(40) DEF EffectInv
    <3>1. x \in Nat /\ x >= 1
      BY <1>0, ZenonT(40) DEF TypeOK, ServerType, EffectInv
    <3>2. CASE x <= Len(delivered)
      BY <1>0, <1>3, <2>6, <3>1, <3>2, SMTT(30) DEF EffectInv
    <3>3. CASE x = Len(delivered) + 1
      BY <1>3, <1>5, <2>4, <2>6, <3>1, <3>3
    <3>4. CASE x > Len(delivered) + 1
      <4>1. stream[1].t = "tuples" /\ pipeline = "ON"
        BY <1>0, <1>3, <1>5, <3>1, <3>4, SMTT(30) DEF EffectInv
      <4>2. alive => x - Len(delivered) <= Len(stream)
        BY <1>0, <1>3, <3>1, <3>4, SMTT(30) DEF EffectInv
      <4>3. \A j \in 1 .. Len(stream) : j <= x - Len(delivered) => stream[j].t = "tuples"
        BY <1>0, <1>3, <3>1, <3>4, SMTT(30) DEF EffectInv
      <4>4. pipeline' = "ON"
        BY <1>1, <1>2, <4>1, Zenon
      <4>5. alive => x - Len(delivered') <= Len(stream')
        BY <1>2, <1>3, <2>6, <3>1, <4>2
      <4>6. ASSUME NEW j \in 1 .. Len(stream'), j <= x - Len(delivered')
            PROVE  stream'[j].t = "tuples"
        <5>1. j + 1 <= x - Len(delivered) /\ j + 1 \in 1 .. Len(stream)
          BY <1>2, <1>3, <2>6, <3>1, <4>6
        <5> QED
          BY <1>2, <4>3, <5>1, Zenon
      <4> QED
        BY <1>3, <2>6, <3>1, <3>4, <4>4, <4>5, <4>6
    <3>5. x <= Len(delivered) \/ x = Len(delivered) + 1 \/ x > Len(delivered) + 1
      BY <1>3, <3>1
    <3> QED
      BY <3>2, <3>3, <3>4, <3>5, Zenon
  <2>9. (HasSync' <=> HasSync) /\ (stream[1].t # "error" => (HasError' <=> HasError))
    <3>1. ASSUME NEW i \in 1 .. Len(stream), i # 1
          PROVE  i - 1 \in 1 .. Len(stream') /\ stream'[i - 1] = stream[i]
      BY <1>2, <3>1
    <3>2. HasSync' <=> HasSync
      <4>1. HasSync' => HasSync
        BY <1>2, SMTT(30) DEF HasSync
      <4>2. HasSync => HasSync'
        BY <1>2, <3>1, SMTT(30) DEF HasSync
      <4> QED
        BY <4>1, <4>2, Zenon
    <3>3. ASSUME stream[1].t # "error" PROVE HasError' <=> HasError
      <4>1. HasError' => HasError
        BY <1>2, Zenon DEF HasError
      <4>2. HasError => HasError'
        BY <1>2, <3>1, <3>3, SMTT(30) DEF HasError
      <4> QED
        BY <4>1, <4>2, Zenon
    <3> QED
      BY <3>2, <3>3, Zenon
  <2>10. CASE stream[1].t = "tuples"
    <3>1. pipeline' = pipeline /\ pipeline = "ON"
      BY <1>1, <1>2, <2>3, <2>10, Zenon
    <3>2. RowsAligned'
      <4> SUFFICES ASSUME NEW i \in 1 .. Len(stream'), stream'[i].t \in {"tuples", "error"}
                   PROVE  /\ i <= count - 1
                          /\ stream'[i].id = cmdq'[i].id /\ stream'[i].kind = cmdq'[i].kind
        BY <2>6, <3>1, Zenon DEF RowsAligned
      <4>1. /\ i + 1 <= count
            /\ stream[i + 1].id = cmdq[i + 1].id /\ stream[i + 1].kind = cmdq[i + 1].kind
        BY <1>0, <1>2, Zenon DEF StreamInv, RowsAligned
      <4>2. Len(cmdq) >= count
        BY <1>0, <1>3, SMTT(30) DEF FifoAligned
      <4>3. cmdq'[i] = cmdq[i + 1]
        <5>1. i \in 1 .. Len(cmdq) - 1
          <6>1. Len(cmdq) \in Nat /\ count \in Nat /\ i \in Nat /\ i >= 1
            BY <1>0, <1>2, <1>3
          <6> QED
            BY <4>1, <4>2, <6>1, SMTT(30)
        <5> QED
          BY <2>6, <5>1, Zenon
      <4> QED
        <5>1. stream'[i] = stream[i + 1]
          BY <1>2, Zenon
        <5>2. i <= count - 1
          BY <1>2, <1>3, <4>1
        <5> QED
          BY <4>1, <4>3, <5>1, <5>2, Zenon
    <3>3. ErrorEndsBatch'
      <4> SUFFICES ASSUME NEW i \in 1 .. Len(stream'), NEW j \in 1 .. Len(stream'),
                          stream'[i].t = "error", i < j
                   PROVE  stream'[j].t \in {"sync", "fatal"}
        BY Zenon DEF ErrorEndsBatch
      <4>1. /\ i + 1 \in 1 .. Len(stream) /\ j + 1 \in 1 .. Len(stream) /\ i + 1 < j + 1
            /\ stream'[i] = stream[i + 1] /\ stream'[j] = stream[j + 1]
        BY <1>2
      <4> QED
        BY <1>0, <4>1, Zenon DEF StreamInv, ErrorEndsBatch
    <3>4. SyncEndsBatch'
      <4> SUFFICES ASSUME NEW i \in 1 .. Len(stream'), stream'[i].t = "sync"
                   PROVE  /\ sync_sent /\ outq = <<>>
                          /\ \A j \in 1 .. Len(stream') : i < j => stream'[j].t = "fatal"
                          /\ \/ i = count
                             \/ \E j \in 1 .. Len(stream') : j < i /\ stream'[j].t = "error"
        <5>1. count' + 1 = count
          BY <1>3, <2>6
        <5> QED
          BY <1>1, <5>1, Zenon DEF SyncEndsBatch
      <4>1. /\ sync_sent /\ outq = <<>>
            /\ \A j \in 1 .. Len(stream) : i + 1 < j => stream[j].t = "fatal"
            /\ \/ i + 1 = count + 1
               \/ \E j \in 1 .. Len(stream) : j < i + 1 /\ stream[j].t = "error"
        BY <1>0, <1>2, <3>1, Zenon DEF StreamInv, SyncEndsBatch
      <4>2. ASSUME NEW j \in 1 .. Len(stream'), i < j PROVE stream'[j].t = "fatal"
        <5>1. j + 1 \in 1 .. Len(stream) /\ i + 1 < j + 1
          BY <1>2, <4>2
        <5> QED
          BY <1>2, <4>1, <5>1, Zenon
      <4>3. CASE i + 1 = count + 1
        BY <1>2, <1>3, <4>1, <4>2, <4>3
      <4>4. ASSUME NEW j \in 1 .. Len(stream), j < i + 1, stream[j].t = "error"
            PROVE  \E n \in 1 .. Len(stream') : n < i /\ stream'[n].t = "error"
        <5>1. j # 1
          BY <2>10, <4>4, Zenon
        <5>2. j - 1 \in 1 .. Len(stream') /\ j - 1 < i /\ stream'[j - 1] = stream[j]
          BY <1>2, <4>4, <5>1
        <5> QED
          BY <4>4, <5>2, Zenon
      <4> QED
        BY <4>1, <4>2, <4>3, <4>4, Zenon
    <3>5. ServerInv'
      <4> SUFFICES ASSUME alive, ~ignoring, ~HasSync
                   PROVE  /\ Len(stream') + Len(outq) = Len(cmdq')
                          /\ \A k \in 1 .. Len(outq) : outq[k] = cmdq'[Len(stream') + k]
        BY <1>0, <1>1, <2>9, <2>10, <3>1, Zenon DEF ServerInv
      <4>1. /\ Len(stream) + Len(outq) = Len(cmdq)
            /\ \A k \in 1 .. Len(outq) : outq[k] = cmdq[Len(stream) + k]
        BY <1>0 DEF ServerInv
      <4>2. Len(outq) \in Nat
        BY <1>0 DEF TypeOK, NetType
      <4>3. ASSUME NEW k \in 1 .. Len(outq) PROVE outq[k] = cmdq'[Len(stream') + k]
        <5>1. Len(stream') + k \in 1 .. Len(cmdq) - 1 /\ Len(stream') + k + 1 = Len(stream) + k
          BY <1>2, <1>3, <4>1, <4>2
        <5> QED
          BY <2>6, <4>1, <5>1, Zenon
      <4>4. Len(stream') + Len(outq) = Len(cmdq')
        <5>1. Len(stream') = Len(stream) - 1 /\ Len(cmdq') = Len(cmdq) - 1
          BY <1>2, <2>6, Zenon
        <5>2. Len(stream) + Len(outq) = Len(cmdq) /\ Len(stream) \in Nat
          BY <1>2, <4>1, Zenon
        <5> QED
          BY <4>2, <5>1, <5>2
      <4> QED
        BY <4>3, <4>4, Zenon
    <3> QED
      BY <1>4, <1>6, <2>6, <2>7, <2>8, <3>2, <3>3, <3>4, <3>5, Zenon DEF PgInv, StreamInv
  <2>11. CASE stream[1].t # "tuples"
    <3>1. pipeline' = "ABORTED"
      BY <1>1, <1>2, <2>11, Zenon
    <3>2. \A i \in 1 .. Len(stream') : stream'[i].t \in {"sync", "fatal"}
      <4>1. CASE stream[1].t = "error"
        BY <1>0, <1>2, <4>1, SMTT(30) DEF StreamInv, ErrorEndsBatch
      <4>2. CASE stream[1].t = "fatal"
        BY <1>0, <1>2, <4>2 DEF StreamInv, FatalIsLast
      <4> QED
        BY <1>2, <2>11, <4>1, <4>2, Zenon
    <3>3. RowsAligned' /\ ErrorEndsBatch'
      BY <3>2, Zenon DEF RowsAligned, ErrorEndsBatch
    <3>4. SyncEndsBatch'
      <4> SUFFICES ASSUME NEW i \in 1 .. Len(stream'), stream'[i].t = "sync"
                   PROVE  /\ sync_sent /\ outq = <<>>
                          /\ \A j \in 1 .. Len(stream') : i < j => stream'[j].t = "fatal"
        BY <1>1, <3>1, Zenon DEF SyncEndsBatch
      <4>1. /\ sync_sent /\ outq = <<>>
            /\ \A j \in 1 .. Len(stream) : i + 1 < j => stream[j].t = "fatal"
        BY <1>0, <1>2, Zenon DEF StreamInv, SyncEndsBatch
      <4>2. ASSUME NEW j \in 1 .. Len(stream'), i < j PROVE stream'[j].t = "fatal"
        <5>1. j + 1 \in 1 .. Len(stream) /\ i + 1 < j + 1
          BY <1>2, <4>2
        <5> QED
          BY <1>2, <4>1, <5>1, Zenon
      <4> QED
        BY <4>1, <4>2, Zenon
    <3>5. ServerInv'
      <4>1. CASE stream[1].t = "error"
        <5>1. HasError
          BY <1>2, <4>1, Zenon DEF HasError
        <5> QED
          BY <1>0, <1>1, <2>9, <3>1, <5>1, Zenon DEF ServerInv
      <4>2. CASE stream[1].t = "fatal"
        BY <1>0, <1>1, <1>2, <4>2, Zenon DEF ServerInv, StreamInv, FatalIsLast
      <4> QED
        BY <1>2, <2>11, <4>1, <4>2, Zenon
    <3> QED
      BY <1>4, <1>6, <2>6, <2>7, <2>8, <3>3, <3>4, <3>5, Zenon DEF PgInv, StreamInv
  <2> QED
    BY <2>10, <2>11, SMTT(30)
<1> QED
  BY <1>7, <1>8, Zenon

-----------------------------------------------------------------------------
(* The invariant, and what follows from it. *)

\* The invariant holds of a client that has just begun to connect.
LEMMA PgInvInit == Init => PgInv
<1> SUFFICES ASSUME Init PROVE PgInv
  OBVIOUS
<1>1. TypeOK
  BY TypeInit, Zenon
<1>2. FifoAligned /\ CallbackIdentity /\ FailsOnlyWhenLost /\ Numbering
  BY DEF Init, FifoAligned, CallbackIdentity, FailsOnlyWhenLost, Numbering
<1>3. StatusInv /\ OutInv
  BY DEF Init, StatusInv, OutInv
<1>4. StreamInv
  BY DEF Init, StreamInv, RowsAligned, ErrorEndsBatch, SyncEndsBatch, FatalIsLast
<1>5. ServerInv /\ EffectInv
  BY DEF Init, ServerInv, EffectInv, HasSync, HasError
<1> QED
  BY <1>1, <1>2, <1>3, <1>4, <1>5, Zenon DEF PgInv

\* Every step keeps the invariant.
LEMMA PgInvNext == PgInv /\ [Next]_vars => PgInv'
<1> SUFFICES ASSUME PgInv, [Next]_vars PROVE PgInv'
  OBVIOUS
<1>1. TypeOK'
  BY TypeStep, Zenon
<1>2. ASSUME NEW kind \in Kinds, send_request(kind) PROVE PgInv'
  BY <1>1, <1>2, SendStep, Zenon
<1>3. ASSUME NEW readable \in BOOLEAN, ServiceWrite(readable) PROVE PgInv'
  BY <1>1, <1>3, WriteStep, Zenon
<1>4. CASE Thread
  BY <1>1, <1>4, QuietStep, NullStep, BoundaryStep, ResultStep, AbortedStep, Zenon DEF Thread
<1>5. CASE ServerSteps
  BY <1>1, <1>5, ExecutesStep, RejectsStep, SkipsStep, SyncsStep DEF ServerSteps
<1>6. CASE ServerTerminates \/ ServerCrashes
  BY <1>1, <1>6, TerminatesStep, CrashesStep, Zenon
<1>7. CASE \/ alpha_pg_connect_start \/ service_connect \/ alpha_pg_close \/ ServiceSyncFails
           \/ ServiceRead \/ CallbackReturns \/ ServerFlushes \/ UNCHANGED vars
  BY <1>1, <1>7, QuietStep, Zenon
<1> QED
  BY <1>2, <1>3, <1>4, <1>5, <1>6, <1>7, Zenon DEF Next

\* The client, libpq, the network and the server stay in the states that the
\* inductive invariant describes.
THEOREM PgInvariant == Spec => []PgInv
BY PgInvInit, PgInvNext, PTL DEF Spec

\* Every variable keeps its type; the ring's indices stay in their ranges.
THEOREM PgTypeCorrect == Spec => []TypeOK
<1>1. PgInv => TypeOK
  BY Zenon DEF PgInv
<1> QED
  BY <1>1, PgInvariant, PTL

\* drain_results and complete_head pair every result libpq returns with the
\* request it belongs to, through errors, aborted pipelines and lost servers.
THEOREM PgFifoAligned == Spec => []FifoAligned
<1>1. PgInv => FifoAligned
  BY Zenon DEF PgInv
<1> QED
  BY <1>1, PgInvariant, PTL

\* Callbacks come once per request, in order, and with that request's own row.
THEOREM PgCallbackIdentity == Spec => []CallbackIdentity
<1>1. PgInv => CallbackIdentity
  BY Zenon DEF PgInv
<1> QED
  BY <1>1, PgInvariant, PTL

\* drain_results never loops on a NULL that libpq would return for ever.
THEOREM PgNoSpin == Spec => []NoSpin
<1>1. PgInv => NoSpin
  <2> SUFFICES ASSUME PgInv, async = "IDLE" PROVE count = 0 /\ ~sync_sent
    BY Zenon DEF NoSpin
  <2>1. cmdq = <<>> /\ count \in Nat /\ sync_sent \in BOOLEAN
    BY CapacityAssumption DEF PgInv, StatusInv, TypeOK, DriverType
  <2> QED
    BY <2>1 DEF PgInv, FifoAligned
<1> QED
  BY <1>1, PgInvariant, PTL

\* A failed request has left nothing in the database.
THEOREM PgFailedHasNoEffect == Spec => []FailedHasNoEffect
<1>1. PgInv => FailedHasNoEffect
  <2> SUFFICES ASSUME PgInv, NEW i \in 1 .. Len(delivered), i \in txn \union committed
               PROVE  delivered[i].ok
    BY Zenon DEF FailedHasNoEffect
  <2>1. EffectInv
    BY Zenon DEF PgInv
  <2>2. i <= Len(delivered)
    OBVIOUS
  <2> QED
    BY <2>1, <2>2, Zenon DEF EffectInv
<1> QED
  BY <1>1, PgInvariant, PTL

\* Buffered output always leaves write readiness wanted.
THEOREM PgUnsentIsWanted == Spec => []UnsentIsWanted
<1>1. PgInv => UnsentIsWanted
  BY Zenon DEF PgInv, OutInv, UnsentIsWanted, alpha_pg_wants_write
<1> QED
  BY <1>1, PgInvariant, PTL

\* An established connection fails only when the server is lost.
THEOREM PgFailsOnlyWhenLost == Spec => []FailsOnlyWhenLost
<1>1. PgInv => FailsOnlyWhenLost
  BY Zenon DEF PgInv
<1> QED
  BY <1>1, PgInvariant, PTL

-----------------------------------------------------------------------------
(* The client implements RequestFifo. *)

Waiting == [i \in 1 .. count |-> fifo[Slot(i - 1)].id]

\* What waits in the ring is determined by how much has been called back.
WaitingInv ==
    /\ Waiting \in Seq(Nat) /\ Len(Waiting) = count
    /\ \A i \in 1 .. count : Waiting[i] = Len(delivered) + i
    /\ count \in 0 .. Capacity /\ Len(delivered) \in Nat /\ issued = Len(delivered) + count

\* The ring's ids are consecutive, from the first not called back.
LEMMA WaitingFacts == TypeOK /\ Numbering => WaitingInv
<1> SUFFICES ASSUME TypeOK, Numbering PROVE WaitingInv
  OBVIOUS
<1>1. count \in 0 .. Capacity /\ Capacity \in Nat
  BY CapacityAssumption, Zenon DEF TypeOK, DriverType
<1>2. Len(delivered) \in Nat
  BY DEF TypeOK, HistoryType
<1>3. \A i \in 1 .. count : fifo[Slot(i - 1)].id = Len(delivered) + i
  BY Zenon DEF Numbering
<1> QED
  BY <1>1, <1>2, <1>3 DEF Waiting, WaitingInv, Numbering

\* The same of the state after a step.
LEMMA WaitingFactsNext == TypeOK' /\ Numbering' => WaitingInv'
BY WaitingFacts, PTL

\* A client that has just begun to connect is an empty queue.
LEMMA FifoInit == Init => Fifo!Init
BY DEF Init, Fifo!Init

\* A step that leaves the ring alone is no step of the queue.
LEMMA FifoStutter ==
    ASSUME TypeOK, Numbering, TypeOK', Numbering', UNCHANGED <<count, issued, delivered>>
    PROVE  UNCHANGED <<Waiting, issued, delivered>>
<1>1. /\ Waiting \in Seq(Nat) /\ Len(Waiting) = count
      /\ \A i \in 1 .. count : Waiting[i] = Len(delivered) + i
  BY WaitingFacts, Zenon DEF WaitingInv
<1>2. /\ Waiting' \in Seq(Nat) /\ Len(Waiting') = count'
      /\ \A i \in 1 .. count' : Waiting'[i] = Len(delivered') + i
  BY WaitingFactsNext, Zenon DEF WaitingInv
<1>3. Waiting' = Waiting
  BY <1>1, <1>2, SameSequence, Zenon
<1> QED
  BY <1>3, Zenon

\* Calling back the head of the ring is completing the head of the queue.
LEMMA FifoComplete ==
    ASSUME TypeOK, Numbering, TypeOK', Numbering', count # 0, issued' = issued,
           NEW ok \in BOOLEAN, NEW res \in 0 .. issued, complete_head(ok, res),
           ok => res = Len(delivered) + 1
    PROVE  Fifo!Next
<1>1. /\ Waiting \in Seq(Nat) /\ Len(Waiting) = count
      /\ \A i \in 1 .. count : Waiting[i] = Len(delivered) + i
      /\ count \in 1 .. Capacity /\ Len(delivered) \in Nat
  BY WaitingFacts DEF WaitingInv
<1>2. /\ Waiting' \in Seq(Nat) /\ Len(Waiting') = count'
      /\ \A i \in 1 .. count' : Waiting'[i] = Len(delivered') + i
  BY WaitingFactsNext, Zenon DEF WaitingInv
<1>3. /\ count' = count - 1
      /\ delivered' = Append(delivered, [id |-> fifo[head].id, ok |-> ok, res |-> res])
  BY Zenon DEF complete_head
<1>4. Len(delivered') = Len(delivered) + 1
  <2>1. issued = Len(delivered) + count /\ issued' = Len(delivered') + count'
    BY Zenon DEF Numbering
  <2>2. Len(delivered') \in Nat
    BY DEF TypeOK, HistoryType
  <2> QED
    BY <1>1, <1>3, <2>1, <2>2
<1>5. /\ Waiting # <<>> /\ Head(Waiting) = Waiting[1] /\ Waiting[1] = Len(delivered) + 1
      /\ Tail(Waiting) \in Seq(Nat) /\ Len(Tail(Waiting)) = count - 1
      /\ \A i \in 1 .. count - 1 : Tail(Waiting)[i] = Waiting[i + 1]
  BY <1>1, TailFacts, SMTT(30)
<1>6. Waiting' = Tail(Waiting)
  <2>1. ASSUME NEW i \in 1 .. count - 1 PROVE Waiting'[i] = Tail(Waiting)[i]
    <3>1. i \in 1 .. count' /\ i + 1 \in 1 .. count
      BY <1>1, <1>3
    <3>2. Waiting'[i] = Len(delivered) + 1 + i /\ Waiting[i + 1] = Len(delivered) + (i + 1)
      BY <1>1, <1>2, <1>4, <3>1, Zenon
    <3>3. Tail(Waiting)[i] = Waiting[i + 1]
      BY <1>5, Zenon
    <3> QED
      BY <1>1, <3>1, <3>2, <3>3
  <2> QED
    BY <1>2, <1>3, <1>5, <2>1, SameSequence, Zenon
<1>7. fifo[head].id = Head(Waiting)
  <2>1. head \in Slots /\ head + (1 - 1) = head
    BY DEF TypeOK, DriverType, Slots
  <2>2. Slot(1 - 1) = head
    BY <2>1, SlotMod, Zenon DEF Slot
  <2>3. 1 \in 1 .. count
    BY <1>1
  <2>4. fifo[Slot(1 - 1)].id = Len(delivered) + 1
    BY <2>3, Zenon DEF Numbering
  <2> QED
    BY <1>5, <2>2, <2>4, Zenon
<1>8. Fifo!Complete(ok, res)
  BY <1>3, <1>5, <1>6, <1>7, Zenon DEF Fifo!Complete, Waiting
<1> QED
  BY <1>8, Zenon DEF Fifo!Next

\* A query carries the id of the request it was made from.
LEMMA QueryId == \A r : Query(r).id = r.id
BY Zenon DEF Query

\* Every step is a step of the queue or no step of it.
LEMMA FifoStep ==
    PgInv /\ PgInv' /\ [Next]_vars => [Fifo!Next]_<<Waiting, issued, delivered>>
<1> SUFFICES ASSUME PgInv, PgInv', [Next]_vars
             PROVE  Fifo!Next \/ UNCHANGED <<Waiting, issued, delivered>>
  OBVIOUS
<1>0. TypeOK /\ FifoAligned /\ Numbering /\ TypeOK' /\ Numbering'
  BY Zenon DEF PgInv
<1>1. ASSUME NEW kind \in Kinds, send_request(kind) PROVE Fifo!Next
  <2>1. /\ Waiting \in Seq(Nat) /\ Len(Waiting) = count
        /\ \A i \in 1 .. count : Waiting[i] = Len(delivered) + i
        /\ count \in 0 .. Capacity /\ Len(delivered) \in Nat /\ issued = Len(delivered) + count
    BY <1>0, WaitingFacts, Zenon DEF WaitingInv
  <2>2. /\ Waiting' \in Seq(Nat) /\ Len(Waiting') = count'
        /\ \A i \in 1 .. count' : Waiting'[i] = Len(delivered') + i
    BY <1>0, WaitingFactsNext, Zenon DEF WaitingInv
  <2>3. count' = count + 1 /\ issued' = issued + 1 /\ delivered' = delivered /\ count # Capacity
    BY <1>1, Zenon DEF send_request, Accepts
  <2>4. /\ Append(Waiting, issued + 1) \in Seq(Nat) /\ Len(Append(Waiting, issued + 1)) = count + 1
        /\ \A i \in 1 .. count : Append(Waiting, issued + 1)[i] = Waiting[i]
        /\ Append(Waiting, issued + 1)[count + 1] = issued + 1
    BY <2>1, AppendFacts
  <2>5. Waiting' = Append(Waiting, issued + 1)
    <3>1. ASSUME NEW i \in 1 .. count + 1 PROVE Waiting'[i] = Append(Waiting, issued + 1)[i]
      <4>1. CASE i \in 1 .. count
        BY <2>1, <2>2, <2>3, <2>4, <4>1, Zenon
      <4>2. CASE i = count + 1
        BY <2>1, <2>2, <2>3, <2>4, <4>2
      <4> QED
        BY <2>1, <4>1, <4>2
    <3> QED
      <4>1. Len(Waiting') = Len(Append(Waiting, issued + 1)) /\ Len(Waiting') = count + 1
        BY <2>2, <2>3, <2>4, Zenon
      <4>2. \A i \in 1 .. Len(Waiting') : Waiting'[i] = Append(Waiting, issued + 1)[i]
        BY <3>1, <4>1, Zenon
      <4> QED
        BY <2>2, <2>4, <4>1, <4>2, SameSequence, Zenon
  <2>6. Len(Waiting) < Capacity
    BY <2>1, <2>3, CapacityAssumption
  <2>7. Fifo!Accept
    BY <2>3, <2>5, <2>6, Zenon DEF Fifo!Accept, Waiting
  <2> QED
    BY <2>7, Zenon DEF Fifo!Next
<1>2. CASE DrainResult /\ count # 0
  <2>1. complete_head(Parsed(Head(stream)), Head(stream).id) /\ issued' = issued /\ PopMessage
    BY <1>2, Zenon DEF DrainResult
  <2>2. Head(stream) = stream[1] /\ 1 \in 1 .. Len(stream) /\ ~IsBoundary(stream[1])
    <3>1. Head(stream) = stream[1] /\ Len(stream) > 0 /\ Len(stream) \in Nat
      <4>1. stream \in Seq(Message)
        BY <1>0, Zenon DEF TypeOK, NetType
      <4>2. Head(stream) = stream[1] /\ Len(stream) > 0
        BY <1>0, <2>1, PopType, Zenon
      <4> QED
        BY <4>1, <4>2
    <3> QED
      BY <1>2, <3>1 DEF DrainResult
  <2>3. /\ issued = Len(delivered) + count /\ count \in 1 .. Capacity /\ Len(delivered) \in Nat
        /\ Capacity \in Nat
    BY <1>0, <1>2, WaitingFacts, CapacityAssumption DEF WaitingInv
  <2>4. CASE stream[1].t = "fatal"
    <3>1. stream[1].id = 0 /\ ~Parsed(stream[1])
      BY <2>2, <2>4, Zenon DEF PgInv, StreamInv, FatalIsLast, Parsed
    <3>2. Parsed(stream[1]) \in BOOLEAN
      BY Zenon DEF Parsed
    <3>3. stream[1].id \in 0 .. issued
      BY <2>3, <3>1
    <3> QED
      BY <1>0, <1>2, <2>1, <2>2, <3>1, <3>2, <3>3, FifoComplete, Zenon
  <2>5. CASE stream[1].t # "fatal"
    <3>1. stream[1].id = cmdq[1].id
      <4>1. stream[1].t \in {"tuples", "error"}
        BY <1>0, <2>2, <2>5, MessageType DEF IsBoundary
      <4> QED
        BY <2>2, <4>1, Zenon DEF PgInv, StreamInv, RowsAligned
    <3>2. cmdq[1].id = Len(delivered) + 1
      <4>1. 1 \in 1 .. count
        BY <2>3
      <4>2. cmdq[1] = Query(fifo[Slot(1 - 1)]) /\ fifo[Slot(1 - 1)].id = Len(delivered) + 1
        BY <4>1, Zenon DEF PgInv, FifoAligned, Numbering
      <4>3. cmdq[1].id = fifo[Slot(1 - 1)].id
        BY <4>2, QueryId, Zenon
      <4> QED
        BY <4>2, <4>3, Zenon
    <3>3. Parsed(stream[1]) \in BOOLEAN
      BY Zenon DEF Parsed
    <3>4. stream[1].id \in 0 .. issued /\ stream[1].id = Len(delivered) + 1
      BY <2>3, <3>1, <3>2
    <3> QED
      BY <1>0, <1>2, <2>1, <2>2, <3>3, <3>4, FifoComplete, Zenon
  <2> QED
    BY <2>4, <2>5, Zenon
<1>3. CASE DrainAborted /\ count # 0
  <2>1. complete_head(FALSE, Head(cmdq).id) /\ issued' = issued
    BY <1>3, Zenon DEF DrainAborted
  <2>2. /\ issued = Len(delivered) + count /\ count \in 1 .. Capacity /\ Len(delivered) \in Nat
        /\ Capacity \in Nat
    BY <1>0, <1>3, WaitingFacts, CapacityAssumption DEF WaitingInv
  <2>3. Head(cmdq).id = Len(delivered) + 1
    <3>1. 1 \in 1 .. count /\ cmdq \in Seq(Command) /\ Len(cmdq) > 0
      <4>1. 1 \in 1 .. count
        BY <2>2
      <4>2. cmdq \in Seq(Command)
        BY <1>0, Zenon DEF TypeOK, LibpqType
      <4>3. Len(cmdq) >= count
        BY <1>0, <2>2 DEF FifoAligned
      <4> QED
        BY <2>2, <4>1, <4>2, <4>3
    <3>2. cmdq[1] = Query(fifo[Slot(1 - 1)]) /\ fifo[Slot(1 - 1)].id = Len(delivered) + 1
      BY <3>1, Zenon DEF PgInv, FifoAligned, Numbering
    <3>3. Head(cmdq) = cmdq[1]
      BY <3>1, TailFacts, Zenon
    <3>4. cmdq[1].id = fifo[Slot(1 - 1)].id
      BY <3>2, QueryId, Zenon
    <3> QED
      BY <3>2, <3>3, <3>4, Zenon
  <2>4. Head(cmdq).id \in 0 .. issued
    BY <2>2, <2>3
  <2> QED
    BY <1>0, <1>3, <2>1, <2>3, <2>4, FifoComplete, Zenon
<1>4. ASSUME UNCHANGED <<count, issued, delivered>>
      PROVE  UNCHANGED <<Waiting, issued, delivered>>
  BY <1>0, <1>4, FifoStutter, Zenon
<1>5. CASE (DrainResult \/ DrainAborted) /\ count = 0
  BY <1>4, <1>5, Zenon DEF DrainResult, DrainAborted
<1>6. CASE ServerSteps \/ ServerFlushes \/ ServerTerminates \/ ServerCrashes
  BY <1>4, <1>6, Zenon DEF ServerSteps, ServerExecutes, ServerRejects, ServerSkips, ServerSyncs,
                    ServerFlushes, ServerTerminates, ServerCrashes, driver, history
<1>7. CASE ConsumeInput \/ DrainBusy \/ DrainNull \/ DrainSync \/ CallbackReturns
  BY <1>4, <1>7, Zenon DEF ConsumeInput, DrainBusy, DrainNull, DrainSync, DrainBoundary,
                    CallbackReturns, driver, history
<1>8. CASE \/ alpha_pg_connect_start \/ service_connect \/ alpha_pg_close \/ ServiceSyncFails
           \/ ServiceRead \/ UNCHANGED vars
  BY <1>4, <1>8, Zenon DEF alpha_pg_connect_start, service_connect, alpha_pg_close, ServiceSyncFails,
                    ServiceRead, vars, driver, history
<1>9. ASSUME NEW readable \in BOOLEAN, ServiceWrite(readable)
      PROVE  UNCHANGED <<Waiting, issued, delivered>>
  BY <1>4, <1>9, Zenon DEF ServiceWrite, history
<1> QED
  BY <1>1, <1>2, <1>3, <1>5, <1>6, <1>7, <1>8, <1>9, Zenon DEF Next, Thread

\* The ring in front of libpq implements the bounded FIFO of requests.
THEOREM PgRefinesFifo == Spec => RefinesFifo
<1>1. Init => Fifo!Init
  BY FifoInit, Zenon
<1>2. PgInv /\ PgInv' /\ [Next]_vars => [Fifo!Next]_<<Waiting, issued, delivered>>
  BY FifoStep, Zenon
<1> QED
  BY <1>1, <1>2, PgInvariant, PTL DEF Spec, RefinesFifo, Fifo!Spec, Waiting
-----------------------------------------------------------------------------
(* An idle client is settled. *)

\* An owner that serves every write it is asked for closes a batch before it
\* reads, so a callback runs, and nothing is submitted from it, while the
\* boundary is out.
TurnInv ==
    /\ pc # "loop" /\ count > 0 => sync_sent
    /\ pc = "callback" => sync_sent

\* Nothing in flight: the server is between two batches.
QuietInv == alive /\ count = 0 /\ ~sync_sent => txn = {} /\ ~ignoring

\* The answer to the boundary follows the commit.
SyncedInv == alive /\ HasSync => txn = {}

\* A row reported, or on its way, has its effect, unless an error of its batch
\* has been reported after it or is on its way.
StoredInv ==
    alive =>
        /\ \A k \in 1 .. Len(stream) :
              stream[k].t = "tuples" => stream[k].id \in txn \union committed \/ HasError
        /\ \A i \in 1 .. Len(delivered) :
              delivered[i].ok => \/ i \in txn \union committed \/ HasError
                                 \/ \E j \in i + 1 .. Len(delivered) : ~delivered[j].ok

SettledInv == (EagerOwner => TurnInv /\ QuietInv) /\ SyncedInv /\ StoredInv

\* The message at the front is taken, and the others move up.
LEMMA MessagesMoveUp ==
    ASSUME PgInv, PopMessage
    PROVE  /\ Len(stream) \in Nat /\ 1 \in 1 .. Len(stream) /\ Len(stream') = Len(stream) - 1
           /\ Head(stream) = stream[1] /\ async = "BUSY"
           /\ \A i \in 1 .. Len(stream') : stream'[i] = stream[i + 1] /\ i + 1 \in 1 .. Len(stream)
           /\ HasSync' => HasSync
           /\ HasError' => HasError
           /\ stream[1].t # "error" => (HasError => HasError')
<1>1. /\ Len(stream) > 0 /\ Len(stream') = Len(stream) - 1 /\ Head(stream) = stream[1]
      /\ \A i \in 1 .. Len(stream') : stream'[i] = stream[i + 1]
  BY PopType, Zenon DEF PgInv
<1>2. Len(stream) \in Nat /\ async = "BUSY"
  BY DEF PgInv, TypeOK, NetType, PopMessage
<1>3. 1 \in 1 .. Len(stream) /\ \A i \in 1 .. Len(stream') : i + 1 \in 1 .. Len(stream)
  BY <1>1, <1>2
<1>4. HasSync' => HasSync
  BY <1>1, <1>3, Zenon DEF HasSync
<1>5. HasError' => HasError
  BY <1>1, <1>3, Zenon DEF HasError
<1>6. ASSUME stream[1].t # "error", HasError PROVE HasError'
  <2>1. PICK k \in 1 .. Len(stream) : stream[k].t = "error"
    BY <1>6 DEF HasError
  <2>2. k - 1 \in 1 .. Len(stream') /\ (k - 1) + 1 = k
    BY <1>1, <1>2, <1>6, <2>1
  <2>3. stream'[k - 1] = stream[k]
    BY <1>1, <2>2, Zenon
  <2>4. QED
    BY <2>1, <2>2, <2>3, Zenon DEF HasError
<1>7. QED
  BY <1>1, <1>2, <1>3, <1>4, <1>5, <1>6, Zenon

\* When the boundary is read every request has been called back, and nothing
\* but the end of the session follows it.
LEMMA BoundaryEmpties ==
    ASSUME PgInv, async = "BUSY", 1 \in 1 .. Len(stream), stream[1].t = "sync"
    PROVE  count = 0 /\ HasSync /\ ~HasError /\ \A k \in 1 .. Len(stream) : stream[k].t # "tuples"
<1>0. FifoAligned /\ StatusInv /\ SyncEndsBatch /\ count \in Nat /\ Len(stream) \in Nat
  BY CapacityAssumption DEF PgInv, StreamInv, TypeOK, DriverType, NetType
<1>1. pipeline = "ABORTED" \/ count = 0
  BY <1>0 DEF SyncEndsBatch
<1>2. ASSUME pipeline = "ABORTED", count # 0 PROVE FALSE
  <2>1. cmdq[1].t = "sync" /\ 1 \in 1 .. count
    BY <1>0, <1>2 DEF StatusInv
  <2>2. cmdq[1] = Query(fifo[Slot(1 - 1)])
    BY <1>0, <2>1, Zenon DEF FifoAligned
  <2>3. QED
    BY <2>1, <2>2 DEF Query
<1>3. \A k \in 1 .. Len(stream) : stream[k].t \in {"sync", "fatal"}
  BY <1>0 DEF SyncEndsBatch
<1>4. QED
  BY <1>1, <1>2, <1>3, Zenon DEF HasSync, HasError

\* An owner that serves every write closes a batch before it reads.
LEMMA TurnStep ==
    ASSUME PgInv, TurnInv, EagerOwner, Next
    PROVE  TurnInv'
<1>0. count \in Nat
  BY CapacityAssumption DEF PgInv, TypeOK, DriverType
<1>1. ASSUME NEW kind \in Kinds, send_request(kind) PROVE TurnInv'
  BY <1>1, Zenon DEF send_request, Accepts, TurnInv
<1>2. ASSUME NEW readable \in BOOLEAN, ServiceWrite(readable) PROVE TurnInv'
  <2>1. sync_sent' = (sync_sent \/ (count > 0 /\ ~sync_sent)) /\ count' = count /\ pc' \in {"read", "loop"}
    BY <1>2, Zenon DEF ServiceWrite
  <2>2. QED
    BY <2>1, Zenon DEF TurnInv
<1>3. CASE ServiceRead
  BY <1>3, Zenon DEF ServiceRead, alpha_pg_wants_write, TurnInv, driver
<1>4. CASE DrainSync
  <2>1. PopMessage /\ stream[1].t = "sync" /\ 1 \in 1 .. Len(stream) /\ async = "BUSY" /\ pc = "drain"
    BY <1>4, MessagesMoveUp, Zenon DEF DrainSync, DrainBoundary, IsBoundary
  <2>2. count = 0
    BY <2>1, BoundaryEmpties, Zenon
  <2>3. QED
    BY <1>4, <2>1, <2>2 DEF DrainSync, DrainBoundary, TurnInv
<1>5. CASE DrainResult \/ DrainAborted
  <2>1. /\ pc = "drain" /\ sync_sent' = sync_sent
        /\ \/ pc' = "loop"
           \/ pc' = "callback" /\ count # 0
    BY <1>5, ZenonT(40) DEF DrainResult, DrainAborted, complete_head
  <2>2. QED
    BY <1>0, <2>1, SMTT(30) DEF TurnInv
<1>6. CASE UNCHANGED <<count, sync_sent>> /\ (pc' = "loop" \/ (pc # "loop" /\ pc' # "callback") \/ pc' = pc)
  BY <1>6, Zenon DEF TurnInv
<1>7. QED
  <2>1. CASE \/ alpha_pg_connect_start \/ service_connect \/ alpha_pg_close \/ ServiceSyncFails
             \/ ServerFlushes \/ ServerTerminates \/ ServerCrashes
             \/ ServerExecutes \/ ServerRejects \/ ServerSkips \/ ServerSyncs
    BY <1>6, <2>1, Zenon DEF alpha_pg_connect_start, service_connect, alpha_pg_close, ServiceSyncFails,
       ServerFlushes, ServerTerminates, ServerCrashes, ServerExecutes, ServerRejects, ServerSkips, ServerSyncs, driver
  <2>2. CASE ConsumeInput \/ DrainBusy \/ DrainNull \/ CallbackReturns
    BY <1>6, <2>2, Zenon DEF ConsumeInput, DrainBusy, DrainNull, CallbackReturns, driver
  <2>3. QED
    BY <1>1, <1>2, <1>3, <1>4, <1>5, <2>1, <2>2, Zenon DEF Next, Thread, ServerSteps

\* The steps at which the server's transaction or its answers do not change.
ServerAside ==
    /\ UNCHANGED <<stream, txn, committed, ignoring>> /\ (alive' => alive)

LEMMA AsideSteps ==
    ASSUME Next
    PROVE  \/ ServerAside \/ ~alive'
           \/ DrainNull \/ DrainSync \/ DrainResult
           \/ ServerExecutes \/ ServerRejects \/ ServerSyncs
<1>1. ASSUME NEW kind \in Kinds, send_request(kind) PROVE ServerAside
  BY <1>1, Zenon DEF send_request, ServerAside, server
<1>2. ASSUME NEW readable \in BOOLEAN, ServiceWrite(readable) PROVE ServerAside
  BY <1>2, Zenon DEF ServiceWrite, ServerAside, server
<1>3. CASE alpha_pg_close \/ ServerTerminates \/ ServerCrashes
  BY <1>3, Zenon DEF alpha_pg_close, ServerTerminates, ServerCrashes
<1>4. CASE \/ alpha_pg_connect_start \/ service_connect \/ ServiceSyncFails \/ ServiceRead
           \/ ConsumeInput \/ DrainBusy \/ DrainAborted \/ CallbackReturns \/ ServerSkips \/ ServerFlushes
  BY <1>4, Zenon DEF alpha_pg_connect_start, service_connect, ServiceSyncFails, ServiceRead, ConsumeInput,
     DrainBusy, DrainAborted, CallbackReturns, ServerSkips, ServerFlushes, ServerAside, server, net
<1>5. QED
  BY <1>1, <1>2, <1>3, <1>4, Zenon DEF Next, Thread, ServerSteps

\* Nothing queued, nothing answered: libpq has nothing for an idle connection.
LEMMA IdleStream ==
    ASSUME PgInv, alive, count = 0, ~sync_sent
    PROVE  Len(stream) = 0 /\ ~HasError /\ ~HasSync /\ Len(cmdq) = 0
<1>1. Len(stream) \in Nat /\ stream \in Seq(Message) /\ StreamInv /\ FifoAligned
  BY DEF PgInv, TypeOK, NetType
<1>2. \A i \in 1 .. Len(stream) : stream[i].t \in {"tuples", "error", "fatal", "sync"}
  BY MessageType, Zenon DEF PgInv
<1>3. \A i \in 1 .. Len(stream) : FALSE
  BY <1>1, <1>2 DEF StreamInv, RowsAligned, SyncEndsBatch, FatalIsLast
<1>4. Len(stream) = 0
  BY <1>1, <1>3
<1>5. QED
  BY <1>1, <1>3, <1>4 DEF HasError, HasSync, FifoAligned

\* The server's answer follows the messages there are.
LEMMA AnswerAppended ==
    ASSUME PgInv, ServerTakes, NEW type \in {"tuples", "error", "sync"},
           stream' = Append(stream, Answer(type, Head(outq)))
    PROVE  /\ Len(stream) \in Nat /\ Len(stream') = Len(stream) + 1
           /\ stream'[Len(stream) + 1].t = type /\ stream'[Len(stream) + 1].id = Head(outq).id
           /\ \A i \in 1 .. Len(stream) : stream'[i] = stream[i]
           /\ HasError => HasError'
           /\ type = "error" => HasError'
           /\ type # "sync" => ~HasSync'
<1> DEFINE m == Answer(type, Head(outq))
<1>1. Head(outq) \in Command /\ stream \in Seq(Message) /\ Len(stream) \in Nat /\ ~HasSync
  BY TakeType, TakeFacts DEF PgInv, TypeOK, NetType
<1>2. m \in Message /\ m.t = type /\ m.id = Head(outq).id
  BY <1>1, AnswerType, Zenon DEF Answer
<1> HIDE DEF m
<1>3. /\ Len(stream') = Len(stream) + 1 /\ stream'[Len(stream) + 1] = m
      /\ \A i \in 1 .. Len(stream) : stream'[i] = stream[i]
  <2>1. stream' = Append(stream, m)
    BY Zenon DEF m
  <2>2. QED
    BY <1>1, <1>2, <2>1, AppendFacts
<1>4. HasError => HasError'
  BY <1>1, <1>3, SMTT(30) DEF HasError
<1>5. type = "error" => HasError'
  BY <1>1, <1>2, <1>3 DEF HasError
<1>6. ASSUME type # "sync" PROVE ~HasSync'
  BY <1>1, <1>2, <1>3, <1>6 DEF HasSync
<1>7. QED
  BY <1>1, <1>2, <1>3, <1>4, <1>5, <1>6, Zenon

\* The boundary's answer follows the commit.
LEMMA SyncedStep ==
    ASSUME PgInv, SyncedInv, Next
    PROVE  SyncedInv'
<1>1. CASE ServerAside \/ ~alive'
  BY <1>1, Zenon DEF ServerAside, SyncedInv, HasSync
<1>2. CASE DrainNull
  <2>1. UNCHANGED <<alive, txn>>
    BY <1>2, ZenonT(40) DEF DrainNull, server
  <2>2. CASE async = "IDLE"
    <3>1. stream' = SubSeq(stream, arrived + 1, Len(stream))
      BY <1>2, <2>2, Zenon DEF DrainNull
    <3>2. alive => Len(stream) = 0 /\ arrived = 0
      <4>1. count = 0 /\ ~sync_sent
        <5>1. cmdq = <<>> /\ count \in Nat /\ sync_sent \in BOOLEAN
          BY <2>2, CapacityAssumption DEF PgInv, StatusInv, TypeOK, DriverType
        <5>2. 0 = count + (IF sync_sent THEN 1 ELSE 0)
          BY <5>1, Zenon DEF PgInv, FifoAligned
        <5>3. QED
          BY <5>1, <5>2
      <4>2. QED
        BY <4>1, IdleStream DEF PgInv, TypeOK, NetType
    <3>3. ASSUME alive PROVE Len(stream') = 0
      BY <3>1, <3>2, <3>3
    <3>4. QED
      BY <2>1, <3>3 DEF SyncedInv, HasSync
  <2>3. CASE async # "IDLE"
    BY <1>2, <2>1, <2>3, Zenon DEF DrainNull, SyncedInv, HasSync
  <2>4. QED
    BY <2>2, <2>3, Zenon
<1>3. CASE DrainSync \/ DrainResult
  <2>1. PopMessage /\ UNCHANGED <<alive, txn>>
    BY <1>3, Zenon DEF DrainSync, DrainBoundary, DrainResult, server
  <2>2. HasSync' => HasSync
    BY <2>1, MessagesMoveUp, Zenon
  <2>3. QED
    BY <2>1, <2>2, Zenon DEF SyncedInv
<1>4. CASE ServerExecutes
  <2>1. ServerTakes /\ stream' = Append(stream, Answer("tuples", Head(outq)))
    BY <1>4, Zenon DEF ServerExecutes
  <2>2. ~HasSync'
    BY <2>1, AnswerAppended, Zenon
  <2>3. QED
    BY <2>2, Zenon DEF SyncedInv
<1>5. CASE ServerRejects \/ ServerSyncs
  BY <1>5, Zenon DEF ServerRejects, ServerSyncs, SyncedInv
<1>6. QED
  BY <1>1, <1>2, <1>3, <1>4, <1>5, AsideSteps, Zenon

\* Between two batches the server has no transaction open.
LEMMA QuietServerStep ==
    ASSUME PgInv, PgInv', TurnInv, QuietInv, SyncedInv, EagerOwner, Next
    PROVE  QuietInv'
<1> SUFFICES ASSUME alive', count' = 0, ~sync_sent' PROVE txn' = {} /\ ~ignoring'
  BY Zenon DEF QuietInv
<1>0. count \in Nat
  BY CapacityAssumption DEF PgInv, TypeOK, DriverType
<1>1. CASE DrainSync
  <2>1. PopMessage /\ Head(stream).t = "sync" /\ UNCHANGED <<alive, txn, ignoring>>
    BY <1>1, Zenon DEF DrainSync, DrainBoundary, IsBoundary, server
  <2>2. stream[1].t = "sync" /\ 1 \in 1 .. Len(stream) /\ async = "BUSY"
    BY <2>1, MessagesMoveUp, Zenon
  <2>3. HasSync
    BY <2>2, Zenon DEF HasSync
  <2>4. QED
    BY <2>1, <2>3, Zenon DEF SyncedInv, PgInv, ServerInv
<1>2. CASE DrainResult \/ DrainAborted
  <2>1. pc = "drain" /\ sync_sent' = sync_sent /\ UNCHANGED <<alive, txn, ignoring>>
    BY <1>2, Zenon DEF DrainResult, DrainAborted, server
  <2>2. count = 0
    BY <1>0, <2>1 DEF TurnInv
  <2>3. QED
    BY <2>1, <2>2, Zenon DEF QuietInv
<1>3. CASE ServerExecutes \/ ServerRejects \/ ServerSyncs
  <2>1. ServerTakes /\ UNCHANGED <<count, sync_sent>>
    BY <1>3, Zenon DEF ServerExecutes, ServerRejects, ServerSyncs, driver
  <2>2. Len(outq) > 0 /\ Len(outq) \in Nat /\ alive
    BY <2>1, TakeFacts, Zenon DEF ServerTakes
  <2>3. ~ignoring /\ Len(stream) = 0 /\ ~HasSync /\ Len(cmdq) = 0
    BY <2>1, <2>2, IdleStream, Zenon DEF QuietInv
  <2>4. Len(stream) + Len(outq) = Len(cmdq)
    BY <2>2, <2>3, Zenon DEF PgInv, ServerInv
  <2>5. QED
    BY <2>2, <2>3, <2>4
<1>4. ASSUME UNCHANGED <<txn, ignoring>>, alive, count = 0, ~sync_sent PROVE txn' = {} /\ ~ignoring'
  BY <1>4, Zenon DEF QuietInv
<1>5. ASSUME NEW kind \in Kinds, send_request(kind) PROVE FALSE
  BY <1>0, <1>5 DEF send_request
<1>6. ASSUME NEW readable \in BOOLEAN, ServiceWrite(readable) PROVE txn' = {} /\ ~ignoring'
  <2>1. sync_sent' = (sync_sent \/ (count > 0 /\ ~sync_sent)) /\ count' = count /\ UNCHANGED <<txn, ignoring, alive>>
    BY <1>6, Zenon DEF ServiceWrite, server
  <2>2. QED
    BY <1>4, <2>1, Zenon
<1>7. CASE \/ alpha_pg_connect_start \/ service_connect \/ alpha_pg_close \/ ServiceSyncFails \/ ServiceRead
           \/ ConsumeInput \/ DrainBusy \/ DrainNull \/ CallbackReturns \/ ServerSkips \/ ServerFlushes
           \/ ServerTerminates \/ ServerCrashes
  <2>1. UNCHANGED <<count, sync_sent>> /\ ((UNCHANGED <<txn, ignoring>> /\ alive) \/ ~alive')
    BY <1>7, ZenonT(40) DEF alpha_pg_connect_start, service_connect, alpha_pg_close, ServiceSyncFails, ServiceRead, ConsumeInput,
       DrainBusy, DrainNull, CallbackReturns, ServerSkips, ServerFlushes, ServerTerminates, ServerCrashes, driver, server
  <2>2. QED
    BY <1>4, <2>1, Zenon
<1>8. QED
  BY <1>1, <1>2, <1>3, <1>5, <1>6, <1>7, Zenon DEF Next, Thread, ServerSteps

\* A callback more: what it reports, and what it leaves of the earlier ones.
LEMMA ReportAppended ==
    ASSUME PgInv, NEW ok \in BOOLEAN, NEW res \in Nat, complete_head(ok, res)
    PROVE  /\ Len(delivered) \in Nat /\ Len(delivered') = Len(delivered) + 1
           /\ delivered'[Len(delivered) + 1].ok = ok /\ delivered'[Len(delivered) + 1].res = res
           /\ \A i \in 1 .. Len(delivered) : delivered'[i] = delivered[i]
<1> DEFINE report == [id |-> fifo[head].id, ok |-> ok, res |-> res]
           Report == [id : Nat, ok : BOOLEAN, res : Nat]
<1>1. delivered \in Seq(Report) /\ Len(delivered) \in Nat /\ fifo[head].id \in Nat
  BY DEF PgInv, TypeOK, HistoryType, DriverType, Request
<1>2. report \in Report /\ report.ok = ok /\ report.res = res
  BY <1>1, Zenon
<1>3. delivered' = Append(delivered, report)
  BY Zenon DEF complete_head
<1> HIDE DEF report, Report
<1>4. QED
  BY <1>1, <1>2, <1>3, AppendFacts

\* What is reported as stored stays so: the reports and the answers do not
\* change, and no effect is undone.
LEMMA StoredQuiet ==
    ASSUME StoredInv, alive' => alive, UNCHANGED <<stream, delivered>>,
           txn \union committed \subseteq txn' \union committed'
    PROVE  StoredInv'
  BY Zenon DEF StoredInv, HasError

\* A result is called back: a row with its effect, or the error that undid it.
LEMMA StoredResult ==
    ASSUME PgInv, PgInv', StoredInv, DrainResult
    PROVE  StoredInv'
<1> SUFFICES ASSUME alive PROVE StoredInv'
  BY Zenon DEF StoredInv, DrainResult, server
<1>1. PopMessage /\ Head(stream).t # "sync" /\ UNCHANGED <<alive, txn, committed>>
  BY Zenon DEF DrainResult, IsBoundary, server
<1>2. /\ Len(stream) \in Nat /\ 1 \in 1 .. Len(stream) /\ Head(stream) = stream[1]
      /\ \A i \in 1 .. Len(stream') : stream'[i] = stream[i + 1] /\ i + 1 \in 1 .. Len(stream)
      /\ HasError' => HasError
      /\ stream[1].t # "error" => (HasError => HasError')
  BY <1>1, MessagesMoveUp, Zenon
<1>3. stream[1].t \in {"tuples", "error"} /\ stream[1].id \in Nat
  <2>1. stream[1] \in Message /\ stream[1].t \in {"tuples", "error", "fatal", "sync"}
    BY <1>2, MessageType, Zenon DEF PgInv
  <2>2. stream[1].t # "fatal"
    BY <1>2, Zenon DEF PgInv, StreamInv, FatalIsLast
  <2>3. QED
    BY <1>1, <1>2, <2>1, <2>2, Zenon DEF Message
<1>4. count # 0
  BY <1>2, <1>3 DEF PgInv, StreamInv, RowsAligned
<1>5. PICK ok \in BOOLEAN : /\ complete_head(ok, stream[1].id)
                            /\ stream[1].t = "error" => ok = FALSE
  <2>1. complete_head(Parsed(Head(stream)), Head(stream).id)
    BY <1>4, Zenon DEF DrainResult
  <2>2. Parsed(Head(stream)) \in BOOLEAN /\ (stream[1].t = "error" => Parsed(Head(stream)) = FALSE)
    BY <1>2, Zenon DEF Parsed
  <2>3. QED
    BY <1>2, <2>1, <2>2, Zenon
<1>6. /\ Len(delivered) \in Nat /\ Len(delivered') = Len(delivered) + 1
      /\ delivered'[Len(delivered) + 1].ok = ok /\ delivered'[Len(delivered) + 1].res = stream[1].id
      /\ \A i \in 1 .. Len(delivered) : delivered'[i] = delivered[i]
  BY <1>3, <1>5, ReportAppended, Zenon
<1>7. CASE stream[1].t = "error"
  <2>1. \A i \in 1 .. Len(delivered') :
            delivered'[i].ok => \E j \in i + 1 .. Len(delivered') : ~delivered'[j].ok
    BY <1>5, <1>6, <1>7
  <2>2. \A k \in 1 .. Len(stream') : stream'[k].t # "tuples"
    <3> SUFFICES ASSUME NEW k \in 1 .. Len(stream') PROVE stream'[k].t # "tuples"
      OBVIOUS
    <3>1. stream'[k] = stream[k + 1] /\ k + 1 \in 1 .. Len(stream) /\ 1 < k + 1
      BY <1>2
    <3>2. stream[k + 1].t \in {"sync", "fatal"}
      BY <1>2, <1>7, <3>1, ZenonT(40) DEF PgInv, StreamInv, ErrorEndsBatch
    <3>3. QED
      BY <3>1, <3>2, Zenon
  <2>3. QED
    BY <2>1, <2>2, Zenon DEF StoredInv
<1>8. CASE stream[1].t = "tuples"
  <2>1. HasError <=> HasError'
    BY <1>2, <1>8, Zenon
  <2>2. \A k \in 1 .. Len(stream') :
            stream'[k].t = "tuples" => stream'[k].id \in txn' \union committed' \/ HasError'
    BY <1>1, <1>2, <2>1, Zenon DEF StoredInv
  <2>3. ok => Len(delivered) + 1 \in txn' \union committed' \/ HasError'
    <3>1. ok => stream[1].id = Len(delivered) + 1
      <4>1. Len(delivered) + 1 \in 1 .. Len(delivered')
        BY <1>6
      <4>2. QED
        BY <1>6, <4>1, Zenon DEF PgInv, CallbackIdentity
    <3>2. stream[1].id \in txn \union committed \/ HasError
      BY <1>2, <1>8, Zenon DEF StoredInv
    <3>3. QED
      BY <1>1, <2>1, <3>1, <3>2, Zenon
  <2>4. \A i \in 1 .. Len(delivered') :
            delivered'[i].ok => \/ i \in txn' \union committed' \/ HasError'
                                \/ \E j \in i + 1 .. Len(delivered') : ~delivered'[j].ok
    <3> SUFFICES ASSUME NEW i \in 1 .. Len(delivered) + 1, delivered'[i].ok
                 PROVE  \/ i \in txn' \union committed' \/ HasError'
                        \/ \E j \in i + 1 .. Len(delivered') : ~delivered'[j].ok
      BY <1>6, Zenon
    <3>1. CASE i = Len(delivered) + 1
      BY <1>6, <2>3, <3>1, Zenon
    <3>2. CASE i # Len(delivered) + 1
      <4>1. i \in 1 .. Len(delivered) /\ delivered[i].ok
        BY <1>6, <3>2, SMTT(30)
      <4>2. CASE \E j \in i + 1 .. Len(delivered) : ~delivered[j].ok
        BY <1>6, <4>1, <4>2
      <4>3. CASE i \in txn \union committed \/ HasError
        BY <1>1, <2>1, <4>3, ZenonT(40)
      <4>4. QED
        BY <4>1, <4>2, <4>3, ZenonT(40) DEF StoredInv
    <3>3. QED
      BY <3>1, <3>2, Zenon
  <2>5. QED
    BY <2>2, <2>4, Zenon DEF StoredInv
<1>9. QED
  BY <1>3, <1>7, <1>8, Zenon

LEMMA StoredStep ==
    ASSUME PgInv, PgInv', StoredInv, Next
    PROVE  StoredInv'
<1>1. CASE ~alive'
  BY <1>1, Zenon DEF StoredInv
<1>2. CASE ServerExecutes
  <2>1. /\ ServerTakes /\ alive /\ stream' = Append(stream, Answer("tuples", Head(outq)))
        /\ txn' = txn \union {Head(outq).id} /\ UNCHANGED <<committed, delivered>>
    BY <1>2, Zenon DEF ServerExecutes, ServerTakes, history
  <2>2. /\ Len(stream) \in Nat /\ Len(stream') = Len(stream) + 1
        /\ stream'[Len(stream) + 1].id = Head(outq).id
        /\ \A i \in 1 .. Len(stream) : stream'[i] = stream[i]
        /\ HasError => HasError'
    BY <2>1, AnswerAppended, Zenon
  <2>3. \A k \in 1 .. Len(stream') :
            stream'[k].t = "tuples" => stream'[k].id \in txn' \union committed' \/ HasError'
    <3> SUFFICES ASSUME NEW k \in 1 .. Len(stream) + 1, stream'[k].t = "tuples"
                 PROVE  stream'[k].id \in txn' \union committed' \/ HasError'
      BY <2>2, Zenon
    <3>1. CASE k = Len(stream) + 1
      BY <2>1, <2>2, <3>1, Zenon
    <3>2. CASE k # Len(stream) + 1
      BY <2>1, <2>2, <3>2 DEF StoredInv
    <3>3. QED
      BY <3>1, <3>2, Zenon
  <2>4. QED
    BY <2>1, <2>2, <2>3, Zenon DEF StoredInv
<1>3. CASE ServerRejects
  <2>1. ServerTakes /\ stream' = Append(stream, Answer("error", Head(outq)))
    BY <1>3, Zenon DEF ServerRejects
  <2>2. HasError'
    BY <2>1, AnswerAppended, Zenon
  <2>3. QED
    BY <2>2, Zenon DEF StoredInv
<1>4. CASE ServerSyncs
  <2>1. /\ ServerTakes /\ alive /\ stream' = Append(stream, Answer("sync", Head(outq)))
        /\ txn' \union committed' = txn \union committed /\ delivered' = delivered
    BY <1>4, Zenon DEF ServerSyncs, ServerTakes, history
  <2>2. /\ Len(stream) \in Nat /\ Len(stream') = Len(stream) + 1
        /\ stream'[Len(stream) + 1].t = "sync"
        /\ \A i \in 1 .. Len(stream) : stream'[i] = stream[i]
        /\ HasError => HasError'
    BY <2>1, AnswerAppended, Zenon
  <2>3. \A k \in 1 .. Len(stream') : stream'[k].t = "tuples" => k \in 1 .. Len(stream)
    BY <2>2
  <2>4. QED
    BY <2>1, <2>2, <2>3, SMTT(30) DEF StoredInv
<1>5. CASE DrainNull
  <2>1. UNCHANGED <<alive, txn, committed, delivered>>
    BY <1>5, Zenon DEF DrainNull, server, history
  <2>2. CASE async = "IDLE" /\ alive
    <3>1. stream' = SubSeq(stream, arrived + 1, Len(stream)) /\ count \in Nat /\ sync_sent \in BOOLEAN /\ cmdq = <<>>
      <4>1. stream' = SubSeq(stream, arrived + 1, Len(stream))
        BY <1>5, <2>2, Zenon DEF DrainNull
      <4>2. cmdq = <<>> /\ TypeOK
        BY <2>2, Zenon DEF PgInv, StatusInv
      <4>3. count \in Nat /\ sync_sent \in BOOLEAN
        BY <4>2, CapacityAssumption, SMT DEF TypeOK, DriverType
      <4>4. QED
        BY <4>1, <4>2, <4>3, Zenon
    <3>2. 0 = count + (IF sync_sent THEN 1 ELSE 0)
      BY <3>1, ZenonT(40) DEF PgInv, FifoAligned
    <3>3. Len(stream) = 0 /\ arrived = 0
      BY <2>2, <3>1, <3>2, IdleStream, SMTT(30) DEF PgInv, TypeOK, NetType
    <3>4. stream' = stream
      BY <3>1, <3>3 DEF PgInv, TypeOK, NetType
    <3>5. QED
      BY <2>1, <3>4, StoredQuiet, Zenon
  <2>3. CASE async # "IDLE"
    BY <1>5, <2>1, <2>3, StoredQuiet, Zenon DEF DrainNull
  <2>4. QED
    BY <1>1, <2>1, <2>2, <2>3, Zenon
<1>6. CASE DrainSync
  <2>1. PopMessage /\ Head(stream).t = "sync" /\ UNCHANGED <<alive, txn, committed, delivered>>
    BY <1>6, Zenon DEF DrainSync, DrainBoundary, IsBoundary, server, history
  <2>2. /\ stream[1].t = "sync" /\ 1 \in 1 .. Len(stream) /\ async = "BUSY" /\ (HasError' => HasError)
        /\ \A i \in 1 .. Len(stream') : stream'[i] = stream[i + 1] /\ i + 1 \in 1 .. Len(stream)
    BY <2>1, MessagesMoveUp, Zenon
  <2>3. ~HasError /\ \A k \in 1 .. Len(stream) : stream[k].t # "tuples"
    BY <2>2, BoundaryEmpties, Zenon
  <2>4. QED
    BY <2>1, <2>2, <2>3, Zenon DEF StoredInv
<1>7. CASE DrainAborted
  <2>1. UNCHANGED <<alive, txn, committed, stream>>
    BY <1>7, Zenon DEF DrainAborted, server, net
  <2>2. CASE delivered' = delivered
    BY <2>1, <2>2, StoredQuiet, Zenon
  <2>3. CASE complete_head(FALSE, Head(cmdq).id)
    <3>1. Head(cmdq).id \in Nat
      <4>1. cmdq \in Seq(Command) /\ Len(cmdq) > 0
        BY <1>7, SMTT(30) DEF DrainAborted, PgInv, StatusInv, TypeOK, LibpqType
      <4>2. Head(cmdq) \in Command
        BY <4>1, TailFacts, ZenonT(40)
      <4>3. QED
        BY <4>2, ZenonT(40) DEF Command
    <3>2. /\ Len(delivered) \in Nat /\ Len(delivered') = Len(delivered) + 1
          /\ delivered'[Len(delivered) + 1].ok = FALSE
          /\ \A i \in 1 .. Len(delivered) : delivered'[i] = delivered[i]
      BY <2>3, <3>1, ReportAppended, Zenon
    <3>3. \A i \in 1 .. Len(delivered') :
              delivered'[i].ok => \E j \in i + 1 .. Len(delivered') : ~delivered'[j].ok
      BY <3>2
    <3>4. QED
      BY <2>1, <3>3, Zenon DEF StoredInv, HasError
  <2>4. QED
    BY <1>7, <2>2, <2>3, Zenon DEF DrainAborted
<1>8. CASE DrainResult
  BY <1>8, StoredResult, Zenon
<1>9. CASE ServerAside /\ delivered' = delivered
  BY <1>9, StoredQuiet, Zenon DEF ServerAside
<1>10. QED
  <2>1. \/ delivered' = delivered \/ DrainAborted \/ DrainResult
    <3>1. ASSUME NEW kind \in Kinds, send_request(kind) PROVE delivered' = delivered
      BY <3>1, Zenon DEF send_request
    <3>2. ASSUME NEW readable \in BOOLEAN, ServiceWrite(readable) PROVE delivered' = delivered
      BY <3>2, Zenon DEF ServiceWrite, history
    <3>3. QED
      BY <3>1, <3>2, Zenon DEF Next, Thread, ServerSteps, alpha_pg_connect_start, service_connect, alpha_pg_close,
         ServiceSyncFails, ServiceRead, ConsumeInput, DrainBusy, DrainNull, DrainSync, DrainBoundary,
         CallbackReturns, ServerSkips, ServerFlushes, ServerExecutes, ServerRejects, ServerSyncs,
         ServerTerminates, ServerCrashes, history
  <2>2. QED
    BY <1>1, <1>2, <1>3, <1>4, <1>5, <1>6, <1>7, <1>8, <1>9, <2>1, AsideSteps

LEMMA SettledInit == Init => SettledInv
<1> SUFFICES ASSUME Init PROVE SettledInv
  OBVIOUS
<1>1. Len(stream) = 0 /\ Len(delivered) = 0 /\ count = 0 /\ ~sync_sent /\ ~ignoring /\ txn = {} /\ pc = "loop"
  BY Zenon DEF Init
<1>2. QED
  BY <1>1 DEF SettledInv, TurnInv, QuietInv, SyncedInv, StoredInv, HasSync

LEMMA SettledNext == PgInv /\ PgInv' /\ SettledInv /\ [Next]_vars => SettledInv'
<1> SUFFICES ASSUME PgInv, PgInv', SettledInv, [Next]_vars PROVE SettledInv'
  OBVIOUS
<1>1. CASE Next
  BY <1>1, TurnStep, QuietServerStep, SyncedStep, StoredStep, Zenon DEF SettledInv
<1>2. CASE UNCHANGED vars
  BY <1>2, Zenon DEF vars, driver, libpq, net, server, history, SettledInv, TurnInv, QuietInv, SyncedInv, StoredInv,
     HasError, HasSync
<1>3. QED
  BY <1>1, <1>2, Zenon

\* An owner that lets every request's batch end at once, as the loop's
\* level-triggered service of alpha_pg_wants_write does, may take
\* alpha_pg_is_idle at its word: the boundary is drained, no transaction is open,
\* and what was reported as stored is committed unless a later failure of its
\* batch was reported too.
THEOREM PgIdleIsSettled == ASSUME EagerOwner PROVE Spec => []IdleIsSettled
<1>1. Spec => []SettledInv
  BY SettledInit, SettledNext, PgInvariant, PTL DEF Spec
<1>2. PgInv /\ SettledInv => IdleIsSettled
  <2> SUFFICES ASSUME PgInv, SettledInv PROVE IdleIsSettled
    OBVIOUS
  <2>1. QuietInv /\ StoredInv
    BY Zenon DEF SettledInv
  <2>2. IdleAfterSyncBoundary
    BY <2>1, Zenon DEF IdleAfterSyncBoundary, alpha_pg_is_idle, QuietInv
  <2>3. ASSUME alpha_pg_is_idle, alive PROVE txn = {} /\ ~HasError
    BY <2>1, <2>3, IdleStream, Zenon DEF QuietInv, alpha_pg_is_idle
  <2>4. OkIsStoredOrBatchFailed
    BY <2>1, <2>3, Zenon DEF OkIsStoredOrBatchFailed, StoredInv
  <2>5. QED
    BY <2>2, <2>4, Zenon DEF IdleIsSettled
<1>3. QED
  BY <1>1, <1>2, PgInvariant, PTL
=============================================================================
