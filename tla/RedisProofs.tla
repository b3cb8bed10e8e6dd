----------------------------- MODULE RedisProofs -----------------------------
(***************************************************************************)
(* RedisAsync for every bound: the count of the commands in flight is      *)
(* exact, the adapter implements RequestFifo, and its owner is in step     *)
(* with it.                                                                *)
(***************************************************************************)
EXTENDS RedisAsync, SeqLemmas, TLAPS

PcValues == {"new", "loop", "callback", "read", "write", "process",
             "timeout", "disconnect", "drop", "closed"}
RetValues == {"loop", "read", "write", "process", "timeout", "disconnect", "drop", "closed"}
USE DEF PcValues, RetValues

\* Where hiredis is, also while the owner runs.
At == IF pc = "callback" THEN ret ELSE pc

\* The connection is being given up: its answers are not looked at any more.
Ending == At \in {"timeout", "disconnect", "drop"}

\* A handle without a connection has nothing in flight, and hiredis runs only
\* on a connection.
Connection ==
    /\ context = "NULL" => hi = "none"
    /\ pc = "new" => context = "NULL"
    /\ At \in {"read", "write", "process", "timeout", "disconnect", "drop"} => hi # "none"
    /\ hi = "none" => replies = <<>> /\ obuf = <<>> /\ ~alive
    /\ hi # "connected" => wire = <<>> /\ inbox = <<>> /\ arrived = 0

\* Only commands that were accepted are sent and answered.
Sent ==
    /\ \A i \in 1 .. Len(obuf) : obuf[i] <= issued
    /\ \A i \in 1 .. Len(wire) : wire[i] <= issued
    /\ \A i \in 1 .. Len(inbox) : inbox[i].id <= issued

\* An answer is to the callback at its place in hiredis' queue, unless it is the
\* error a server sends without being asked ...
AnswersInOrder ==
    \A i \in 1 .. Len(inbox) : inbox[i].error \/ (i <= Len(replies) /\ inbox[i].id = replies[i])

\* ... and what is under way on a living connection are all the others.
WholeQueue ==
    /\ Len(replies) = Len(inbox) + Len(wire) + Len(obuf)
    /\ \A i \in 1 .. Len(inbox) : inbox[i].id = replies[i]
    /\ \A i \in 1 .. Len(wire) : wire[i] = replies[Len(inbox) + i]
    /\ \A i \in 1 .. Len(obuf) : obuf[i] = replies[Len(inbox) + Len(wire) + i]

Stream == ~Ending => AnswersInOrder /\ (alive => WholeQueue)

RedisInv == PendingExact /\ Connection /\ Sent /\ Stream

-----------------------------------------------------------------------------
LEMMA RedisInit == Init => RedisInv
<1> SUFFICES ASSUME Init PROVE RedisInv
  OBVIOUS
<1>1. PendingExact
  <2>1. \A S : <<>> \in Seq(S)
    OBVIOUS
  <2>2. Len(<<>>) = 0 /\ 0 \in 0 .. MaxPending /\ 0 \in 0 .. MaxCommands /\ 0 \in 0 .. MaxConnects /\ 0 \in 0 .. 0
    BY MaxPendingAssumption, MaxCommandsAssumption, MaxConnectsAssumption, SMT
  <2>3. /\ pc \in PcValues
        /\ ret \in RetValues
        /\ context \in {"NULL", "set"} /\ hi \in {"none", "connecting", "connected"}
        /\ flag \in {"none", "DISCONNECTING", "FREEING"} /\ told \in {"nothing", "OK", "ERR_IO"}
        /\ watch \subseteq {"READ", "WRITE"}
    BY SMT DEF Init
  <2>4. QED
    BY <2>1, <2>2, <2>3, Zenon DEF Init, PendingExact, TypeOK
<1>2. Connection
  BY SMT DEF Init, Connection, At
<1>3. Sent /\ Stream
  BY SMT DEF Init, Sent, Stream, AnswersInOrder
<1>4. QED
  BY <1>1, <1>2, <1>3, Zenon DEF RedisInv

\* A connection is only started where there is none, so it starts empty.
LEMMA RedisStarts ==
    ASSUME RedisInv, alpha_redis_async_connect \/ alpha_redis_async_reconnect
    PROVE  RedisInv'
<1>0. PendingExact /\ TypeOK /\ Connection /\ Sent
  BY Zenon DEF RedisInv, PendingExact
<1>1. hi = "none" /\ context = "NULL" /\ start_connection
  BY <1>0, Zenon DEF Connection, alpha_redis_async_connect, alpha_redis_async_reconnect
<1>2. /\ replies = <<>> /\ obuf = <<>> /\ wire = <<>> /\ inbox = <<>> /\ arrived = 0
      /\ UNCHANGED <<ret, pending, replies, obuf, wire, inbox, arrived, told, issued, delivered>>
  BY <1>0, <1>1, SMT DEF Connection, start_connection
<1>3. pc' \in {"loop", "closed", pc} /\ (pc' = pc => pc # "new")
  BY <1>0, SMT DEF alpha_redis_async_connect, alpha_redis_async_reconnect
<1>4. \/ context' = "set" /\ hi' = "connecting" /\ flag' = "none" /\ watch' = add_write(watch) /\ alive' = TRUE
      \/ UNCHANGED <<context, hi, flag, watch, alive>>
  BY <1>1, Zenon DEF start_connection
<1>5. connects' \in 0 .. MaxConnects
  BY <1>0, <1>1, MaxConnectsAssumption, SMT DEF TypeOK, start_connection
<1>6. PendingExact'
  <2>1. /\ pc' \in PcValues
        /\ context' \in {"NULL", "set"} /\ hi' \in {"none", "connecting", "connected"}
        /\ flag' \in {"none", "DISCONNECTING", "FREEING"} 
    <3>1. context' \in {context, "set"} /\ hi' \in {hi, "connecting"} /\ flag' \in {flag, "none"}
      BY <1>4, Zenon
    <3>2. QED
      BY <1>0, <1>3, <3>1, SMT DEF TypeOK
  <2>2. watch' \subseteq {"READ", "WRITE"} /\ alive' \in BOOLEAN
    <3>1. watch' \in {watch, add_write(watch)} /\ alive' \in {alive, TRUE}
      BY <1>4, Zenon
    <3>2. watch' \subseteq {"READ", "WRITE"}
      BY <1>0, <3>1, SMT DEF TypeOK, add_write
    <3>3. QED
      BY <1>0, <3>1, <3>2, Zenon DEF TypeOK
  <2>3. QED
    BY <1>0, <1>2, <1>5, <2>1, <2>2, Zenon DEF PendingExact, TypeOK
<1>7. Connection'
  BY <1>0, <1>1, <1>2, <1>3, <1>4, SMT DEF TypeOK, Connection, At
<1>8. Sent' /\ Stream'
  BY <1>0, <1>2, SMT DEF Sent, Stream, AnswersInOrder, WholeQueue
<1>9. QED
  BY <1>6, <1>7, <1>8, Zenon DEF RedisInv

LEMMA RedisCommand ==
    ASSUME RedisInv, alpha_redis_async_command
    PROVE  RedisInv'
<1>0. PendingExact /\ TypeOK /\ Connection /\ Sent /\ Stream
  BY Zenon DEF RedisInv, PendingExact
<1>1. /\ pc \in {"loop", "callback"} /\ hi # "none" /\ pending < MaxPending /\ issued < MaxCommands
      /\ issued' = issued + 1 /\ pending' = pending + 1 /\ watch' = add_write(watch)
      /\ replies' = Append(replies, issued + 1) /\ obuf' = Append(obuf, issued + 1)
      /\ UNCHANGED <<pc, ret, context, hi, flag, wire, inbox, arrived, alive, told, connects, delivered>>
  BY Zenon DEF alpha_redis_async_command, Accepts
<1>2. /\ replies \in Seq(Nat) /\ obuf \in Seq(Nat) /\ wire \in Seq(Nat) /\ inbox \in Seq(Reply)
      /\ issued \in 0 .. MaxCommands /\ MaxCommands \in Nat
  BY <1>0, MaxCommandsAssumption, Zenon DEF TypeOK
<1>3. /\ replies' \in Seq(Nat) /\ Len(replies') = Len(replies) + 1
      /\ replies'[Len(replies) + 1] = issued + 1
      /\ \A i \in 1 .. Len(replies) : replies'[i] = replies[i]
  BY <1>1, <1>2, AppendFacts, SMT
<1>4. /\ obuf' \in Seq(Nat) /\ Len(obuf') = Len(obuf) + 1
      /\ obuf'[Len(obuf) + 1] = issued + 1
      /\ \A i \in 1 .. Len(obuf) : obuf'[i] = obuf[i]
  BY <1>1, <1>2, AppendFacts, SMT
<1>5. PendingExact'
  BY <1>0, <1>1, <1>2, <1>3, <1>4, MaxPendingAssumption, SMTT(30) DEF PendingExact, TypeOK, add_write
<1>6. Connection'
  BY <1>0, <1>1, SMT DEF Connection, At
<1>7. Sent'
  <2>0. \A i \in 1 .. Len(inbox) : inbox[i] \in Reply
    BY <1>2, Elements, Zenon
  <2>1. \A i \in 1 .. Len(inbox) : inbox[i].id \in Nat
    BY <2>0, Zenon DEF Reply
  <2>2. \A i \in 1 .. Len(inbox) : inbox[i].id <= issued + 1
    <3>1. \A i \in 1 .. Len(inbox) : inbox[i].id <= issued
      BY <1>0, Zenon DEF Sent
    <3>2. \A x \in Nat : x <= issued => x <= issued + 1
      BY <1>2, SMT
    <3>3. QED
      BY <2>1, <3>1, <3>2, Zenon
  <2>3. \A i \in 1 .. Len(wire) : wire[i] <= issued + 1
    BY <1>0, <1>2, SMTT(30) DEF Sent
  <2>4. \A i \in 1 .. Len(obuf') : obuf'[i] <= issued + 1
    <3> SUFFICES ASSUME NEW i \in 1 .. Len(obuf') PROVE obuf'[i] <= issued + 1
      OBVIOUS
    <3>1. CASE i = Len(obuf) + 1
      BY <1>2, <1>4, <3>1, SMT
    <3>2. CASE i # Len(obuf) + 1
      <4>1. i \in 1 .. Len(obuf)
        BY <1>2, <1>4, <3>2, SMT
      <4>2. obuf'[i] <= issued /\ obuf'[i] \in Nat
        BY <1>0, <1>2, <1>4, <4>1, Elements, Zenon DEF Sent
      <4>3. QED
        BY <1>2, <4>2, SMTT(30)
    <3>3. QED
      BY <3>1, <3>2, Zenon
  <2>5. QED
    BY <1>1, <2>2, <2>3, <2>4, Zenon DEF Sent
<1>8. AnswersInOrder => AnswersInOrder'
  BY <1>1, <1>2, <1>3, SMTT(30) DEF AnswersInOrder
<1>9. WholeQueue => WholeQueue'
  <2> SUFFICES ASSUME WholeQueue PROVE WholeQueue'
    OBVIOUS
  <2>1. Len(replies') = Len(inbox) + Len(wire) + Len(obuf')
    BY <1>2, <1>3, <1>4, SMT DEF WholeQueue
  <2>a. Len(inbox) \in Nat /\ Len(wire) \in Nat /\ Len(obuf) \in Nat
        /\ Len(replies) = Len(inbox) + Len(wire) + Len(obuf)
    BY <1>2, SMT DEF WholeQueue
  <2>2. \A i \in 1 .. Len(inbox) : inbox[i].id = replies'[i]
    <3>1. \A i \in 1 .. Len(inbox) : i \in 1 .. Len(replies)
      BY <2>a, SMT
    <3>2. QED
      BY <1>3, <3>1, Zenon DEF WholeQueue
  <2>3. \A i \in 1 .. Len(wire) : wire[i] = replies'[Len(inbox) + i]
    <3>1. \A i \in 1 .. Len(wire) : Len(inbox) + i \in 1 .. Len(replies)
      BY <2>a, SMT
    <3>2. QED
      BY <1>3, <3>1, Zenon DEF WholeQueue
  <2>4. \A i \in 1 .. Len(obuf') : obuf'[i] = replies'[Len(inbox) + Len(wire) + i]
    <3> SUFFICES ASSUME NEW i \in 1 .. Len(obuf')
                 PROVE  obuf'[i] = replies'[Len(inbox) + Len(wire) + i]
      OBVIOUS
    <3>1. CASE i = Len(obuf) + 1
      <4>1. Len(inbox) + Len(wire) + i = Len(replies) + 1
        BY <2>a, <3>1, SMT
      <4>2. QED
        BY <1>3, <1>4, <3>1, <4>1, Zenon
    <3>2. CASE i # Len(obuf) + 1
      <4>1. i \in 1 .. Len(obuf) /\ Len(inbox) + Len(wire) + i \in 1 .. Len(replies)
        BY <1>4, <2>a, <3>2, SMT
      <4>2. QED
        BY <1>3, <1>4, <4>1, Zenon DEF WholeQueue
    <3>3. QED
      BY <3>1, <3>2, Zenon
  <2>5. QED
    BY <1>1, <2>1, <2>2, <2>3, <2>4, Zenon DEF WholeQueue
<1>10. Stream'
  BY <1>0, <1>1, <1>8, <1>9, Zenon DEF Stream, Ending, At
<1>11. QED
  BY <1>5, <1>6, <1>7, <1>10, Zenon DEF RedisInv

\* The callback that is shifted is counted off.
LEMMA RedisReplied ==
    ASSUME PendingExact, NEW r \in Reply, NEW back, replies # <<>>, replied(r, back)
    PROVE  /\ replies' \in Seq(Nat) /\ Len(replies') = Len(replies) - 1 /\ Len(replies) > 0
           /\ \A i \in 1 .. Len(replies) - 1 : replies'[i] = replies[i + 1]
           /\ Head(replies) = replies[1] /\ replies[1] \in Nat
           /\ pending' \in 0 .. MaxPending /\ pending' = Len(replies')
           /\ delivered' \in Seq([id : Nat, ok : BOOLEAN, res : Nat])
           /\ At' = back
<1>1. replies \in Seq(Nat) /\ pending \in 0 .. MaxPending /\ pending = Len(replies) /\ MaxPending \in Nat
  BY MaxPendingAssumption, SMT DEF PendingExact, TypeOK
<1>2. Len(replies) > 0
  BY <1>1, SMT
<1>3. /\ replies' \in Seq(Nat) /\ Len(replies') = Len(replies) - 1
      /\ \A i \in 1 .. Len(replies) - 1 : replies'[i] = replies[i + 1]
      /\ Head(replies) = replies[1] /\ replies[1] \in Nat
  BY <1>1, <1>2, TailFacts, SMT DEF replied
<1>4. pending' \in 0 .. MaxPending /\ pending' = Len(replies')
  BY <1>1, <1>2, <1>3, SMT DEF replied, PendingAfter
<1>5. [id |-> Head(replies), ok |-> ~r.error, res |-> r.id] \in [id : Nat, ok : BOOLEAN, res : Nat]
  BY <1>3, SMT DEF Reply
<1>6. delivered' \in Seq([id : Nat, ok : BOOLEAN, res : Nat])
  BY <1>5, AppendFacts, Zenon DEF replied, PendingExact, TypeOK
<1>7. At' = back
  BY Zenon DEF replied, CallOwner, At
<1>8. QED
  BY <1>2, <1>3, <1>4, <1>6, <1>7, Zenon

\* Callbacks of a connection that is given up get no answer.
LEMMA RedisNullReply ==
    ASSUME RedisInv, NEW back \in {"timeout", "drop"}, At = back, replies # <<>>, replied(NullReply, back),
           UNCHANGED <<context, watch, hi, flag, net, told, issued, connects>>
    PROVE  RedisInv'
<1>0. PendingExact /\ TypeOK /\ Connection /\ Sent
  BY Zenon DEF RedisInv, PendingExact
<1>1. NullReply \in Reply
  BY SMT DEF NullReply, Reply
<1>2. /\ replies' \in Seq(Nat) /\ pending' \in 0 .. MaxPending /\ pending' = Len(replies')
      /\ delivered' \in Seq([id : Nat, ok : BOOLEAN, res : Nat]) /\ At' = back
  BY <1>0, <1>1, RedisReplied, Zenon
<1>3. pc' = "callback" /\ ret' = back
  BY Zenon DEF replied, CallOwner
<1>4. /\ pc' \in PcValues
      /\ ret' \in RetValues
  BY <1>3, SMT
<1>5. UNCHANGED <<context, watch, hi, flag, obuf, wire, inbox, arrived, alive, told, issued, connects>>
  BY Zenon DEF net
<1>6. PendingExact'
  BY <1>0, <1>2, <1>4, <1>5, Zenon DEF PendingExact, TypeOK
<1>7. Connection'
  BY <1>0, <1>2, <1>3, <1>5, SMT DEF Connection
<1>8. Sent'
  BY <1>0, <1>5, Zenon DEF Sent
<1>9. Stream'
  BY <1>2, SMT DEF Stream, Ending
<1>10. QED
  BY <1>6, <1>7, <1>8, <1>9, Zenon DEF RedisInv

LEMMA RedisProcess ==
    ASSUME RedisInv, Process
    PROVE  RedisInv'
<1>0. PendingExact /\ TypeOK /\ Connection /\ Sent /\ Stream
  BY Zenon DEF RedisInv, PendingExact
<1>1. /\ pc = "process" /\ At = "process" /\ hi # "none"
      /\ UNCHANGED <<context, watch, hi, flag, obuf, wire, alive, told, issued, connects>>
  BY <1>0, SMT DEF Process, Connection, At
<1>2. CASE arrived = 0
  <2>1. pc' = "loop" /\ UNCHANGED <<ret, replies, pending, inbox, arrived, delivered>>
    BY <1>2, Zenon DEF Process
  <2>2. PendingExact' /\ Connection' /\ Sent'
    BY <1>0, <1>1, <2>1, SMT DEF PendingExact, TypeOK, Connection, Sent, At
  <2>3. ~Ending
    BY <1>1, SMT DEF Ending
  <2>4. Stream'
    BY <1>0, <1>1, <2>1, <2>3, Zenon DEF Stream, AnswersInOrder, WholeQueue
  <2>5. QED
    BY <2>2, <2>4, Zenon DEF RedisInv
<1>3. CASE arrived # 0
  <2>0. /\ inbox \in Seq(Reply) /\ arrived \in 0 .. Len(inbox) /\ replies \in Seq(Nat)
        /\ wire \in Seq(Nat) /\ obuf \in Seq(Nat)
    BY <1>0, Zenon DEF TypeOK
  <2>1. inbox' = Tail(inbox) /\ arrived' = arrived - 1 /\ Len(inbox) > 0
    BY <1>3, <2>0, SMT DEF Process
  <2>2. /\ inbox' \in Seq(Reply) /\ Len(inbox') = Len(inbox) - 1
        /\ Head(inbox) = inbox[1] /\ inbox[1] \in Reply
        /\ \A i \in 1 .. Len(inbox) - 1 : inbox'[i] = inbox[i + 1]
    BY <2>0, <2>1, TailFacts, Zenon
  <2>n. \A i \in 1 .. Len(inbox') : inbox'[i] = inbox[i + 1] /\ i + 1 \in 1 .. Len(inbox)
    <3>1. \A i \in 1 .. Len(inbox') : i + 1 \in 1 .. Len(inbox) /\ i \in 1 .. Len(inbox) - 1
      BY <2>0, <2>2, SMT
    <3>2. QED
      BY <2>2, <3>1, Zenon
  <2>3. arrived' \in 0 .. Len(inbox')
    BY <1>3, <2>0, <2>1, <2>2, SMT
  <2>4. Sent'
    <3>1. \A i \in 1 .. Len(inbox') : inbox'[i].id <= issued
      BY <1>0, <2>n, Zenon DEF Sent
    <3>2. QED
      BY <1>0, <1>1, <3>1, Zenon DEF Sent
  <2>5. hi = "connected"
    BY <1>0, <1>3, Zenon DEF Connection
  <2>6. CASE replies = <<>>
    <3>1. pc' = "disconnect" /\ UNCHANGED <<ret, replies, pending, delivered>>
      BY <1>3, <2>6, Zenon DEF Process
    <3>2. At' = "disconnect"
      BY <3>1, SMT DEF At
    <3>3. PendingExact'
      BY <1>0, <1>1, <2>2, <2>3, <3>1, SMT DEF PendingExact, TypeOK
    <3>4. Connection' /\ Stream'
      BY <1>0, <1>1, <2>5, <3>1, <3>2, SMT DEF Connection, Stream, Ending
    <3>5. QED
      BY <2>4, <3>3, <3>4, Zenon DEF RedisInv
  <2>7. CASE replies # <<>>
    <3>0. replied(Head(inbox), "process")
      BY <1>3, <2>7, Zenon DEF Process
    <3>1. /\ replies' \in Seq(Nat) /\ Len(replies') = Len(replies) - 1 /\ Len(replies) > 0
          /\ \A i \in 1 .. Len(replies) - 1 : replies'[i] = replies[i + 1]
          /\ pending' \in 0 .. MaxPending /\ pending' = Len(replies')
          /\ delivered' \in Seq([id : Nat, ok : BOOLEAN, res : Nat]) /\ At' = "process"
      BY <1>0, <2>2, <2>7, <3>0, RedisReplied, Zenon
    <3>2. pc' = "callback" /\ ret' = "process"
      BY <3>0, Zenon DEF replied, CallOwner
    <3>3. /\ pc' \in PcValues
          /\ ret' \in RetValues
      BY <3>2, SMT
    <3>4. PendingExact'
      BY <1>0, <1>1, <2>2, <2>3, <3>1, <3>3, Zenon DEF PendingExact, TypeOK
    <3>5. Connection'
      BY <1>0, <1>1, <2>5, <3>1, <3>2, SMT DEF Connection
    <3>6. AnswersInOrder /\ (alive => WholeQueue)
      BY <1>0, <1>1, SMT DEF Stream, Ending
    <3>7. AnswersInOrder'
      <4>1. \A i \in 1 .. Len(inbox') :
               inbox'[i].error \/ (i <= Len(replies') /\ inbox'[i].id = replies'[i])
        <5> SUFFICES ASSUME NEW i \in 1 .. Len(inbox'), ~inbox'[i].error
                     PROVE  i <= Len(replies') /\ inbox'[i].id = replies'[i]
          OBVIOUS
        <5>1. i + 1 <= Len(replies) /\ inbox'[i].id = replies[i + 1]
          BY <2>n, <3>6, Zenon DEF AnswersInOrder
        <5>2. i <= Len(replies') /\ i \in 1 .. Len(replies) - 1
          BY <2>0, <2>2, <3>1, <5>1, SMTT(30)
        <5>3. QED
          BY <3>1, <5>1, <5>2, Zenon
      <4>2. QED
        BY <4>1, Zenon DEF AnswersInOrder
    <3>8. alive => WholeQueue'
      <4> SUFFICES ASSUME WholeQueue PROVE WholeQueue'
        BY <3>6, Zenon
      <4>1. Len(replies') = Len(inbox') + Len(wire) + Len(obuf)
        BY <2>0, <2>2, <3>1, SMT DEF WholeQueue
      <4>a. Len(inbox) \in Nat /\ Len(inbox') \in Nat /\ Len(wire) \in Nat /\ Len(obuf) \in Nat
            /\ Len(replies) = Len(inbox) + Len(wire) + Len(obuf) /\ Len(inbox) = Len(inbox') + 1
        BY <2>0, <2>2, SMTT(30) DEF WholeQueue
      <4>2. \A i \in 1 .. Len(inbox') : inbox'[i].id = replies'[i]
        <5>1. \A i \in 1 .. Len(inbox') : i \in 1 .. Len(replies) - 1
          BY <4>a, SMT
        <5>2. QED
          BY <2>n, <3>1, <5>1, ZenonT(60) DEF WholeQueue
      <4>3. \A i \in 1 .. Len(wire) : wire[i] = replies'[Len(inbox') + i]
        <5>1. \A i \in 1 .. Len(wire) : /\ Len(inbox') + i \in 1 .. Len(replies) - 1
                                       /\ (Len(inbox') + i) + 1 = Len(inbox) + i
          BY <4>a, SMT
        <5>2. QED
          BY <3>1, <5>1, ZenonT(60) DEF WholeQueue
      <4>4. \A i \in 1 .. Len(obuf) : obuf[i] = replies'[Len(inbox') + Len(wire) + i]
        <5>1. \A i \in 1 .. Len(obuf) :
                 /\ Len(inbox') + Len(wire) + i \in 1 .. Len(replies) - 1
                 /\ (Len(inbox') + Len(wire) + i) + 1 = Len(inbox) + Len(wire) + i
          BY <4>a, SMT
        <5>2. QED
          BY <3>1, <5>1, ZenonT(60) DEF WholeQueue
      <4>5. QED
        BY <1>1, <4>1, <4>2, <4>3, <4>4, Zenon DEF WholeQueue
    <3>9. QED
      BY <1>1, <2>4, <3>4, <3>5, <3>7, <3>8, Zenon DEF RedisInv, Stream
  <2>8. QED
    BY <2>6, <2>7, Zenon
<1>4. QED
  BY <1>2, <1>3, Zenon

\* What was in the output buffer is under way.
LEMMA RedisWrite ==
    ASSUME RedisInv, ServiceWrite
    PROVE  RedisInv'
<1>0. PendingExact /\ TypeOK /\ Connection /\ Sent /\ Stream
  BY Zenon DEF RedisInv, PendingExact
<1>1. /\ pc \in {"loop", "write"} /\ hi = "connected"
      /\ UNCHANGED <<ret, context, pending, hi, flag, replies, inbox, arrived, alive, told, issued, connects, delivered>>
  BY Zenon DEF ServiceWrite, hiredis, history
<1>2. ~Ending
  BY <1>1, SMT DEF Ending, At
<1>3. AnswersInOrder /\ (alive => WholeQueue)
  BY <1>0, <1>2, Zenon DEF Stream
<1>4. CASE pc' = "disconnect" /\ UNCHANGED <<wire, obuf, watch>>
  <2>1. At' = "disconnect"
    BY <1>4, SMT DEF At
  <2>2. PendingExact' /\ Connection' /\ Sent' /\ Stream'
    BY <1>0, <1>1, <1>4, <2>1, SMT DEF PendingExact, TypeOK, Connection, Sent, Stream, Ending
  <2>3. QED
    BY <2>2, Zenon DEF RedisInv
<1>5. ASSUME NEW k \in 0 .. Len(obuf),
             wire' = wire \o SubSeq(obuf, 1, k), obuf' = SubSeq(obuf, k + 1, Len(obuf)),
             watch' = add_read(IF k = Len(obuf) THEN del_write(watch) ELSE add_write(watch)),
             pc' = "loop"
      PROVE  RedisInv'
  <2>0. obuf \in Seq(Nat) /\ wire \in Seq(Nat) /\ inbox \in Seq(Reply) /\ replies \in Seq(Nat) /\ k \in Nat
    BY <1>0, SMT DEF TypeOK
  <2> DEFINE out == SubSeq(obuf, 1, k)
  <2>1. out \in Seq(Nat) /\ Len(out) = k /\ \A i \in 1 .. k : out[i] = obuf[i]
    <3>1. 1 \in 1 .. Len(obuf) + 1 /\ k \in 1 - 1 .. Len(obuf)
      BY <2>0, SMT
    <3>2. QED
      BY <2>0, <3>1, SubSeqFacts, SMTT(30)
  <2>2. /\ obuf' \in Seq(Nat) /\ Len(obuf') = Len(obuf) - k
        /\ \A i \in 1 .. Len(obuf) - k : obuf'[i] = obuf[k + i]
    <3>1. k + 1 \in 1 .. Len(obuf) + 1 /\ Len(obuf) \in (k + 1) - 1 .. Len(obuf)
      BY <2>0, SMT
    <3>2. /\ obuf' \in Seq(Nat) /\ Len(obuf') = Len(obuf) - (k + 1) + 1
          /\ \A i \in 1 .. Len(obuf) - (k + 1) + 1 : obuf'[i] = obuf[(k + 1) + i - 1]
      BY <1>5, <2>0, <3>1, SubSeqFacts, ZenonT(60)
    <3>3. Len(obuf) - (k + 1) + 1 = Len(obuf) - k
          /\ \A i \in 1 .. Len(obuf) - k : (k + 1) + i - 1 = k + i
      BY <2>0, SMT
    <3>4. QED
      BY <3>2, <3>3, Zenon
  <2> HIDE DEF out
  <2>3. /\ wire' \in Seq(Nat) /\ Len(wire') = Len(wire) + k
        /\ \A i \in 1 .. Len(wire) : wire'[i] = wire[i]
        /\ \A i \in 1 .. k : wire'[Len(wire) + i] = obuf[i]
    <3>1. wire' = wire \o out
      BY <1>5, Zenon DEF out
    <3>2. /\ wire \o out \in Seq(Nat) /\ Len(wire \o out) = Len(wire) + Len(out)
          /\ \A i \in 1 .. Len(wire) : (wire \o out)[i] = wire[i]
          /\ \A i \in 1 .. Len(out) : (wire \o out)[Len(wire) + i] = out[i]
      <4>1. \A t \in Seq(Nat) : /\ wire \o t \in Seq(Nat) /\ Len(wire \o t) = Len(wire) + Len(t)
                                /\ \A i \in 1 .. Len(wire) : (wire \o t)[i] = wire[i]
                                /\ \A i \in 1 .. Len(t) : (wire \o t)[Len(wire) + i] = t[i]
        BY <2>0, ConcatFacts
      <4>2. QED
        BY <2>1, <4>1, Zenon
    <3>3. QED
      BY <2>1, <3>1, <3>2, Zenon
  <2>4. watch' \subseteq {"READ", "WRITE"}
    BY <1>0, <1>5, SMTT(30) DEF TypeOK, add_read, add_write, del_write
  <2>5. pc' \in PcValues
    BY <1>5, SMT
  <2>6. PendingExact'
    BY <1>0, <1>1, <2>2, <2>3, <2>4, <2>5, ZenonT(60) DEF PendingExact, TypeOK
  <2>7. Connection'
    BY <1>0, <1>1, <1>5, SMT DEF Connection, At
  <2>8. Sent'
    <3>1. \A i \in 1 .. Len(obuf') : obuf'[i] <= issued
      <4>1. \A i \in 1 .. Len(obuf') : i \in 1 .. Len(obuf) - k /\ k + i \in 1 .. Len(obuf)
        BY <2>0, <2>2, SMT
      <4>2. QED
        BY <1>0, <2>2, <4>1, Zenon DEF Sent
    <3>2. \A i \in 1 .. Len(wire') : wire'[i] <= issued
      <4> SUFFICES ASSUME NEW i \in 1 .. Len(wire') PROVE wire'[i] <= issued
        OBVIOUS
      <4>1. CASE i <= Len(wire)
        <5>1. i \in 1 .. Len(wire)
          BY <2>0, <2>3, <4>1, SMT
        <5>2. QED
          BY <1>0, <2>3, <5>1, Zenon DEF Sent
      <4>2. CASE i > Len(wire)
        <5>1. i - Len(wire) \in 1 .. k /\ i - Len(wire) \in 1 .. Len(obuf) /\ Len(wire) + (i - Len(wire)) = i
          BY <2>0, <2>3, <4>2, SMTT(30)
        <5>2. wire'[Len(wire) + (i - Len(wire))] = obuf[i - Len(wire)] /\ obuf[i - Len(wire)] <= issued
          BY <1>0, <2>3, <5>1, Zenon DEF Sent
        <5>3. QED
          BY <5>1, <5>2, Zenon
      <4>3. QED
        BY <2>0, <2>3, <4>1, <4>2, SMT
    <3>3. QED
      BY <1>0, <1>1, <3>1, <3>2, Zenon DEF Sent
  <2>9. WholeQueue => WholeQueue'
    <3> SUFFICES ASSUME WholeQueue PROVE WholeQueue'
      OBVIOUS
    <3>1. Len(replies) = Len(inbox) + Len(wire') + Len(obuf')
      BY <2>0, <2>2, <2>3, SMT DEF WholeQueue
    <3>2. \A i \in 1 .. Len(wire') : wire'[i] = replies[Len(inbox) + i]
      <4> SUFFICES ASSUME NEW i \in 1 .. Len(wire') PROVE wire'[i] = replies[Len(inbox) + i]
        OBVIOUS
      <4>1. CASE i <= Len(wire)
        <5>1. i \in 1 .. Len(wire)
          BY <2>0, <2>3, <4>1, SMT
        <5>2. QED
          BY <2>3, <5>1, Zenon DEF WholeQueue
      <4>2. CASE i > Len(wire)
        <5>1. i - Len(wire) \in 1 .. k /\ i - Len(wire) \in 1 .. Len(obuf) /\ Len(wire) + (i - Len(wire)) = i
              /\ Len(inbox) + Len(wire) + (i - Len(wire)) = Len(inbox) + i
          BY <2>0, <2>3, <4>2, SMTT(30)
        <5>2. wire'[Len(wire) + (i - Len(wire))] = obuf[i - Len(wire)]
              /\ obuf[i - Len(wire)] = replies[Len(inbox) + Len(wire) + (i - Len(wire))]
          BY <2>3, <5>1, Zenon DEF WholeQueue
        <5>3. QED
          BY <5>1, <5>2, Zenon
      <4>3. QED
        BY <2>0, <2>3, <4>1, <4>2, SMT
    <3>3. \A i \in 1 .. Len(obuf') : obuf'[i] = replies[Len(inbox) + Len(wire') + i]
      <4> SUFFICES ASSUME NEW i \in 1 .. Len(obuf') PROVE obuf'[i] = replies[Len(inbox) + Len(wire') + i]
        OBVIOUS
      <4>1. /\ k + i \in 1 .. Len(obuf) /\ i \in 1 .. Len(obuf) - k
            /\ Len(inbox) + Len(wire) + (k + i) = Len(inbox) + Len(wire') + i
        BY <2>0, <2>2, <2>3, SMT
      <4>2. obuf'[i] = obuf[k + i] /\ obuf[k + i] = replies[Len(inbox) + Len(wire) + (k + i)]
        BY <2>2, <4>1, Zenon DEF WholeQueue
      <4>3. QED
        BY <4>1, <4>2, Zenon
    <3>4. QED
      BY <1>1, <3>1, <3>2, <3>3, Zenon DEF WholeQueue
  <2>10. AnswersInOrder'
    BY <1>1, <1>3, Zenon DEF AnswersInOrder
  <2>11. QED
    BY <1>1, <1>3, <2>6, <2>7, <2>8, <2>9, <2>10, Zenon DEF RedisInv, Stream
<1>6. QED
  BY <1>4, <1>5, Zenon DEF ServiceWrite

\* Steps of hiredis and of the owner that move nothing in flight.
LEMMA RedisMoves ==
    ASSUME RedisInv, TypeOK', UNCHANGED <<pending, hi, replies, obuf, wire, inbox, alive, issued>>,
           context' = context, pc' # "new",
           At' \in {"read", "write", "process", "timeout", "disconnect", "drop"} => hi # "none",
           Ending => Ending', hi # "connected" => arrived' = arrived
    PROVE  RedisInv'
<1>0. PendingExact /\ TypeOK /\ Connection /\ Sent /\ Stream
  BY Zenon DEF RedisInv, PendingExact
<1>1. PendingExact' /\ Sent' /\ Connection'
  BY <1>0, Zenon DEF PendingExact, Sent, Connection
<1>2. Stream'
  BY <1>0, Zenon DEF Stream, AnswersInOrder, WholeQueue
<1>3. QED
  BY <1>1, <1>2, Zenon DEF RedisInv

LEMMA RedisConnects ==
    ASSUME RedisInv, NEW next \in {"read", "write"}, ConnectSucceeds(next)
    PROVE  RedisInv'
<1>0. PendingExact /\ TypeOK /\ Connection /\ Sent /\ Stream
  BY Zenon DEF RedisInv, PendingExact
<1>1. /\ pc = "loop" /\ hi = "connecting" /\ hi' = "connected" /\ told' = "OK" /\ pc' = "callback" /\ ret' = next
      /\ UNCHANGED <<context, watch, pending, flag, replies, obuf, wire, arrived, issued, connects, delivered>>
  BY Zenon DEF ConnectSucceeds, CallOwner, adapter
<1>2. At' = next /\ ~Ending' /\ ~Ending
  BY <1>1, SMT DEF At, Ending
<1>3. wire = <<>> /\ inbox = <<>> /\ arrived = 0 /\ context # "NULL"
  BY <1>0, <1>1, SMT DEF Connection
<1>4. /\ pc' \in PcValues
      /\ ret' \in RetValues
      /\ hi' \in {"none", "connecting", "connected"} /\ told' \in {"nothing", "OK", "ERR_IO"}
  BY <1>1, SMT
<1>5. Connection'
  BY <1>0, <1>1, <1>3, SMT DEF Connection
<1>6. CASE alive' = alive /\ inbox' = inbox
  <2>1. PendingExact' /\ Sent'
    BY <1>0, <1>1, <1>4, <1>6, Zenon DEF PendingExact, TypeOK, Sent
  <2>2. Stream'
    BY <1>0, <1>1, <1>2, <1>6, Zenon DEF Stream, AnswersInOrder, WholeQueue
  <2>3. QED
    BY <1>5, <2>1, <2>2, Zenon DEF RedisInv
<1>7. CASE alive' = FALSE /\ inbox' = <<NullReply>>
  <2>1. NullReply \in Reply /\ NullReply.error /\ NullReply.id = 0
    BY SMT DEF NullReply, Reply
  <2>2. inbox' \in Seq(Reply) /\ Len(inbox') = 1 /\ \A i \in 1 .. 1 : inbox'[i] = NullReply
    BY <1>7, <2>1, SMT
  <2>3. arrived' \in 0 .. Len(inbox') /\ alive' \in BOOLEAN
    <3>1. arrived' \in 0 .. Len(inbox')
      BY <1>1, <1>3, <2>2, SMT
    <3>2. QED
      BY <1>7, <3>1, ZenonT(40)
  <2>4. PendingExact'
    BY <1>0, <1>1, <1>4, <2>2, <2>3, Zenon DEF PendingExact, TypeOK
  <2>5. 0 <= issued
    BY <1>0, MaxCommandsAssumption, SMT DEF TypeOK
  <2>6. Sent'
    BY <1>0, <1>1, <2>1, <2>2, <2>5, Zenon DEF Sent
  <2>7. Stream'
    BY <1>7, <2>1, <2>2, Zenon DEF Stream, AnswersInOrder
  <2>8. QED
    BY <1>5, <2>4, <2>6, <2>7, Zenon DEF RedisInv
<1>8. QED
  BY <1>6, <1>7, Zenon DEF ConnectSucceeds

\* The context is freed with everything that was in flight.
LEMMA RedisDrops ==
    ASSUME RedisInv, DropContext
    PROVE  RedisInv'
<1>0. PendingExact /\ TypeOK
  BY Zenon DEF RedisInv, PendingExact
<1> DEFINE next == IF flag = "FREEING" THEN "closed" ELSE "loop"
<1>1. /\ replies = <<>> /\ hi' = "none" /\ flag' = "none"
      /\ obuf' = <<>> /\ wire' = <<>> /\ inbox' = <<>> /\ arrived' = 0 /\ alive' = FALSE
      /\ UNCHANGED <<pending, replies, issued, connects, delivered>>
  BY Zenon DEF DropContext
<1>2. \/ /\ pc' = "callback" /\ ret' = next /\ context' = "NULL" /\ watch' = {} /\ told' = "ERR_IO"
      \/ /\ pc' = next /\ watch' = {} /\ UNCHANGED <<context, told, ret>>
  BY Zenon DEF DropContext, disconnected, CallOwner, cleanup
<1>3. At' \in {"loop", "closed"} /\ pc' # "new"
  BY <1>2, SMT DEF At
<1>4. /\ pc' \in PcValues
      /\ ret' \in RetValues
      /\ context' \in {"NULL", "set"} /\ told' \in {"nothing", "OK", "ERR_IO"}
      /\ hi' \in {"none", "connecting", "connected"} /\ flag' \in {"none", "DISCONNECTING", "FREEING"}
      /\ watch' \subseteq {"READ", "WRITE"}
  BY <1>0, <1>1, <1>2, SMT DEF TypeOK
<1>5. \A S : <<>> \in Seq(S)
  OBVIOUS
<1>6. Len(<<>>) = 0 /\ 0 \in 0 .. 0
  BY SMT
<1>7. PendingExact'
  BY <1>0, <1>1, <1>4, <1>5, <1>6, Zenon DEF PendingExact, TypeOK
<1>8. Connection'
  BY <1>1, <1>3, SMT DEF Connection
<1>9. 1 .. 0 = {}
  BY SMT
<1>10. Sent' /\ Stream'
  BY <1>1, <1>6, <1>9, Zenon DEF Sent, Stream, AnswersInOrder
<1>11. QED
  BY <1>7, <1>8, <1>10, Zenon DEF RedisInv

\* The server answers the command its connection carries next.
LEMMA RedisServer ==
    ASSUME RedisInv, ServerAnswers
    PROVE  RedisInv'
<1>0. PendingExact /\ TypeOK /\ Connection /\ Sent /\ Stream
  BY Zenon DEF RedisInv, PendingExact
<1>1. PICK error \in BOOLEAN : inbox' = Append(inbox, [id |-> Head(wire), error |-> error])
  BY Zenon DEF ServerAnswers
<1>2. /\ alive /\ wire # <<>> /\ wire' = Tail(wire) /\ hi = "connected"
      /\ UNCHANGED <<pc, ret, context, watch, pending, hi, flag, replies, obuf, arrived, alive,
                     told, issued, connects, delivered>>
  BY <1>0, Zenon DEF ServerAnswers, Connection, adapter, hiredis, history
<1>3. /\ wire \in Seq(Nat) /\ inbox \in Seq(Reply) /\ replies \in Seq(Nat) /\ obuf \in Seq(Nat)
      /\ arrived \in 0 .. Len(inbox)
  BY <1>0, Zenon DEF TypeOK
<1>4. Len(wire) > 0
  BY <1>2, <1>3, SMT
<1>5. /\ wire' \in Seq(Nat) /\ Len(wire') = Len(wire) - 1 /\ Head(wire) = wire[1] /\ wire[1] \in Nat
      /\ \A i \in 1 .. Len(wire) - 1 : wire'[i] = wire[i + 1]
  BY <1>2, <1>3, <1>4, TailFacts, Zenon
<1> DEFINE answer == [id |-> Head(wire), error |-> error]
<1>6. answer \in Reply /\ answer.id = wire[1]
  BY <1>5, SMT DEF Reply
<1>7. /\ inbox' \in Seq(Reply) /\ Len(inbox') = Len(inbox) + 1 /\ inbox'[Len(inbox) + 1] = answer
      /\ \A i \in 1 .. Len(inbox) : inbox'[i] = inbox[i]
  <2>1. inbox' = Append(inbox, answer)
    BY <1>1, Zenon
  <2> HIDE DEF answer
  <2>2. \A e \in Reply : /\ Append(inbox, e) \in Seq(Reply) /\ Len(Append(inbox, e)) = Len(inbox) + 1
                         /\ Append(inbox, e)[Len(inbox) + 1] = e
                         /\ \A i \in 1 .. Len(inbox) : Append(inbox, e)[i] = inbox[i]
    BY <1>3, AppendFacts
  <2>3. QED
    BY <1>6, <2>1, <2>2, Zenon
<1> HIDE DEF answer
<1>8. Len(inbox) \in Nat /\ Len(wire) \in Nat /\ Len(obuf) \in Nat
  BY <1>3, Elements, Zenon
<1>9. PendingExact'
  <2>1. arrived' \in 0 .. Len(inbox')
    BY <1>2, <1>3, <1>7, <1>8, SMT
  <2>2. QED
    <3>1. wire' \in Seq(Nat) /\ inbox' \in Seq(Reply)
      BY <1>5, <1>7, Zenon
    <3>2. QED
      BY <1>0, <1>2, <2>1, <3>1, ZenonT(60) DEF PendingExact, TypeOK
<1>10. Connection'
  BY <1>0, <1>2, Zenon DEF Connection, At
<1>11. \A i \in 1 .. Len(inbox') : i \in 1 .. Len(inbox) \/ i = Len(inbox) + 1
  BY <1>7, <1>8, SMT
<1>12. \A i \in 1 .. Len(wire') : i \in 1 .. Len(wire) - 1 /\ i + 1 \in 1 .. Len(wire)
  BY <1>5, <1>8, SMT
<1>13. 1 \in 1 .. Len(wire)
  BY <1>4, <1>8, SMT
<1>14. Sent'
  <2>1. \A i \in 1 .. Len(inbox') : inbox'[i].id <= issued
    BY <1>0, <1>6, <1>7, <1>11, <1>13, Zenon DEF Sent
  <2>2. \A i \in 1 .. Len(wire') : wire'[i] <= issued
    BY <1>0, <1>5, <1>12, Zenon DEF Sent
  <2>3. QED
    BY <1>0, <1>2, <2>1, <2>2, Zenon DEF Sent
<1>15. ASSUME WholeQueue PROVE WholeQueue' /\ AnswersInOrder'
  <2>1. Len(replies) = Len(inbox') + Len(wire') + Len(obuf)
    BY <1>5, <1>7, <1>8, <1>15, SMT DEF WholeQueue
  <2>2. \A i \in 1 .. Len(inbox') : inbox'[i].id = replies[i]
    BY <1>6, <1>7, <1>11, <1>13, <1>15, Zenon DEF WholeQueue
  <2>3. \A i \in 1 .. Len(wire') : wire'[i] = replies[Len(inbox') + i]
    <3>1. \A i \in 1 .. Len(wire') : Len(inbox) + (i + 1) = Len(inbox') + i
      BY <1>5, <1>7, <1>8, SMT
    <3>2. \A i \in 1 .. Len(wire) : wire[i] = replies[Len(inbox) + i]
      BY <1>15, Zenon DEF WholeQueue
    <3>3. TAKE i \in 1 .. Len(wire')
    <3>4. wire'[i] = wire[i + 1] /\ wire[i + 1] = replies[Len(inbox) + (i + 1)]
      BY <1>5, <1>12, <3>2, Zenon
    <3>5. QED
      BY <3>1, <3>4, Zenon
  <2>4. \A i \in 1 .. Len(obuf) : obuf[i] = replies[Len(inbox') + Len(wire') + i]
    <3>1. Len(inbox') + Len(wire') = Len(inbox) + Len(wire)
      BY <1>5, <1>7, <1>8, SMT
    <3>2. QED
      BY <1>15, <3>1, Zenon DEF WholeQueue
  <2>5. \A i \in 1 .. Len(inbox') : i <= Len(replies)
    BY <1>5, <1>7, <1>8, <2>1, SMT
  <2>6. QED
    BY <1>2, <2>1, <2>2, <2>3, <2>4, <2>5, Zenon DEF WholeQueue, AnswersInOrder
<1>16. Stream'
  BY <1>0, <1>2, <1>15, Zenon DEF Stream, Ending, At
<1>17. QED
  BY <1>9, <1>10, <1>14, <1>16, Zenon DEF RedisInv

\* A connection that breaks loses the last of the answers.
LEMMA RedisBreaks ==
    ASSUME RedisInv, ConnectionBreaks
    PROVE  RedisInv'
<1>0. PendingExact /\ TypeOK /\ Connection /\ Sent /\ Stream
  BY Zenon DEF RedisInv, PendingExact
<1>1. PICK k \in arrived .. Len(inbox) : inbox' = SubSeq(inbox, 1, k)
  BY Zenon DEF ConnectionBreaks
<1>2. /\ hi = "connected" /\ alive' = FALSE
      /\ UNCHANGED <<pc, ret, context, watch, pending, hi, flag, replies, obuf, wire, arrived,
                     told, issued, connects, delivered>>
  BY Zenon DEF ConnectionBreaks, adapter, hiredis, history
<1>3. inbox \in Seq(Reply) /\ arrived \in 0 .. Len(inbox)
  BY <1>0, Zenon DEF TypeOK
<1>4. k \in Nat /\ 1 \in 1 .. Len(inbox) + 1 /\ k \in 1 - 1 .. Len(inbox) /\ k - 1 + 1 = k
      /\ (\A i \in 1 .. k : 1 + i - 1 = i /\ i \in 1 .. Len(inbox)) /\ arrived \in 0 .. k
  BY <1>3, Elements, SMT
<1>5. inbox' \in Seq(Reply) /\ Len(inbox') = k /\ \A i \in 1 .. k : inbox'[i] = inbox[i]
  <2>1. /\ inbox' \in Seq(Reply) /\ Len(inbox') = k - 1 + 1
        /\ \A i \in 1 .. k - 1 + 1 : inbox'[i] = inbox[1 + i - 1]
    BY <1>1, <1>3, <1>4, SubSeqFacts
  <2>2. QED
    BY <1>4, <2>1, Zenon
<1>6. PendingExact'
  BY <1>0, <1>2, <1>4, <1>5, ZenonT(60) DEF PendingExact, TypeOK
<1>7. Connection' /\ Sent'
  BY <1>0, <1>2, <1>4, <1>5, Zenon DEF Connection, Sent, At
<1>8. Stream'
  BY <1>0, <1>2, <1>4, <1>5, Zenon DEF Stream, AnswersInOrder, Ending, At
<1>9. QED
  BY <1>6, <1>7, <1>8, Zenon DEF RedisInv

\* The steps that only move the thread.
LEMMA RedisThread ==
    ASSUME RedisInv, NEW next \in {"timeout", "disconnect"},
           \/ CallbackReturns \/ alpha_redis_async_close \/ ConnectFails(next) \/ ServiceRead \/ Disconnect
           \/ (TimeoutReply /\ replies = <<>>)
    PROVE  RedisInv'
<1>0. TypeOK /\ Connection
  BY Zenon DEF RedisInv, PendingExact
<1>1. CASE CallbackReturns
  <2>1. pc = "callback" /\ pc' = ret /\ UNCHANGED <<ret, adapter, hiredis, net, history>>
    BY <1>1, Zenon DEF CallbackReturns
  <2>2. pc' \in PcValues /\ pc' # "new" /\ At' = At
    BY <1>0, <2>1, SMT DEF TypeOK, At
  <2>3. UNCHANGED <<ret, context, watch, pending, hi, flag, replies, obuf, wire, inbox, arrived, alive,
                    told, issued, connects, delivered>>
    BY <2>1, Zenon DEF adapter, hiredis, net, history
  <2>4. TypeOK'
    BY <1>0, <2>2, <2>3, ZenonT(60) DEF TypeOK
  <2>5. QED
    BY <1>0, <2>2, <2>3, <2>4, RedisMoves, Zenon DEF Connection, Ending
<1>2. CASE alpha_redis_async_close
  <2>1. /\ pc = "loop" /\ (context = "set" => hi # "none")
        /\ \/ context = "set" /\ pc' = "drop" /\ flag' = "FREEING"
           \/ pc' = "closed" /\ flag' = flag
        /\ UNCHANGED <<ret, context, watch, pending, hi, replies, obuf, wire, inbox, arrived, alive,
                       told, issued, connects, delivered>>
    BY <1>2, Zenon DEF alpha_redis_async_close, adapter, net, history
  <2>2. pc' \in PcValues /\ flag' \in {"none", "DISCONNECTING", "FREEING"}
    BY <1>0, <2>1, SMT DEF TypeOK
  <2>3. TypeOK'
    BY <1>0, <2>1, <2>2, ZenonT(40) DEF TypeOK
  <2>4. pc' # "new" /\ ~Ending
        /\ (At' \in {"read", "write", "process", "timeout", "disconnect", "drop"} => hi # "none")
    BY <2>1, SMT DEF At, Ending
  <2>5. QED
    BY <2>1, <2>3, <2>4, RedisMoves, Zenon
<1>3. CASE ConnectFails(next)
  <2>1. /\ pc = "loop" /\ hi = "connecting" /\ told' = "ERR_IO" /\ pc' = "callback" /\ ret' = next
        /\ UNCHANGED <<context, watch, pending, hi, flag, replies, obuf, wire, inbox, arrived, alive,
                       issued, connects, delivered>>
    BY <1>3, Zenon DEF ConnectFails, CallOwner, adapter, hiredis, net
  <2>2. pc' \in PcValues /\ told' \in {"nothing", "OK", "ERR_IO"} /\ ret' \in RetValues
    BY <2>1, SMT
  <2>3. TypeOK'
    BY <1>0, <2>1, <2>2, Zenon DEF TypeOK
  <2>4. pc' # "new" /\ hi # "none" /\ ~Ending
    BY <2>1, SMT DEF At, Ending
  <2>5. QED
    BY <2>1, <2>3, <2>4, RedisMoves, Zenon
<1>4. CASE ServiceRead
  <2>1. /\ pc \in {"loop", "read"} /\ hi = "connected" /\ pc' \in {"process", "disconnect"}
        /\ UNCHANGED <<ret, context, pending, hi, flag, replies, obuf, wire, inbox, alive,
                       told, issued, connects, delivered>>
    BY <1>4, Zenon DEF ServiceRead, hiredis, history
  <2>2. arrived' \in 0 .. Len(inbox) /\ watch' \subseteq {"READ", "WRITE"}
    <3>1. arrived' \in arrived .. Len(inbox) \/ arrived' = arrived
      BY <1>4, Zenon DEF ServiceRead
    <3>2. inbox \in Seq(Reply) /\ arrived \in 0 .. Len(inbox)
      BY <1>0, Zenon DEF TypeOK
    <3>3. arrived' \in 0 .. Len(inbox)
      BY <3>1, <3>2, Elements, SMT
    <3>4. watch' \in {watch, add_read(watch)}
      BY <1>4, Zenon DEF ServiceRead
    <3>5. watch' \subseteq {"READ", "WRITE"}
      BY <1>0, <3>4, SMT DEF TypeOK, add_read
    <3>6. QED
      BY <3>3, <3>5, Zenon
  <2>3. pc' \in PcValues /\ pc' # "new" /\ hi # "none" /\ ~Ending
    BY <2>1, SMT DEF At, Ending
  <2>4. TypeOK'
    BY <1>0, <2>1, <2>2, <2>3, ZenonT(40) DEF TypeOK
  <2>5. QED
    BY <2>1, <2>3, <2>4, RedisMoves, Zenon
<1>5. CASE Disconnect
  <2>1. /\ pc = "disconnect" /\ pc' = "drop" /\ flag' = "DISCONNECTING" /\ watch' = {}
        /\ UNCHANGED <<ret, context, pending, hi, replies, obuf, wire, inbox, arrived, alive,
                       told, issued, connects, delivered>>
    BY <1>5, Zenon DEF Disconnect, cleanup, net, history
  <2>2. pc' \in PcValues /\ pc' # "new" /\ flag' \in {"none", "DISCONNECTING", "FREEING"}
        /\ watch' \subseteq {"READ", "WRITE"} /\ Ending'
    BY <2>1, SMT DEF At, Ending
  <2>3. hi # "none"
    BY <1>0, <2>1, SMT DEF Connection, At
  <2>4. TypeOK'
    BY <1>0, <2>1, <2>2, ZenonT(40) DEF TypeOK
  <2>5. QED
    BY <2>1, <2>2, <2>3, <2>4, RedisMoves, Zenon
<1>6. CASE TimeoutReply /\ replies = <<>>
  <2>1. /\ pc = "timeout" /\ pc' = "disconnect"
        /\ UNCHANGED <<ret, context, watch, pending, hi, flag, replies, obuf, wire, inbox, arrived, alive,
                       told, issued, connects, delivered>>
    BY <1>6, Zenon DEF TimeoutReply, net
  <2>2. pc' \in PcValues /\ pc' # "new" /\ Ending'
    BY <2>1, SMT DEF At, Ending
  <2>3. hi # "none"
    BY <1>0, <2>1, SMT DEF Connection, At
  <2>4. TypeOK'
    BY <1>0, <2>1, <2>2, ZenonT(60) DEF TypeOK
  <2>5. QED
    BY <2>1, <2>2, <2>3, <2>4, RedisMoves, Zenon
<1>7. QED
  BY <1>1, <1>2, <1>3, <1>4, <1>5, <1>6, Zenon

LEMMA RedisStep == RedisInv /\ [Next]_vars => RedisInv'
<1> SUFFICES ASSUME RedisInv, [Next]_vars PROVE RedisInv'
  OBVIOUS
<1>1. CASE alpha_redis_async_connect \/ alpha_redis_async_reconnect
  BY <1>1, RedisStarts, Zenon
<1>2. CASE alpha_redis_async_command
  BY <1>2, RedisCommand, Zenon
<1>3. CASE CallbackReturns \/ alpha_redis_async_close \/ ServiceRead \/ Disconnect
  BY <1>3, RedisThread, Zenon
<1>4. CASE Connects
  BY <1>4, RedisConnects, Zenon DEF Connects
<1>5. CASE ConnectFails("disconnect") \/ alpha_redis_async_timeout
  BY <1>5, RedisThread, Zenon DEF alpha_redis_async_timeout
<1>6. CASE ServiceWrite
  BY <1>6, RedisWrite, Zenon
<1>7. CASE Process
  BY <1>7, RedisProcess, Zenon
<1>8. CASE TimeoutReply
  <2>1. CASE replies = <<>>
    BY <1>8, <2>1, RedisThread, Zenon
  <2>2. CASE replies # <<>>
    <3>1. At = "timeout" /\ replied(NullReply, "timeout")
          /\ UNCHANGED <<context, watch, hi, flag, net, told, issued, connects>>
      BY <1>8, <2>2, SMT DEF TimeoutReply, At
    <3>2. QED
      BY <2>2, <3>1, RedisNullReply, Zenon
  <2>3. QED
    BY <2>1, <2>2, Zenon
<1>9. CASE DropReply
  <2>1. At = "drop" /\ replies # <<>> /\ replied(NullReply, "drop")
        /\ UNCHANGED <<context, watch, hi, flag, net, told, issued, connects>>
    BY <1>9, SMT DEF DropReply, At
  <2>2. QED
    BY <2>1, RedisNullReply, Zenon
<1>10. CASE DropContext
  BY <1>10, RedisDrops, Zenon
<1>11. CASE ServerAnswers
  BY <1>11, RedisServer, Zenon
<1>12. CASE ConnectionBreaks
  BY <1>12, RedisBreaks, Zenon
<1>13. CASE UNCHANGED vars
  <2>1. UNCHANGED <<pc, ret, context, watch, pending, hi, flag, replies, obuf, wire, inbox, arrived, alive,
                    told, issued, connects, delivered>>
    BY <1>13, Zenon DEF vars, adapter, hiredis, net, history
  <2>p. PendingExact'
    <3>1. TypeOK /\ pending = Len(replies)
      BY Zenon DEF RedisInv, PendingExact
    <3>2. TypeOK'
      BY <2>1, <3>1, SMT DEF TypeOK
    <3>3. QED
      BY <2>1, <3>1, <3>2, Zenon DEF PendingExact
  <2>2. Connection' /\ Sent'
    BY <2>1, Zenon DEF RedisInv, Connection, Sent, At
  <2>3. Stream'
    BY <2>1, Zenon DEF RedisInv, Stream, AnswersInOrder, WholeQueue, Ending, At
  <2>4. QED
    BY <2>p, <2>2, <2>3, Zenon DEF RedisInv
<1>14. QED
  BY <1>1, <1>2, <1>3, <1>4, <1>5, <1>6, <1>7, <1>8, <1>9, <1>10, <1>11, <1>12, <1>13, Zenon
     DEF Next, Hiredis

\* Whatever the bound on commands in flight, the adapter's count of them is the
\* number of callbacks hiredis owes: no error, close or reconnect path counts one
\* off twice or forgets one.
THEOREM RedisPendingExact == Spec => []PendingExact
<1>1. RedisInv => PendingExact
  BY Zenon DEF RedisInv
<1>2. QED
  BY <1>1, RedisInit, RedisStep, PTL DEF Spec

-----------------------------------------------------------------------------
(* The adapter implements RequestFifo. *)

LEMMA RedisFifoComplete ==
    ASSUME RedisInv, NEW r \in Reply, NEW back, replies # <<>>, replied(r, back), issued' = issued,
           r.id <= issued, ~r.error => r.id = Head(replies)
    PROVE  Fifo!Next
<1>1. r.id \in 0 .. issued /\ r.error \in BOOLEAN
  <2>1. r.id \in Nat /\ r.error \in BOOLEAN
    BY Zenon DEF Reply
  <2>2. issued \in 0 .. MaxCommands /\ MaxCommands \in Nat
    BY MaxCommandsAssumption, Zenon DEF RedisInv, PendingExact, TypeOK
  <2>3. r.id \in 0 .. issued
    BY <2>1, <2>2, SMT
  <2>4. QED
    BY <2>1, <2>3, Zenon
<1>2. Fifo!Complete(~r.error, r.id)
  BY Zenon DEF Fifo!Complete, replied
<1>3. (~r.error) \in BOOLEAN
  BY <1>1, Zenon
<1>4. QED
  BY <1>1, <1>2, <1>3, Zenon DEF Fifo!Next

LEMMA RedisFifoStep ==
    RedisInv /\ [Next]_vars => [Fifo!Next]_<<replies, issued, delivered>>
<1> SUFFICES ASSUME RedisInv, [Next]_vars
             PROVE  Fifo!Next \/ UNCHANGED <<replies, issued, delivered>>
  OBVIOUS
<1>0. PendingExact /\ TypeOK /\ Sent /\ Stream
  BY Zenon DEF RedisInv, PendingExact
<1>1. CASE alpha_redis_async_command
  <2>1. /\ pending < MaxPending /\ issued' = issued + 1 /\ replies' = Append(replies, issued + 1)
        /\ delivered' = delivered
    BY <1>1, Zenon DEF alpha_redis_async_command, Accepts
  <2>2. Fifo!Accept
    BY <1>0, <2>1, Zenon DEF Fifo!Accept, PendingExact
  <2>3. QED
    BY <2>2, Zenon DEF Fifo!Next
<1>2. NullReply \in Reply /\ NullReply.error /\ NullReply.id <= issued
  <2>1. NullReply \in Reply /\ NullReply.error /\ NullReply.id = 0
    BY SMT DEF NullReply, Reply
  <2>2. 0 <= issued
    BY <1>0, MaxCommandsAssumption, SMT DEF TypeOK
  <2>3. QED
    BY <2>1, <2>2, Zenon
<1>3. CASE (TimeoutReply /\ replies # <<>>) \/ DropReply
  <2>1. replies # <<>> /\ issued' = issued
        /\ (replied(NullReply, "timeout") \/ replied(NullReply, "drop"))
    BY <1>3, Zenon DEF TimeoutReply, DropReply
  <2>2. QED
    BY <1>2, <2>1, RedisFifoComplete, Zenon
<1>4. CASE Process /\ arrived # 0 /\ replies # <<>>
  <2>1. pc = "process" /\ replied(Head(inbox), "process") /\ issued' = issued
    BY <1>4, Zenon DEF Process
  <2>2. AnswersInOrder
    BY <1>0, <2>1, SMT DEF Stream, Ending, At
  <2>3. inbox \in Seq(Reply) /\ arrived \in 0 .. Len(inbox) /\ replies \in Seq(Nat)
    BY <1>0, Zenon DEF TypeOK
  <2>4. Len(inbox) > 0 /\ Len(replies) > 0 /\ 1 \in 1 .. Len(inbox)
    BY <1>4, <2>3, SMT
  <2>5. Head(inbox) = inbox[1] /\ inbox[1] \in Reply /\ Head(replies) = replies[1]
    BY <2>3, <2>4, TailFacts, Zenon
  <2>6. inbox[1].id <= issued /\ (~inbox[1].error => inbox[1].id = replies[1])
    BY <1>0, <2>2, <2>4, Zenon DEF Sent, AnswersInOrder
  <2>7. QED
    BY <1>4, <2>1, <2>5, <2>6, RedisFifoComplete, Zenon
<1>5. CASE (TimeoutReply /\ replies = <<>>) \/ (Process /\ (arrived = 0 \/ replies = <<>>))
  BY <1>5, Zenon DEF TimeoutReply, Process
<1>6. CASE alpha_redis_async_connect \/ alpha_redis_async_reconnect
  BY <1>6, Zenon DEF alpha_redis_async_connect, alpha_redis_async_reconnect, start_connection
<1>7. CASE CallbackReturns \/ alpha_redis_async_close \/ ServiceRead \/ ServiceWrite \/ Disconnect
          \/ DropContext \/ UNCHANGED vars
  BY <1>7, Zenon DEF CallbackReturns, alpha_redis_async_close, ServiceRead, ServiceWrite, Disconnect,
     DropContext, vars, hiredis, history
<1>8. CASE Connects \/ ConnectFails("disconnect") \/ alpha_redis_async_timeout
          \/ ServerAnswers \/ ConnectionBreaks
  BY <1>8, Zenon DEF Connects, ConnectSucceeds, ConnectFails, alpha_redis_async_timeout, ServerAnswers,
     ConnectionBreaks, hiredis, history
<1>9. QED
  BY <1>1, <1>3, <1>4, <1>5, <1>6, <1>7, <1>8, Zenon DEF Next, Hiredis

\* Every reply_fn call is for the oldest accepted command, once, and one that
\* reports success carries the server's answer to that very command, through
\* errors, reconnects and commands submitted from callbacks.
THEOREM RedisImplementsFifo == Spec => RefinesFifo
<1>1. Init => Fifo!Init
  BY Zenon DEF Init, Fifo!Init
<1>2. QED
  BY <1>1, RedisInit, RedisStep, RedisFifoStep, PTL DEF Spec, RefinesFifo, Fifo!Spec
-----------------------------------------------------------------------------
(* The owner and the handle agree on the connection. *)

\* hiredis is between two answers or waits for the next event.
Serving == At \in {"loop", "read", "write", "process"}

\* What is watched and told, also in the middle of a call: an attempt to connect
\* that is given up without being freed by the owner has been reported, so that
\* the context it leaves behind needs no report of its own.
InStep ==
    /\ hi = "connecting" => alive
    /\ flag = "FREEING" => At = "drop"
    /\ Ending /\ hi = "connecting" /\ flag # "FREEING" => told = "ERR_IO"
    /\ Serving =>
        /\ hi = "connecting" \/ obuf # <<>> => "WRITE" \in watch
        /\ hi = "connected" /\ replies # <<>> /\ obuf = <<>> => "READ" \in watch
        /\ hi = "connected" => told = "OK"
        /\ hi = "none" => watch = {} /\ told = "ERR_IO"

LEMMA InStepStarts ==
    ASSUME RedisInv, InStep, alpha_redis_async_connect \/ alpha_redis_async_reconnect
    PROVE  InStep'
<1>1. hi = "none" /\ context = "NULL" /\ start_connection /\ obuf = <<>> /\ replies = <<>>
  BY ZenonT(40) DEF RedisInv, Connection, alpha_redis_async_connect, alpha_redis_async_reconnect
<1>2. CASE alpha_redis_async_connect
  BY <1>1, <1>2, SMT DEF alpha_redis_async_connect, start_connection, add_write, InStep, Serving, Ending, At
<1>3. CASE alpha_redis_async_reconnect
  <2>1. At = "loop" /\ At' = At
    <3>1. At \notin {"read", "write", "process", "timeout", "disconnect", "drop"}
      BY <1>1, ZenonT(40) DEF RedisInv, Connection
    <3>2. At \in RetValues \ {"closed"} /\ pc' = pc /\ ret' = ret
      BY <1>3, SMTT(30) DEF alpha_redis_async_reconnect, start_connection, At, RedisInv, PendingExact, TypeOK
    <3>3. QED
      BY <3>1, <3>2, SMT DEF At
  <2>2. QED
    BY <1>1, <2>1, SMT DEF start_connection, add_write, InStep, Serving, Ending
<1>4. QED
  BY <1>2, <1>3, Zenon

LEMMA InStepCalls ==
    ASSUME RedisInv, InStep, NEW next \in {"timeout", "disconnect"},
           \/ alpha_redis_async_command \/ CallbackReturns \/ alpha_redis_async_close
           \/ ConnectFails(next) \/ ServerAnswers \/ ConnectionBreaks
    PROVE  InStep'
<1>1. CASE alpha_redis_async_command
  <2>1. obuf' # <<>> /\ hi # "none" /\ "WRITE" \in watch' /\ UNCHANGED <<pc, ret, hi, flag, alive, told>>
    <3>1. obuf' = Append(obuf, issued + 1) /\ obuf \in Seq(Nat) /\ issued + 1 \in Nat
      BY <1>1, MaxCommandsAssumption, SMT DEF alpha_redis_async_command, RedisInv, PendingExact, TypeOK
    <3>2. obuf' # <<>>
      BY <3>1, AppendFacts
    <3>3. QED
      BY <1>1, <3>2, SMT DEF alpha_redis_async_command, add_write
  <2>2. QED
    BY <2>1, SMT DEF InStep, Serving, Ending, At
<1>2. CASE CallbackReturns
  <2>1. At' = At /\ UNCHANGED <<adapter, hiredis, net, history>>
    BY <1>2, SMT DEF CallbackReturns, At, RedisInv, PendingExact, TypeOK
  <2>2. QED
    BY <2>1, SMT DEF InStep, Serving, Ending, adapter, hiredis, net, history
<1>3. CASE alpha_redis_async_close
  BY <1>3, SMT DEF alpha_redis_async_close, adapter, net, history, InStep, Serving, Ending, At
<1>4. CASE ConnectFails(next)
  BY <1>4, SMT DEF ConnectFails, CallOwner, adapter, hiredis, net, InStep, Serving, Ending, At
<1>5. CASE ServerAnswers
  BY <1>5, SMT DEF ServerAnswers, adapter, hiredis, history, InStep, Serving, Ending, At
<1>6. CASE ConnectionBreaks
  BY <1>6, SMT DEF ConnectionBreaks, adapter, hiredis, history, InStep, Serving, Ending, At
<1>7. QED
  BY <1>1, <1>2, <1>3, <1>4, <1>5, <1>6, Zenon

\* A command sent while the connection was being established is still in the
\* output buffer when that is done, and so is waited for.
LEMMA InStepConnects ==
    ASSUME RedisInv, InStep, NEW next \in {"read", "write"}, ConnectSucceeds(next)
    PROVE  InStep'
<1>1. /\ pc = "loop" /\ hi = "connecting" /\ hi' = "connected" /\ told' = "OK" /\ pc' = "callback" /\ ret' = next
      /\ UNCHANGED <<watch, flag, replies, obuf>>
  BY Zenon DEF ConnectSucceeds, CallOwner, adapter
<1>2. WholeQueue /\ wire = <<>> /\ inbox = <<>> /\ "WRITE" \in watch /\ flag # "FREEING"
  BY <1>1, SMT DEF RedisInv, Stream, Connection, InStep, Serving, Ending, At
<1>3. obuf = <<>> => replies = <<>>
  <2>1. replies \in Seq(Nat) /\ Len(<<>>) = 0
    BY SMT DEF RedisInv, PendingExact, TypeOK
  <2>2. QED
    BY <1>2, <2>1, SMT DEF WholeQueue
<1>4. QED
  BY <1>1, <1>2, <1>3, SMT DEF InStep, Serving, Ending, At

LEMMA InStepServes ==
    ASSUME RedisInv, InStep, ServiceRead \/ ServiceWrite
    PROVE  InStep'
<1>1. CASE ServiceRead
  BY <1>1, SMT DEF ServiceRead, add_read, hiredis, history, InStep, Serving, Ending, At
<1>2. CASE ServiceWrite
  <2>1. /\ pc \in {"loop", "write"} /\ hi = "connected"
        /\ UNCHANGED <<ret, hi, flag, replies, alive, told>>
    BY <1>2, Zenon DEF ServiceWrite, hiredis, history
  <2>2. ASSUME NEW k \in 0 .. Len(obuf), obuf' = SubSeq(obuf, k + 1, Len(obuf)), pc' = "loop",
               watch' = add_read(IF k = Len(obuf) THEN del_write(watch) ELSE add_write(watch))
        PROVE  InStep'
    <3>1. "READ" \in watch' /\ (k # Len(obuf) => "WRITE" \in watch')
      BY <2>2, SMT DEF add_read, add_write, del_write
    <3>2. k = Len(obuf) => obuf' = <<>>
      <4>1. obuf \in Seq(Nat) /\ Len(obuf) \in Nat
        BY SMT DEF RedisInv, PendingExact, TypeOK
      <4>2. QED
        BY <2>2, <4>1, SMT
    <3>3. QED
      BY <2>1, <2>2, <3>1, <3>2, SMT DEF InStep, Serving, Ending, At
  <2>3. CASE pc' = "disconnect"
    BY <2>1, <2>3, SMT DEF InStep, Serving, Ending, At
  <2>4. QED
    BY <1>2, <2>2, <2>3, Zenon DEF ServiceWrite
<1>3. QED
  BY <1>1, <1>2, Zenon

LEMMA InStepHiredis ==
    ASSUME RedisInv, InStep, Hiredis
    PROVE  InStep'
<1>1. CASE TimeoutReply
  BY <1>1, SMT DEF TimeoutReply, replied, CallOwner, net, InStep, Serving, Ending, At
<1>2. CASE Process
  <2>1. UNCHANGED <<watch, hi, flag, obuf, alive, told>> /\ pc = "process"
    BY <1>2, ZenonT(40) DEF Process
  <2>2. At' \in {"loop", "process", "disconnect"} /\ (replies = <<>> => replies' = <<>>)
    BY <1>2, SMT DEF Process, replied, CallOwner, At
  <2>3. hi = "connecting" => At' # "disconnect"
    <3>1. hi = "connecting" => arrived = 0
      BY SMT DEF RedisInv, Connection
    <3>2. QED
      BY <1>2, <3>1, SMT DEF Process, At
  <2>4. At = "process" /\ flag # "FREEING"
    BY <2>1, SMT DEF InStep, At
  <2>5. QED
    BY <2>1, <2>2, <2>3, <2>4, SMT DEF InStep, Serving, Ending
<1>3. CASE Disconnect
  BY <1>3, SMT DEF Disconnect, net, history, InStep, Serving, Ending, At
<1>4. CASE DropReply
  BY <1>4, SMT DEF DropReply, replied, CallOwner, net, InStep, Serving, Ending, At
<1>5. CASE DropContext
  <2>1. pc = "drop" /\ hi # "none" /\ hi \in {"connecting", "connected"}
    BY <1>5, SMT DEF DropContext, RedisInv, Connection, PendingExact, TypeOK, At
  <2>2. hi' = "none" /\ flag' = "none" /\ obuf' = <<>> /\ watch' = {}
    BY <1>5, Zenon DEF DropContext, disconnected, cleanup
  <2>3. At' = "loop" => told' = "ERR_IO"
    BY <1>5, <2>1, SMTT(30) DEF DropContext, disconnected, CallOwner, InStep, Ending, At
  <2>4. At' \in {"loop", "closed"}
    BY <1>5, <2>1, SMT DEF DropContext, CallOwner, At
  <2>5. QED
    BY <2>2, <2>3, <2>4, SMT DEF InStep, Serving, Ending
<1>6. QED
  BY <1>1, <1>2, <1>3, <1>4, <1>5 DEF Hiredis

LEMMA InStepNext == RedisInv /\ InStep /\ [Next]_vars => InStep'
<1> SUFFICES ASSUME RedisInv, InStep, [Next]_vars PROVE InStep'
  OBVIOUS
<1>1. CASE UNCHANGED vars
  BY <1>1, SMT DEF vars, adapter, hiredis, net, history, InStep, Serving, Ending, At
<1>2. CASE Connects
  BY <1>2, InStepConnects, Zenon DEF Connects
<1>3. QED
  BY <1>1, <1>2, InStepStarts, InStepCalls, InStepServes, InStepHiredis, Zenon
     DEF Next, alpha_redis_async_timeout

\* Between two calls the owner watches what hiredis waits for and knows whether
\* there is a connection, and no command of a lost connection is left without
\* its callback by the time it hears of the loss; for every bound on commands
\* in flight and every number of commands and reconnects.
THEOREM RedisOwnerInStep == Spec => []OwnerIsInStep
<1>1. Init => InStep
  BY SMT DEF Init, InStep, Serving, Ending, At
<1>2. RedisInv /\ InStep => OwnerIsInStep
  BY SMT DEF RedisInv, Connection, InStep, Serving, At, OwnerIsInStep, WatchesWhatIsAwaited, OwnerInformed
<1>3. QED
  BY <1>1, <1>2, InStepNext, RedisInit, RedisStep, PTL DEF Spec
=============================================================================
