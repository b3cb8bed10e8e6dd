----------------------------- MODULE SpikeProofs -----------------------------
(***************************************************************************)
(* EventLoopSpike for every size of curl_watches and every set of sockets: *)
(* what the spike prints with clean_shutdown true is evidence, it uses no  *)
(* freed context while Redis behaves, and it polls what libcurl asked for. *)
(***************************************************************************)
EXTENDS EventLoopSpike, SeqLemmas, TLAPS

Calls == {"pg_connect", "pg_flush", "pg_drain", "pg_result", "redis_read", "redis_write", "curl"}
PgCommands == {"one", "bad", "two", "last", "sync"}
PgAnswers == {"row1", "error", "row2", "row42", "sync"}
RedisCommands == {"SET", "GET", "PING"}
RedisAnswers == {"OK", "alpha", "PONG", "other"}

\* The thread: pg_ready connects only while there is no connection, and it is the
\* first call of its tick.
ThreadInv ==
    /\ pc \in {"setup", "loop", "tick", "exit", "crashed"}
    /\ todo \in Seq(Calls) /\ flags \subseteq Evidence
    /\ \A i \in 1 .. Len(todo) : todo[i] = "pg_connect" => i = 1 /\ pg_state = 0
    /\ clean => pc = "exit" /\ complete

\* What the server has left on a living connection is what it was sent, in the
\* order of the two batches, from the command after the last one it took.
Program == <<"one", "bad", "two", "sync", "last", "sync">>
Sent(state) == IF state = 0 THEN 0 ELSE IF state = 2 THEN 4 ELSE 6

Remaining(k) ==
    /\ Len(pg_sent) + Len(out) = Sent(pg_state) - k
    /\ \A i \in 1 .. Len(pg_sent) : pg_sent[i] = Program[k + i]
    /\ \A i \in 1 .. Len(out) : out[i] = Program[k + Len(pg_sent) + i]
    /\ skipping <=> k \in {2, 3}

\* What the server has done after k commands.
DoneBy(k) ==
    /\ "row1" \in done <=> k >= 1
    /\ "error" \in done <=> k >= 2
    /\ "skipped" \in done <=> k >= 3
    /\ k >= 4 => "sync" \in done
    /\ "row42" \in done <=> k >= 5
    /\ "row2" \notin done

PgProgress ==
    /\ pg_state \in {0, 2, 3}
    /\ pg_sent \in Seq(PgCommands) /\ out \in Seq(PgCommands)
    /\ pg_socket \in Seq(PgAnswers) /\ buffered \in Seq(PgAnswers)
    /\ \E k \in 0 .. 6 : DoneBy(k) /\ (pg_alive \/ pg_state = 0 => Remaining(k))
    /\ \A i \in 1 .. Len(pg_socket) : pg_socket[i] = "row42" => "row42" \in done
    /\ \A i \in 1 .. Len(buffered) : buffered[i] = "row42" => "row42" \in done
    /\ "pg_recovered" \in flags => "row42" \in done

\* The pointer is that of the connection in use, and of a connection that is
\* gone or about to go only after Redis failed.
Pointer ==
    /\ redis \in 0 .. 2 /\ generation \in 0 .. 2
    /\ link \in [1 .. 2 -> {"none", "connecting", "connected", "freed"}]
    /\ generation = 0 => redis = 0
    /\ generation = 1 => redis = 1
    /\ generation = 2 => redis \in {0, 2} /\ link[1] = "freed"
    /\ redis # 0 /\ (link[redis] = "freed" \/ ~re_alive) => "redis" \in faulty
    /\ NoStaleContext

\* An answer of Redis follows the command, and the evidence the answer.
Answered ==
    /\ obuf \in Seq(RedisCommands) /\ re_sent \in Seq(RedisCommands)
    /\ re_socket \in Seq(RedisAnswers)
    /\ \A i \in 1 .. Len(re_socket) : /\ re_socket[i] = "alpha" => "GET" \in done
                                      /\ re_socket[i] = "PONG" => "PING" \in done
    /\ "redis_roundtrip" \in flags => "GET" \in done
    /\ "redis_recovered" \in flags => "PING" \in done
    /\ "redis_disconnect" \in flags => generation = 2
    /\ "curl_roundtrip" \in flags => "http" \in done

\* Each socket libcurl watches has its entry, and every other entry is off.
Actions == {"none"} \union CurlActions
Entry == [fd : Sockets, action : Actions]
Entries ==
    /\ watches \in Seq(Entry) /\ Len(watches) <= CurlSlots
    /\ want \in [Sockets -> Actions] /\ slot \in [Sockets -> 0 .. Len(watches)]
    /\ \A fd \in Sockets : slot[fd] = 0 <=> want[fd] = "none"
    /\ \A fd \in Sockets : slot[fd] # 0 => watches[slot[fd]] = [fd |-> fd, action |-> want[fd]]
    /\ \A i \in 1 .. Len(watches) : watches[i].action # "none" => slot[watches[i].fd] = i

SpikeInv == ThreadInv /\ PgProgress /\ Pointer /\ Answered /\ Entries
-----------------------------------------------------------------------------
(* The thread. *)

\* A call that is over leaves the others of its tick.
LEMMA CallOver ==
    ASSUME ThreadInv, todo # <<>>
    PROVE  /\ Tail(todo) \in Seq(Calls)
           /\ \A i \in 1 .. Len(Tail(todo)) : Tail(todo)[i] # "pg_connect"
           /\ Head(todo) \in Calls /\ Head(todo) = todo[1]
           /\ Head(todo) = "pg_connect" => pg_state = 0
<1>1. todo \in Seq(Calls) /\ Len(todo) \in Nat /\ Len(todo) > 0
  BY SMT DEF ThreadInv
<1>2. /\ Tail(todo) \in Seq(Calls) /\ Len(Tail(todo)) = Len(todo) - 1
      /\ Head(todo) = todo[1] /\ todo[1] \in Calls
      /\ \A i \in 1 .. Len(todo) - 1 : Tail(todo)[i] = todo[i + 1]
  BY <1>1, TailFacts, Zenon
<1>3. QED
  BY <1>1, <1>2, SMT DEF ThreadInv

\* The tick that starts calls pg_ready first, to connect only if it has not yet.
LEMMA CallsOfTick ==
    ASSUME ThreadInv, NEW calls_due, calls_due = PgCalls \o RedisCalls \o <<"curl">>
    PROVE  /\ calls_due \in Seq(Calls)
           /\ \A i \in 1 .. Len(calls_due) : calls_due[i] = "pg_connect" => i = 1 /\ pg_state = 0
<1>1. PICK a \in Seq(Calls) :
          /\ a = PgCalls
          /\ \A i \in 1 .. Len(a) : a[i] = "pg_connect" => i = 1 /\ pg_state = 0
  <2>1. CASE pg_state = 0
    <3>1. PgCalls = <<"pg_connect">> /\ <<"pg_connect">> \in Seq(Calls) /\ Len(<<"pg_connect">>) = 1
      BY <2>1 DEF PgCalls, Calls
    <3>2. \A i \in 1 .. Len(PgCalls) : i = 1
      BY <3>1
    <3>3. QED
      BY <2>1, <3>1, <3>2, Zenon
  <2>2. CASE pg_state # 0
    <3>1. PgCalls = <<"pg_flush", "pg_drain">> /\ <<"pg_flush", "pg_drain">> \in Seq(Calls)
      BY <2>2 DEF PgCalls, Calls
    <3>2. \A i \in 1 .. Len(PgCalls) : PgCalls[i] # "pg_connect"
      BY <3>1
    <3>3. QED
      BY <3>1, <3>2, Zenon
  <2>3. QED
    BY <2>1, <2>2, Zenon
<1>2. PICK b \in Seq(Calls) : b = RedisCalls /\ \A i \in 1 .. Len(b) : b[i] # "pg_connect"
  <2>1. RedisCalls \in Seq(Calls)
    <3>1. <<"redis_read", "redis_write">> \in Seq(Calls) /\ <<>> \in Seq(Calls)
      BY DEF Calls
    <3>2. QED
      BY <3>1, Zenon DEF RedisCalls
  <2>2. \A i \in 1 .. Len(RedisCalls) : RedisCalls[i] # "pg_connect"
    BY DEF RedisCalls
  <2>3. QED
    BY <2>1, <2>2, Zenon
<1>3. PICK c \in Seq(Calls) : c = <<"curl">> /\ \A i \in 1 .. Len(c) : c[i] # "pg_connect"
  <2>1. <<"curl">> \in Seq(Calls) /\ \A i \in 1 .. Len(<<"curl">>) : <<"curl">>[i] # "pg_connect"
    BY DEF Calls
  <2>2. QED
    BY <2>1, Zenon
<1>4. Len(a) \in Nat /\ Len(b) \in Nat /\ Len(c) \in Nat
  OBVIOUS
<1>5. /\ a \o b \in Seq(Calls) /\ Len(a \o b) = Len(a) + Len(b)
      /\ \A i \in 1 .. Len(a) : (a \o b)[i] = a[i]
      /\ \A i \in 1 .. Len(b) : (a \o b)[Len(a) + i] = b[i]
  BY ConcatFacts
<1>6. \A i \in 1 .. Len(a \o b) : (a \o b)[i] = "pg_connect" => i = 1 /\ pg_state = 0
  <2> SUFFICES ASSUME NEW i \in 1 .. Len(a \o b), (a \o b)[i] = "pg_connect"
               PROVE  i = 1 /\ pg_state = 0
    OBVIOUS
  <2>1. CASE i <= Len(a)
    BY <1>1, <1>4, <1>5, <2>1
  <2>2. CASE i > Len(a)
    <3>1. i - Len(a) \in 1 .. Len(b) /\ Len(a) + (i - Len(a)) = i
      BY <1>4, <1>5, <2>2
    <3>2. QED
      BY <1>2, <1>5, <3>1
  <2>3. QED
    BY <1>4, <2>1, <2>2
<1>7. PICK ab \in Seq(Calls) : ab = a \o b
  BY <1>5, Zenon
<1>8. /\ ab \o c \in Seq(Calls) /\ Len(ab \o c) = Len(ab) + Len(c)
      /\ \A i \in 1 .. Len(ab) : (ab \o c)[i] = ab[i]
      /\ \A i \in 1 .. Len(c) : (ab \o c)[Len(ab) + i] = c[i]
  BY ConcatFacts
<1>9. \A i \in 1 .. Len(ab \o c) : (ab \o c)[i] = "pg_connect" => i = 1 /\ pg_state = 0
  <2> SUFFICES ASSUME NEW i \in 1 .. Len(ab \o c), (ab \o c)[i] = "pg_connect"
               PROVE  i = 1 /\ pg_state = 0
    OBVIOUS
  <2>0. Len(ab) \in Nat
    OBVIOUS
  <2>1. CASE i <= Len(ab)
    BY <1>6, <1>7, <1>8, <2>0, <2>1
  <2>2. CASE i > Len(ab)
    <3>1. i - Len(ab) \in 1 .. Len(c) /\ Len(ab) + (i - Len(ab)) = i
      BY <1>4, <1>8, <2>0, <2>2
    <3>2. QED
      BY <1>3, <1>8, <3>1
  <2>3. QED
    BY <2>0, <2>1, <2>2
<1>10. calls_due = ab \o c
  BY <1>1, <1>2, <1>3, <1>7, Zenon
<1>11. QED
  BY <1>8, <1>9, <1>10, Zenon
\* The evidence only grows, out of what there is to see.
LEMMA FlagsTyped ==
    ASSUME SpikeInv, Next
    PROVE  flags' \subseteq Evidence /\ (pc # "setup" => flags \subseteq flags')
<1>0. flags \subseteq Evidence
  BY Zenon DEF SpikeInv, ThreadInv
<1>1. CASE Setup
  BY <1>0, <1>1, Zenon DEF Setup, exercise_queue, Evidence
<1>2. CASE PgResult
  <2>1. Seen(Result) \subseteq Evidence /\ flags' = flags \union Seen(Result)
    BY <1>2, Zenon DEF PgResult, Seen, Evidence
  <2>2. QED
    BY <1>0, <2>1, Zenon
<1>3. CASE RedisReply
  <2>1. Noted(Head(calls), Head(re_socket)) \subseteq Evidence
        /\ flags' = flags \union Noted(Head(calls), Head(re_socket))
    BY <1>3, Zenon DEF RedisReply, Noted, Evidence
  <2>2. QED
    BY <1>0, <2>1, Zenon
<1>4. CASE RedisReadEnds \/ RedisWrite
  <2>1. flags' \in {flags, flags \union {"redis_disconnect"}}
    BY <1>4, Zenon DEF RedisReadEnds, RedisWrite, Disconnect
  <2>2. QED
    BY <1>0, <2>1, Zenon DEF Evidence
<1>5. CASE CurlEnds
  <2>1. flags' \in {flags, flags \union {"curl_roundtrip"}}
    BY <1>5, Zenon DEF CurlEnds
  <2>2. QED
    BY <1>0, <2>1, Zenon DEF Evidence
<1>6. CASE flags' = flags
  BY <1>0, <1>6, Zenon
<1>7. QED
  BY <1>1, <1>2, <1>3, <1>4, <1>5, <1>6, Zenon DEF Next, Thread, Environment, Ended, TickStarts, TickEnds, Exit,
     PgConnect, PgFlush, PgConsume, PgBusy, PgNull, RedisSkipped, RedisConnect, CurlReturns, CurlRefused, CurlAsks,
     PgServer, PgBreaks, RedisServer, RedisBreaks, LoopFails, Expires, vars

LEMMA ThreadStep ==
    ASSUME SpikeInv, Next
    PROVE  ThreadInv'
<1>0. ThreadInv /\ flags' \subseteq Evidence
  BY FlagsTyped, Zenon DEF SpikeInv
<1> DEFINE Ordered == /\ todo' \in Seq(Calls)
                      /\ \A i \in 1 .. Len(todo') : todo'[i] = "pg_connect" => i = 1 /\ pg_state' = 0
<1>1. ASSUME todo' = Tail(todo), todo # <<>> PROVE Ordered
  BY <1>0, <1>1, CallOver, Zenon
<1>2. ASSUME todo' = todo, pg_state' = pg_state PROVE Ordered
  BY <1>0, <1>2, Zenon DEF ThreadInv
<1>3. ASSUME todo' = <<>> PROVE Ordered
  BY <1>3
<1>4. CASE Setup
  <2>1. clean' = clean /\ pc = "setup" /\ pc' \in {"tick", "exit"} /\ pg_state' = pg_state
        /\ todo' \in {todo, <<"curl">>}
    BY <1>4, Zenon DEF Setup, pg
  <2>2. Ordered
    <3>1. <<"curl">> \in Seq(Calls) /\ \A i \in 1 .. Len(<<"curl">>) : <<"curl">>[i] # "pg_connect"
      BY DEF Calls
    <3>2. CASE todo' = <<"curl">>
      BY <3>1, <3>2, Zenon
    <3>3. QED
      BY <1>2, <2>1, <3>2, Zenon
  <2>3. QED
    BY <1>0, <2>1, <2>2, Zenon DEF ThreadInv
<1>5. CASE TickStarts
  <2>1. clean' = clean /\ pc = "loop" /\ pc' \in {"tick", "crashed"} /\ pg_state' = pg_state
        /\ todo' \in {<<>>, PgCalls \o RedisCalls \o <<"curl">>}
    BY <1>5, Zenon DEF TickStarts, Crash, app, pg
  <2>2. Ordered
    <3>1. CASE todo' = PgCalls \o RedisCalls \o <<"curl">>
      BY <1>0, <2>1, <3>1, CallsOfTick, Zenon
    <3>2. QED
      BY <1>3, <2>1, <3>1
  <2>3. QED
    BY <1>0, <2>1, <2>2, Zenon DEF ThreadInv
<1>6. CASE TickEnds \/ Exit \/ LoopFails \/ Expires
  <2>1. Ordered
    BY <1>2, <1>6, Zenon DEF TickEnds, Exit, LoopFails, Expires, pg
  <2>2. flags' = flags /\ pc' \in {"loop", "exit"} /\ (clean' => pc' = "exit" /\ complete)
    <3>1. CASE Exit
      BY <3>1, Zenon DEF Exit
    <3>2. CASE TickEnds \/ LoopFails \/ Expires
      <4>1. flags' = flags /\ clean' = clean /\ pc \in {"loop", "tick"} /\ pc' \in {"loop", "exit"}
        BY <3>2, Zenon DEF TickEnds, LoopFails, Expires, app
      <4>2. QED
        BY <1>0, <4>1, Zenon DEF ThreadInv
    <3>3. QED
      BY <1>6, <3>1, <3>2, Zenon
  <2>3. QED
    BY <1>0, <2>1, <2>2, Zenon DEF ThreadInv, complete
<1>7. CASE PgConsume
  <2>1. clean' = clean /\ pc = "tick" /\ pc' = pc /\ todo # <<>>
        /\ todo' \in {Tail(todo), <<"pg_result">> \o Tail(todo)}
    BY <1>7, Zenon DEF PgConsume, Due
  <2>2. Ordered
    <3>1. CASE todo' = <<"pg_result">> \o Tail(todo)
      <4>1. PICK a \in Seq(Calls) : a = <<"pg_result">> /\ Len(a) = 1 /\ \A i \in 1 .. 1 : a[i] = "pg_result"
        <5>1. /\ <<"pg_result">> \in Seq(Calls) /\ Len(<<"pg_result">>) = 1
              /\ \A i \in 1 .. 1 : <<"pg_result">>[i] = "pg_result"
          BY DEF Calls
        <5>2. QED
          BY <5>1, Zenon
      <4>2. PICK b \in Seq(Calls) : b = Tail(todo) /\ \A i \in 1 .. Len(b) : b[i] # "pg_connect"
        BY <1>0, <2>1, CallOver, Zenon
      <4>3. /\ a \o b \in Seq(Calls) /\ Len(a \o b) = Len(a) + Len(b)
            /\ \A i \in 1 .. Len(a) : (a \o b)[i] = a[i]
            /\ \A i \in 1 .. Len(b) : (a \o b)[Len(a) + i] = b[i]
        BY ConcatFacts
      <4>4. \A i \in 1 .. Len(a \o b) : (a \o b)[i] # "pg_connect"
        <5> SUFFICES ASSUME NEW i \in 1 .. Len(a \o b) PROVE (a \o b)[i] # "pg_connect"
          OBVIOUS
        <5>1. CASE i = 1
          BY <4>1, <4>3, <5>1
        <5>2. CASE i # 1
          <6>1. i - 1 \in 1 .. Len(b) /\ Len(a) + (i - 1) = i
            BY <4>1, <4>3, <5>2
          <6>2. (a \o b)[i] = b[i - 1]
            BY <4>3, <6>1, Zenon
          <6>3. QED
            BY <4>2, <6>1, <6>2, Zenon
        <5>3. QED
          BY <5>1, <5>2, Zenon
      <4>5. todo' = a \o b
        BY <3>1, <4>1, <4>2, Zenon
      <4>6. QED
        BY <4>3, <4>4, <4>5, Zenon
    <3>2. QED
      BY <1>1, <2>1, <3>1, Zenon
  <2>3. QED
    BY <1>0, <2>1, <2>2, Zenon DEF ThreadInv
<1>8. CASE PgConnect \/ PgFlush \/ PgBusy \/ PgNull \/ CurlReturns \/ CurlRefused \/ RedisReadEnds \/ RedisWrite
  <2>1. clean' = clean /\ pc = "tick" /\ pc' = pc /\ todo # <<>> /\ todo' = Tail(todo)
    BY <1>8, Zenon DEF PgConnect, PgFlush, PgBusy, PgNull, CurlReturns, CurlRefused, RedisReadEnds,
       RedisWrite, Due, app
  <2>2. QED
    BY <1>0, <1>1, <2>1, Zenon DEF ThreadInv
<1>9. CASE RedisSkipped
  <2>1. clean' = clean /\ pc = "tick" /\ pc' \in {pc, "crashed"} /\ todo # <<>>
        /\ todo' \in {Tail(todo), <<>>}
    BY <1>9, Zenon DEF RedisSkipped, Due, app, Crash
  <2>2. QED
    BY <1>0, <1>1, <1>3, <2>1, Zenon DEF ThreadInv
<1>10. CASE RedisConnect \/ PgResult \/ RedisReply \/ CurlAsks \/ CurlEnds
            \/ PgServer \/ PgBreaks \/ RedisServer \/ RedisBreaks
  <2>1. clean' = clean /\ pc = "tick" /\ pc' = pc /\ todo # <<>> /\ pg_state' = pg_state
        /\ todo' \in {todo, Tail(todo)}
    BY <1>10, Zenon DEF RedisConnect, PgResult, RedisReply, CurlAsks, CurlEnds, PgServer, PgBreaks, RedisServer,
       RedisBreaks, Due, app, pg
  <2>2. QED
    BY <1>0, <1>1, <1>2, <2>1, Zenon DEF ThreadInv
<1>11. CASE Ended
  BY <1>0, <1>11, Zenon DEF Ended, vars, app, pg, ThreadInv, complete
<1>12. QED
  BY <1>4, <1>5, <1>6, <1>7, <1>8, <1>9, <1>10, <1>11, Zenon DEF Next, Thread, Environment
-----------------------------------------------------------------------------
(* libcurl. *)

\* The entry of a socket gets another action, or is given up.
LEMMA EntryChanges ==
    ASSUME Entries, NEW fd \in Sockets, slot[fd] # 0, NEW what \in Actions,
           want' = [want EXCEPT ![fd] = what],
           watches' = [watches EXCEPT ![slot[fd]].action = what],
           slot' = IF what = "none" THEN [slot EXCEPT ![fd] = 0] ELSE slot
    PROVE  Entries'
<1>0. /\ watches \in Seq(Entry) /\ Len(watches) \in Nat
      /\ want \in [Sockets -> Actions] /\ slot \in [Sockets -> 0 .. Len(watches)]
      /\ \A i \in 1 .. Len(watches) : watches[i] \in Entry
  BY Elements, Zenon DEF Entries
<1> DEFINE k == slot[fd]
           new == [watches[k] EXCEPT !.action = what]
<1>1. k \in 1 .. Len(watches) /\ watches[k] = [fd |-> fd, action |-> want[fd]]
  BY <1>0 DEF Entries
<1>2. new = [fd |-> fd, action |-> what] /\ new \in Entry /\ new.fd = fd /\ new.action = what
  BY <1>1 DEF Entry
<1>3. watches' = [watches EXCEPT ![k] = new]
  BY <1>0, <1>1, Zenon
<1> HIDE DEF new
<1>4. /\ watches' \in Seq(Entry) /\ Len(watches') = Len(watches)
      /\ \A i \in 1 .. Len(watches) : watches'[i] = IF i = k THEN new ELSE watches[i]
  BY <1>0, <1>1, <1>2, <1>3, ExceptFacts
<1>5. want' \in [Sockets -> Actions] /\ slot' \in [Sockets -> 0 .. Len(watches')]
  BY <1>0, <1>4
<1>6. \A s \in Sockets : slot'[s] = 0 <=> want'[s] = "none"
  BY <1>0, <1>1, Zenon DEF Entries
<1>7. \A s \in Sockets : slot'[s] # 0 => watches'[slot'[s]] = [fd |-> s, action |-> want'[s]]
  <2> SUFFICES ASSUME NEW s \in Sockets, slot'[s] # 0
               PROVE  watches'[slot'[s]] = [fd |-> s, action |-> want'[s]]
    OBVIOUS
  <2>1. slot'[s] = slot[s] /\ slot[s] \in 1 .. Len(watches)
    BY <1>0
  <2>2. CASE s = fd
    BY <1>0, <1>2, <1>4, <2>1, <2>2
  <2>3. CASE s # fd
    <3>1. watches[slot[s]].fd = s /\ watches[k].fd = fd
      <4>1. watches[slot[s]] = [fd |-> s, action |-> want[s]]
        BY <2>1, Zenon DEF Entries
      <4>2. QED
        BY <1>1, <4>1
    <3>3. slot[s] # k
      BY <2>3, <3>1, Zenon
    <3>4. QED
      BY <1>0, <1>4, <2>1, <2>3, <3>3, ZenonT(40) DEF Entries
  <2>4. QED
    BY <2>2, <2>3
<1>8. \A i \in 1 .. Len(watches') : watches'[i].action # "none" => slot'[watches'[i].fd] = i
  <2> SUFFICES ASSUME NEW i \in 1 .. Len(watches), watches'[i].action # "none"
               PROVE  slot'[watches'[i].fd] = i
    BY <1>4, Zenon
  <2>1. CASE i = k
    BY <1>0, <1>2, <1>4, <2>1, Zenon
  <2>2. CASE i # k
    <3>1. slot[watches[i].fd] = i /\ watches[i].fd \in Sockets /\ watches'[i] = watches[i]
      BY <1>0, <1>4, <2>2, Zenon DEF Entries, Entry
    <3>2. QED
      BY <1>0, <2>2, <3>1, Zenon
  <2>3. QED
    BY <2>1, <2>2, Zenon
<1>9. QED
  BY <1>4, <1>5, <1>6, <1>7, <1>8, Zenon DEF Entries

LEMMA EntriesAsk ==
    ASSUME Entries, NEW fd \in Sockets, on_curl_socket(fd)
    PROVE  Entries'
<1>0. /\ watches \in Seq(Entry) /\ Len(watches) \in Nat
      /\ want \in [Sockets -> Actions] /\ slot \in [Sockets -> 0 .. Len(watches)]
      /\ CurlSlots \in Nat
  BY CurlSlotsAssumption DEF Entries
<1>1. CASE PollRemove(fd)
  <2>1. slot[fd] \in 1 .. Len(watches) /\ slot[fd] # 0
    BY <1>0, <1>1 DEF PollRemove, Entries
  <2>2. /\ want' = [want EXCEPT ![fd] = "none"] /\ slot' = [slot EXCEPT ![fd] = 0]
        /\ watches' = [watches EXCEPT ![slot[fd]].action = "none"]
    BY <1>1, Zenon DEF PollRemove
  <2>3. QED
    BY <1>0, <2>1, <2>2, EntryChanges, Zenon DEF Actions
<1>2. ASSUME NEW what \in CurlActions, PollSet(fd, what) PROVE Entries'
  <2>1. CASE slot[fd] # 0
    <3>1. slot[fd] \in 1 .. Len(watches)
      BY <1>0, <2>1
    <3>2. /\ want' = [want EXCEPT ![fd] = what] /\ slot' = slot
          /\ watches' = [watches EXCEPT ![slot[fd]].action = what]
      BY <1>2, <2>1, Zenon DEF PollSet
    <3>3. QED
      BY <1>0, <2>1, <3>1, <3>2, EntryChanges, Zenon DEF Actions, CurlActions
  <2>2. CASE slot[fd] = 0
    <3> DEFINE new == [fd |-> fd, action |-> what]
    <3>1. /\ want' = [want EXCEPT ![fd] = what] /\ slot' = [slot EXCEPT ![fd] = Len(watches) + 1]
          /\ watches' = Append(watches, new) /\ ~(Len(watches) >= CurlSlots)
      BY <1>2, <2>2, Zenon DEF PollSet, Full
    <3>2. new \in Entry /\ new.fd = fd /\ new.action = what
      BY Zenon DEF Actions, Entry
    <3> HIDE DEF new
    <3>3. /\ watches' \in Seq(Entry) /\ Len(watches') = Len(watches) + 1
          /\ watches'[Len(watches) + 1] = new
          /\ \A i \in 1 .. Len(watches) : watches'[i] = watches[i]
      BY <1>0, <3>1, <3>2, AppendFacts
    <3>4. \A i \in 1 .. Len(watches) : watches[i] \in Entry
      BY <1>0, Elements, Zenon
    <3>5. QED
      BY <1>0, <2>2, <3>1, <3>2, <3>3, <3>4 DEF Entries, Actions, CurlActions, new
  <2>3. QED
    BY <2>1, <2>2, Zenon
<1>3. QED
  BY <1>1, <1>2, Zenon DEF on_curl_socket

LEMMA EntriesStep ==
    ASSUME SpikeInv, Next
    PROVE  Entries'
<1>0. Entries
  BY Zenon DEF SpikeInv
<1>1. CASE CurlAsks
  BY <1>0, <1>1, EntriesAsk, Zenon DEF CurlAsks
<1>2. CASE CurlEnds
  <2>1. /\ watches \in Seq(Entry) /\ Len(watches) \in Nat
        /\ DOMAIN watches = 1 .. Len(watches)
        /\ \A i \in 1 .. Len(watches) : watches[i] \in Entry
    BY <1>0, Elements DEF Entries
  <2>2. /\ want' = [fd \in Sockets |-> "none"] /\ slot' = [fd \in Sockets |-> 0]
        /\ watches' = [i \in 1 .. Len(watches) |-> [watches[i] EXCEPT !.action = "none"]]
    BY <1>2, <2>1, Zenon DEF CurlEnds
  <2>3. /\ watches' \in Seq(Entry) /\ Len(watches') = Len(watches)
        /\ \A i \in 1 .. Len(watches) : watches'[i].action = "none"
    <3> DEFINE Off(i) == [watches[i] EXCEPT !.action = "none"]
    <3>1. \A i \in 1 .. Len(watches) : Off(i) \in Entry /\ Off(i).action = "none"
      BY <2>1, Zenon DEF Actions, Entry
    <3>2. watches' = [i \in 1 .. Len(watches) |-> Off(i)]
      BY <2>2, Zenon
    <3> HIDE DEF Off
    <3>3. QED
      BY <2>1, <3>1, <3>2
  <2>4. QED
    BY <1>0, <2>2, <2>3 DEF Entries, Actions
<1>3. CASE UNCHANGED <<watches, want, slot>>
  BY <1>0, <1>3, Zenon DEF Entries
<1>4. QED
  BY <1>1, <1>2, <1>3, Zenon DEF Next, Thread, Environment, Ended, Setup, TickStarts, TickEnds, Exit,
     PgConnect, PgFlush, PgConsume, PgBusy, PgNull, PgResult, RedisSkipped, RedisConnect, RedisReply, RedisReadEnds,
     RedisWrite, CurlReturns, CurlRefused, curl, PgServer, PgBreaks, RedisServer, RedisBreaks, LoopFails, Expires, vars
-----------------------------------------------------------------------------
(* Redis. *)

\* What failed stays on record.
LEMMA FaultyGrows ==
    ASSUME Next
    PROVE  faulty \subseteq faulty'
<1>1. faulty' = faulty \/ \E part : faulty' = faulty \union {part}
  BY Zenon DEF Next, Thread, Environment, Ended, Setup, TickStarts, TickEnds, Exit,
     PgConnect, PgFlush, PgConsume, PgBusy, PgNull, PgResult, RedisSkipped, RedisConnect, RedisReply, RedisReadEnds,
     RedisWrite, CurlReturns, CurlRefused, CurlAsks, CurlEnds, PgServer, PgBreaks, RedisServer, RedisBreaks,
     LoopFails, Expires,
     Disconnect, Restart, start_redis, pg_send_initial, Send, Fail, NoFailure, vars
<1>2. QED
  BY <1>1, Zenon

\* A disconnect replaces the pointer, or Redis has failed.
LEMMA PointerDisconnects ==
    ASSUME Pointer, Connected, Disconnect, Ends \/ ~re_alive, pc' = pc
    PROVE  Pointer'
<1>0. /\ redis \in 1 .. 2 /\ generation \in 0 .. 2
      /\ link \in [1 .. 2 -> {"none", "connecting", "connected", "freed"}]
  BY DEF Pointer, Connected
<1>1. CASE Ends
  <2>1. redis = 1 /\ generation = 1
    BY <1>1, Zenon DEF Ends, Pointer
  <2>2. Restart([link EXCEPT ![1] = "freed"])
    BY <1>1, <2>1, Zenon DEF Disconnect
  <2>3. faulty \subseteq faulty'
    BY <2>2, Zenon DEF Restart, start_redis, NoFailure, Fail
  <2>4. generation' = 2 /\ redis' \in {0, 2} /\ link'[1] = "freed"
        /\ link' \in [1 .. 2 -> {"none", "connecting", "connected", "freed"}]
        /\ (redis' = 2 => link'[2] = "connecting" /\ re_alive' = TRUE)
    BY <1>0, <2>2 DEF Restart, start_redis
  <2>5. QED
    BY <2>3, <2>4 DEF Pointer, NoStaleContext
<1>2. CASE ~Ends
  <2>1. link' = [link EXCEPT ![redis] = "freed"] /\ redis' = redis /\ generation' = generation
        /\ faulty \subseteq faulty'
    BY <1>2, Zenon DEF Disconnect, NoFailure, Fail
  <2>2. "redis" \in faulty
    BY <1>0, <1>2 DEF Pointer
  <2>3. QED
    BY <1>0, <2>1, <2>2 DEF Pointer, NoStaleContext
<1>3. QED
  BY <1>1, <1>2, Zenon

LEMMA PointerStep ==
    ASSUME SpikeInv, Next
    PROVE  Pointer'
<1>0. Pointer /\ faulty \subseteq faulty'
  BY FaultyGrows, Zenon DEF SpikeInv
<1>1. CASE Setup
  <2>1. pc' \in {"tick", "exit"}
    BY <1>1, Zenon DEF Setup
  <2>2. CASE UNCHANGED <<redis, generation, link, re_alive>>
    BY <1>0, <2>1, <2>2, Zenon DEF Pointer, NoStaleContext
  <2>3. CASE generation' = 1 /\ redis' = 1 /\ link' = [link EXCEPT ![1] = "connecting"] /\ re_alive' = TRUE
    BY <1>0, <2>1, <2>3 DEF Pointer, NoStaleContext
  <2>4. QED
    BY <1>1, <2>2, <2>3, Zenon DEF Setup
<1>2. CASE TickStarts \/ RedisSkipped
  <2>1. UNCHANGED hiredis /\ (pc' = "crashed" => redis # 0 /\ link[redis] = "freed")
    BY <1>2, Zenon DEF TickStarts, RedisSkipped, Crash, Due
  <2>2. QED
    BY <1>0, <2>1, Zenon DEF Pointer, NoStaleContext, hiredis
<1>3. CASE RedisConnect
  <2>1. /\ redis # 0 /\ link[redis] = "connecting" /\ pc' = pc
        /\ redis' = redis /\ generation' = generation /\ re_alive' = re_alive
        /\ \/ link' = link
           \/ link' = [link EXCEPT ![redis] = "connected"]
           \/ link' = [link EXCEPT ![redis] = "freed"] /\ "redis" \in faulty'
    BY <1>3, Zenon DEF RedisConnect, Fail
  <2>2. QED
    BY <1>0, <2>1 DEF Pointer, NoStaleContext
<1>4. CASE RedisReadEnds
  <2>1. Connected /\ pc' = pc
    BY <1>4, Zenon DEF RedisReadEnds
  <2>2. CASE UNCHANGED hiredis
    BY <1>0, <2>1, <2>2, Zenon DEF Pointer, NoStaleContext, hiredis
  <2>3. CASE Disconnect /\ (Ends \/ ~re_alive)
    BY <1>0, <2>1, <2>3, PointerDisconnects, Zenon
  <2>4. QED
    BY <1>4, <2>2, <2>3, Zenon DEF RedisReadEnds
<1>5. CASE RedisWrite
  <2>1. Connected /\ pc' = pc
    BY <1>5, Zenon DEF RedisWrite
  <2>2. CASE UNCHANGED <<redis, generation, link, re_alive>>
    BY <1>0, <2>1, <2>2 DEF Pointer, NoStaleContext
  <2>3. CASE Disconnect /\ ~re_alive
    BY <1>0, <2>1, <2>3, PointerDisconnects, Zenon
  <2>4. QED
    BY <1>5, <2>2, <2>3, Zenon DEF RedisWrite
<1>6. CASE RedisBreaks
  BY <1>0, <1>6 DEF RedisBreaks, Pointer, NoStaleContext
<1>7. CASE /\ pc' \in {pc, "loop", "exit"}
           /\ UNCHANGED <<redis, generation, link, re_alive>>
  BY <1>0, <1>7, Zenon DEF Pointer, NoStaleContext
<1>8. QED
  BY <1>1, <1>2, <1>3, <1>4, <1>5, <1>6, <1>7, Zenon DEF Next, Thread, Environment, Ended, TickEnds, Exit,
     PgConnect, PgFlush, PgConsume, PgBusy, PgNull, PgResult, RedisReply, CurlReturns, CurlRefused, CurlAsks, CurlEnds,
     PgServer, PgBreaks, RedisServer, LoopFails, Expires, vars, hiredis

\* What the servers did stays on record.
LEMMA DoneGrows ==
    ASSUME Next
    PROVE  done \subseteq done'
<1>1. done' = done \/ \E what : done' = done \union {what}
  BY Zenon DEF Next, Thread, Environment, Ended, Setup, TickStarts, TickEnds, Exit,
     PgConnect, PgFlush, PgConsume, PgBusy, PgNull, PgResult, RedisSkipped, RedisConnect, RedisReply, RedisReadEnds,
     RedisWrite, CurlReturns, CurlRefused, CurlAsks, CurlEnds, PgServer, PgBreaks, RedisServer, RedisBreaks,
     LoopFails, Expires, vars
<1>2. QED
  BY <1>1, Zenon

\* The evidence from Redis and libcurl that the step adds, with its reason.
Founded ==
    /\ "redis_roundtrip" \in flags' => "GET" \in done'
    /\ "redis_recovered" \in flags' => "PING" \in done'
    /\ "redis_disconnect" \in flags' => generation' = 2
    /\ "curl_roundtrip" \in flags' => "http" \in done'

\* No queue of Redis changes.
LEMMA AnsweredQuiet ==
    ASSUME Answered, done \subseteq done', Founded,
           UNCHANGED <<obuf, re_sent, re_socket>>
    PROVE  Answered'
  BY Zenon DEF Answered, Founded

LEMMA AnsweredDisconnects ==
    ASSUME Answered, done' = done, Disconnect
    PROVE  Answered'
<1>1. obuf' = <<>> /\ re_sent' = <<>> /\ re_socket' = <<>>
  BY Zenon DEF Disconnect
<1>2. \/ flags' = flags /\ generation' = generation
      \/ flags' = flags \union {"redis_disconnect"} /\ generation' = 2
  BY Zenon DEF Disconnect, Restart
<1>3. Founded
  BY <1>2 DEF Answered, Founded
<1>4. QED
  BY <1>1, <1>3 DEF Answered, Founded

LEMMA AnsweredStep ==
    ASSUME SpikeInv, Next
    PROVE  Answered'
<1>0. Answered /\ done \subseteq done'
  BY DoneGrows, Zenon DEF SpikeInv
<1>1. CASE Setup
  <2>1. UNCHANGED <<obuf, re_sent, re_socket>>
        /\ (flags' = exercise_queue \/ (flags' = flags /\ generation' = generation))
    BY <1>1, Zenon DEF Setup
  <2>2. "redis_roundtrip" \notin exercise_queue /\ "redis_recovered" \notin exercise_queue
        /\ "redis_disconnect" \notin exercise_queue /\ "curl_roundtrip" \notin exercise_queue
    BY Zenon DEF exercise_queue
  <2>3. Founded
    BY <1>0, <2>1, <2>2 DEF Answered, Founded
  <2>4. QED
    BY <1>0, <2>1, <2>3, AnsweredQuiet, Zenon
<1>2. CASE PgResult
  <2>1. UNCHANGED <<obuf, re_sent, re_socket, generation>> /\ flags' = flags \union Seen(Result)
    BY <1>2, Zenon DEF PgResult, hiredis
  <2>2. "redis_roundtrip" \notin Seen(Result) /\ "redis_recovered" \notin Seen(Result)
        /\ "redis_disconnect" \notin Seen(Result) /\ "curl_roundtrip" \notin Seen(Result)
    BY Zenon DEF Seen
  <2>3. Founded
    BY <1>0, <2>1, <2>2, Zenon DEF Answered, Founded
  <2>4. QED
    BY <1>0, <2>1, <2>3, AnsweredQuiet
<1>3. CASE CurlEnds
  <2>1. UNCHANGED <<obuf, re_sent, re_socket, generation>>
        /\ (flags' = flags \/ (flags' = flags \union {"curl_roundtrip"} /\ done' = done \union {"http"}))
    BY <1>3, Zenon DEF CurlEnds, hiredis
  <2>2. Founded
    BY <1>0, <2>1, Zenon DEF Answered, Founded
  <2>3. QED
    BY <1>0, <2>1, <2>2, AnsweredQuiet, Zenon
<1>4. CASE RedisConnect
  <2>1. UNCHANGED <<flags, generation, re_sent, re_socket>> /\ obuf' \in {obuf, Commands}
    BY <1>4, Zenon DEF RedisConnect
  <2>2. <<"SET", "GET">> \in Seq(RedisCommands) /\ <<"PING">> \in Seq(RedisCommands)
    BY DEF RedisCommands
  <2>3. obuf' \in Seq(RedisCommands)
    BY <1>0, <2>1, <2>2, Zenon DEF Answered, Commands
  <2>4. QED
    BY <1>0, <2>1, <2>3, Zenon DEF Answered
<1>5. CASE RedisReply
  <2>1. /\ UNCHANGED <<obuf, re_sent, generation>> /\ re_socket' = Tail(re_socket)
        /\ flags' = flags \union Noted(Head(calls), Head(re_socket))
        /\ re_socket \in Seq(RedisAnswers) /\ Len(re_socket) \in Nat /\ Len(re_socket) > 0
    BY <1>0, <1>5 DEF RedisReply, Answered
  <2>2. /\ re_socket' \in Seq(RedisAnswers) /\ Len(re_socket') = Len(re_socket) - 1
        /\ Head(re_socket) = re_socket[1]
        /\ \A i \in 1 .. Len(re_socket) - 1 : re_socket'[i] = re_socket[i + 1]
    BY <2>1, TailFacts, Zenon
  <2>3. /\ "redis_roundtrip" \in Noted(Head(calls), Head(re_socket)) => re_socket[1] = "alpha"
        /\ "redis_recovered" \in Noted(Head(calls), Head(re_socket)) => re_socket[1] = "PONG"
        /\ "redis_disconnect" \notin Noted(Head(calls), Head(re_socket))
        /\ "curl_roundtrip" \notin Noted(Head(calls), Head(re_socket))
    BY <2>2, Zenon DEF Noted
  <2>4. Founded
    BY <1>0, <2>1, <2>3 DEF Answered, Founded
  <2>5. \A i \in 1 .. Len(re_socket') : /\ re_socket'[i] = "alpha" => "GET" \in done'
                                        /\ re_socket'[i] = "PONG" => "PING" \in done'
    BY <1>0, <2>1, <2>2 DEF Answered
  <2>6. QED
    BY <1>0, <2>1, <2>2, <2>4, <2>5, Zenon DEF Answered, Founded
<1>6. CASE RedisReadEnds
  <2>1. done' = done /\ (Disconnect \/ UNCHANGED <<flags, hiredis>>)
    BY <1>6, Zenon DEF RedisReadEnds
  <2>2. QED
    BY <1>0, <2>1, AnsweredDisconnects, Zenon DEF Answered, hiredis
<1>7. CASE RedisWrite
  <2>1. CASE Disconnect
    BY <1>0, <1>7, <2>1, AnsweredDisconnects, Zenon DEF RedisWrite
  <2>2. CASE ~Disconnect
    <3>1. /\ UNCHANGED <<flags, generation, re_socket>> /\ obuf' = <<>>
          /\ re_sent' \in {<<>>, re_sent \o obuf}
      BY <1>7, <2>2, Zenon DEF RedisWrite
    <3>2. re_sent \o obuf \in Seq(RedisCommands) /\ <<>> \in Seq(RedisCommands)
      BY <1>0, ConcatFacts DEF Answered
    <3>3. QED
      BY <1>0, <3>1, <3>2, Zenon DEF Answered
  <2>3. QED
    BY <2>1, <2>2, Zenon
<1>8. CASE RedisServer
  <2>1. /\ UNCHANGED <<flags, generation, obuf>> /\ re_sent' = Tail(re_sent)
        /\ re_sent \in Seq(RedisCommands) /\ Len(re_sent) \in Nat /\ Len(re_sent) > 0
        /\ re_socket \in Seq(RedisAnswers) /\ Len(re_socket) \in Nat
    BY <1>0, <1>8 DEF RedisServer, Answered
  <2>2. re_sent' \in Seq(RedisCommands) /\ Head(re_sent) \in RedisCommands
    BY <2>1, TailFacts, Zenon
  <2>3. PICK e \in RedisAnswers :
            /\ re_socket' = Append(re_socket, e)
            /\ e = "alpha" => "GET" \in done'
            /\ e = "PONG" => "PING" \in done'
    <3>1. Good[Head(re_sent)] \in RedisAnswers
          /\ (Good[Head(re_sent)] = "alpha" => Head(re_sent) = "GET")
          /\ (Good[Head(re_sent)] = "PONG" => Head(re_sent) = "PING")
      BY <2>2 DEF Good, RedisCommands, RedisAnswers
    <3>2. \/ re_socket' = Append(re_socket, Good[Head(re_sent)]) /\ done' = done \union {Head(re_sent)}
          \/ re_socket' = Append(re_socket, "other")
      BY <1>8, Zenon DEF RedisServer
    <3>3. QED
      BY <3>1, <3>2, Zenon DEF RedisAnswers
  <2>4. /\ re_socket' \in Seq(RedisAnswers) /\ Len(re_socket') = Len(re_socket) + 1
        /\ re_socket'[Len(re_socket) + 1] = e
        /\ \A i \in 1 .. Len(re_socket) : re_socket'[i] = re_socket[i]
    <3>1. /\ Append(re_socket, e) \in Seq(RedisAnswers) /\ Len(Append(re_socket, e)) = Len(re_socket) + 1
          /\ Append(re_socket, e)[Len(re_socket) + 1] = e
          /\ \A i \in 1 .. Len(re_socket) : Append(re_socket, e)[i] = re_socket[i]
      BY <2>1, AppendFacts
    <3>2. QED
      BY <2>3, <3>1, Zenon
  <2>5. \A i \in 1 .. Len(re_socket') : /\ re_socket'[i] = "alpha" => "GET" \in done'
                                        /\ re_socket'[i] = "PONG" => "PING" \in done'
    <3> SUFFICES ASSUME NEW i \in 1 .. Len(re_socket')
                 PROVE  /\ re_socket'[i] = "alpha" => "GET" \in done'
                        /\ re_socket'[i] = "PONG" => "PING" \in done'
      OBVIOUS
    <3>1. CASE i = Len(re_socket) + 1
      BY <2>3, <2>4, <3>1, Zenon
    <3>2. CASE i # Len(re_socket) + 1
      <4>1. i \in 1 .. Len(re_socket)
        BY <2>1, <2>4, <3>2
      <4>2. re_socket'[i] = re_socket[i]
        BY <2>4, <4>1, Zenon
      <4>3. QED
        BY <1>0, <4>1, <4>2, Zenon DEF Answered
    <3>3. QED
      BY <3>1, <3>2, Zenon
  <2>6. QED
    BY <1>0, <2>1, <2>2, <2>4, <2>5, Zenon DEF Answered
<1>9. CASE RedisBreaks
  <2>1. UNCHANGED <<flags, done, generation, obuf>> /\ re_sent' = <<>> /\ re_socket' \in {re_socket, <<>>}
    BY <1>9, Zenon DEF RedisBreaks
  <2>2. CASE re_socket' = <<>>
    BY <1>0, <2>1, <2>2 DEF Answered
  <2>3. QED
    BY <1>0, <2>1, <2>2 DEF Answered
<1>10. CASE UNCHANGED <<flags, hiredis>>
  BY <1>0, <1>10 DEF Answered, hiredis
<1>11. QED
  BY <1>1, <1>2, <1>3, <1>4, <1>5, <1>6, <1>7, <1>8, <1>9, <1>10, Zenon DEF Next, Thread, Environment, Ended,
     TickStarts, TickEnds, Exit, PgConnect, PgFlush, PgConsume, PgBusy, PgNull, RedisSkipped, CurlReturns,
     CurlRefused, CurlAsks,
     PgServer, PgBreaks, LoopFails, Expires, vars
-----------------------------------------------------------------------------
(* PostgreSQL. *)

\* The queues, and the answer 42 in them only after the server gave it.
PgTyped ==
    /\ pg_state \in {0, 2, 3}
    /\ pg_sent \in Seq(PgCommands) /\ out \in Seq(PgCommands)
    /\ pg_socket \in Seq(PgAnswers) /\ buffered \in Seq(PgAnswers)
    /\ Len(pg_sent) \in Nat /\ Len(out) \in Nat /\ Len(pg_socket) \in Nat /\ Len(buffered) \in Nat

LEMMA PgTypes ==
    ASSUME PgProgress
    PROVE  PgTyped
  BY DEF PgProgress, PgTyped

\* Before the connection is established nothing is queued, sent or done.
LEMMA NothingSent ==
    ASSUME PgTyped, pg_state = 0, NEW k \in 0 .. 6, Remaining(k)
    PROVE  k = 0 /\ pg_sent = <<>> /\ out = <<>> /\ skipping = FALSE
<1>1. Len(pg_sent) = 0 /\ Len(out) = 0 /\ k = 0
  BY DEF PgTyped, Remaining, Sent
<1>2. QED
  BY <1>1 DEF PgTyped, Remaining

\* What the server did, apart from an action of its own.
LEMMA SameDone ==
    ASSUME \A a \in PgAnswers \union {"skipped"} : a \in done' <=> a \in done,
           NEW k \in 0 .. 6, DoneBy(k)
    PROVE  DoneBy(k)'
  BY Zenon DEF DoneBy, PgAnswers

\* A step that leaves the exchange with PostgreSQL alone.
LEMMA PgQuiet ==
    ASSUME PgProgress, UNCHANGED <<pg_state, pg_sent, out, pg_socket, buffered, pg_alive, skipping>>,
           \A a \in PgAnswers \union {"skipped"} : a \in done' <=> a \in done,
           "pg_recovered" \in flags' => "pg_recovered" \in flags
    PROVE  PgProgress'
<1>1. PICK k \in 0 .. 6 : DoneBy(k) /\ (pg_alive \/ pg_state = 0 => Remaining(k))
  BY Zenon DEF PgProgress
<1>2. DoneBy(k)'
  BY <1>1, SameDone, Zenon
<1>3. (pg_alive \/ pg_state = 0 => Remaining(k))'
  BY <1>1, Zenon DEF Remaining
<1>4. "row42" \in done' <=> "row42" \in done
  BY Zenon DEF PgAnswers
<1>5. QED
  BY <1>2, <1>3, <1>4, Zenon DEF PgProgress

\* Two parts of a program, one after the other, are a part of it.
LEMMA Joined ==
    ASSUME NEW S, NEW a \in Seq(S), NEW b \in Seq(S), NEW P, NEW from \in Nat,
           \A i \in 1 .. Len(a) : a[i] = P[from + i],
           \A i \in 1 .. Len(b) : b[i] = P[from + Len(a) + i]
    PROVE  /\ a \o b \in Seq(S) /\ Len(a \o b) = Len(a) + Len(b)
           /\ \A i \in 1 .. Len(a) + Len(b) : (a \o b)[i] = P[from + i]
<1>1. /\ a \o b \in Seq(S) /\ Len(a \o b) = Len(a) + Len(b)
      /\ \A i \in 1 .. Len(a) : (a \o b)[i] = a[i]
      /\ \A i \in 1 .. Len(b) : (a \o b)[Len(a) + i] = b[i]
  BY ConcatFacts
<1>2. Len(a) \in Nat /\ Len(b) \in Nat
  OBVIOUS
<1> SUFFICES ASSUME NEW i \in 1 .. Len(a) + Len(b) PROVE (a \o b)[i] = P[from + i]
  BY <1>1, Zenon
<1>3. CASE i <= Len(a)
  BY <1>1, <1>2, <1>3
<1>4. CASE i > Len(a)
  <2>1. i - Len(a) \in 1 .. Len(b) /\ Len(a) + (i - Len(a)) = i /\ from + Len(a) + (i - Len(a)) = from + i
    BY <1>2, <1>4
  <2>2. QED
    BY <1>1, <2>1
<1>5. QED
  BY <1>2, <1>3, <1>4

\* The two batches are the program.
LEMMA Batches ==
    /\ <<"one", "bad", "two", "sync">> \in Seq(PgCommands) /\ Len(<<"one", "bad", "two", "sync">>) = 4
    /\ \A i \in 1 .. 4 : <<"one", "bad", "two", "sync">>[i] = Program[i]
    /\ <<"last", "sync">> \in Seq(PgCommands) /\ Len(<<"last", "sync">>) = 2
    /\ \A i \in 1 .. 2 : <<"last", "sync">>[i] = Program[4 + i]
  BY DEF Program, PgCommands

\* pg_ready: the connection is there, and the first batch is queued.
LEMMA PgConnectStep ==
    ASSUME SpikeInv, PgConnect
    PROVE  PgProgress'
<1>0. PgProgress /\ PgTyped /\ pg_state = 0
  <2>1. ThreadInv /\ PgProgress /\ todo # <<>> /\ Head(todo) = "pg_connect"
    BY Zenon DEF SpikeInv, PgConnect, Due
  <2>2. QED
    BY <2>1, CallOver, PgTypes, Zenon
<1>1. PICK k \in 0 .. 6 : DoneBy(k) /\ Remaining(k)
  BY <1>0, Zenon DEF PgProgress
<1>2. k = 0 /\ pg_sent = <<>> /\ out = <<>> /\ skipping = FALSE
  BY <1>0, <1>1, NothingSent, Zenon
<1>3. UNCHANGED <<pg_sent, pg_socket, buffered, skipping, done, flags>>
  BY Zenon DEF PgConnect
<1>4. DoneBy(k)'
  BY <1>1, <1>3, Zenon DEF DoneBy
<1>5. CASE pg_state' = pg_state /\ out' = out
  <2>1. Remaining(k)'
    BY <1>1, <1>3, <1>5 DEF Remaining
  <2>2. QED
    BY <1>0, <1>3, <1>4, <1>5, <2>1, Zenon DEF PgProgress
<1>6. CASE pg_state' = 2 /\ out' = out \o <<"one", "bad", "two", "sync">>
  <2>1. PICK batch \in Seq(PgCommands) :
            /\ batch = <<"one", "bad", "two", "sync">>
            /\ Len(batch) = 4 /\ \A i \in 1 .. 4 : batch[i] = Program[i]
    BY Batches, Zenon
  <2>2. out' = batch
    BY <1>2, <1>6, <2>1
  <2>3. Remaining(k)'
    BY <1>2, <1>3, <1>6, <2>1, <2>2 DEF Remaining, Sent
  <2>4. QED
    BY <1>0, <1>3, <1>4, <1>6, <2>2, <2>3, Zenon DEF PgProgress
<1>7. QED
  BY <1>5, <1>6, Zenon DEF PgConnect, pg_send_initial, Send

\* PQflush: what was queued is on its way.
LEMMA PgFlushStep ==
    ASSUME SpikeInv, PgFlush
    PROVE  PgProgress'
<1>0. PgProgress /\ PgTyped
  BY PgTypes, Zenon DEF SpikeInv
<1>1. PICK k \in 0 .. 6 : DoneBy(k) /\ (pg_alive \/ pg_state = 0 => Remaining(k))
  BY <1>0, Zenon DEF PgProgress
<1>2. /\ UNCHANGED <<pg_state, pg_socket, buffered, skipping, pg_alive, done, flags>> /\ out' = <<>>
      /\ pg_sent' = IF pg_alive THEN pg_sent \o out ELSE pg_sent
  BY Zenon DEF PgFlush, pg
<1>3. DoneBy(k)'
  BY <1>1, <1>2, Zenon DEF DoneBy
<1>4. ASSUME pg_alive \/ pg_state = 0 PROVE Remaining(k)'
  <2>1. CASE pg_alive
    <3>1. pg_sent' = pg_sent \o out
      BY <1>2, <2>1, Zenon
    <3>2. /\ Len(pg_sent') = Len(pg_sent) + Len(out)
          /\ \A i \in 1 .. Len(pg_sent) + Len(out) : pg_sent'[i] = Program[k + i]
      <4>1. /\ pg_sent \in Seq(PgCommands) /\ out \in Seq(PgCommands) /\ k \in Nat
            /\ \A i \in 1 .. Len(pg_sent) : pg_sent[i] = Program[k + i]
            /\ \A i \in 1 .. Len(out) : out[i] = Program[k + Len(pg_sent) + i]
        BY <1>0, <1>1, <1>4 DEF PgTyped, Remaining
      <4>2. QED
        BY <3>1, <4>1, Joined
    <3>3. QED
      BY <1>0, <1>1, <1>2, <1>4, <3>2, SMTT(30) DEF PgTyped, Remaining, Sent
  <2>2. CASE ~pg_alive
    <3>1. pg_sent' = pg_sent /\ out' = out
      BY <1>0, <1>1, <1>2, <1>4, <2>2, NothingSent, Zenon
    <3>2. QED
      BY <1>1, <1>2, <1>4, <3>1, Zenon DEF Remaining
  <2>3. QED
    BY <2>1, <2>2, Zenon
<1>5. pg_sent' \in Seq(PgCommands) /\ out' \in Seq(PgCommands)
  BY <1>0, <1>2, ConcatFacts DEF PgTyped
<1>6. QED
  BY <1>0, <1>2, <1>3, <1>4, <1>5, Zenon DEF PgProgress

\* A NULL: the recovery query is queued behind the first batch.
LEMMA PgNullStep ==
    ASSUME SpikeInv, PgNull
    PROVE  PgProgress'
<1>0. PgProgress /\ PgTyped
  BY PgTypes, Zenon DEF SpikeInv
<1>1. PICK k \in 0 .. 6 : DoneBy(k) /\ (pg_alive \/ pg_state = 0 => Remaining(k))
  BY <1>0, Zenon DEF PgProgress
<1>2. UNCHANGED <<pg_sent, pg_socket, buffered, skipping, pg_alive, done, flags>>
  BY Zenon DEF PgNull
<1>3. DoneBy(k)'
  BY <1>1, <1>2, Zenon DEF DoneBy
<1>4. CASE pg_state' = pg_state /\ out' = out
  <2>1. pg_alive \/ pg_state = 0 => Remaining(k)'
    BY <1>1, <1>2, <1>4, Zenon DEF Remaining
  <2>2. QED
    BY <1>0, <1>2, <1>3, <1>4, <2>1, Zenon DEF PgProgress
<1>5. CASE pg_state = 2 /\ pg_state' = 3 /\ out' = out \o <<"last", "sync">>
  <2>1. PICK batch \in Seq(PgCommands) :
            /\ batch = <<"last", "sync">>
            /\ Len(batch) = 2 /\ \A i \in 1 .. 2 : batch[i] = Program[4 + i]
    BY Batches, Zenon
  <2>2. out' = out \o batch
    BY <1>5, <2>1, Zenon
  <2>3. out' \in Seq(PgCommands)
    BY <1>0, <2>2, ConcatFacts, Zenon DEF PgTyped
  <2>4. ASSUME pg_alive PROVE Remaining(k)'
    <3>1. k + Len(pg_sent) + Len(out) = 4 /\ k + Len(pg_sent) \in Nat
          /\ \A i \in 1 .. Len(out) : out[i] = Program[k + Len(pg_sent) + i]
      <4>1. Remaining(k) /\ Len(pg_sent) \in Nat /\ Len(out) \in Nat
        BY <1>0, <1>1, <2>4, Zenon DEF PgTyped
      <4>2. Len(pg_sent) + Len(out) = 4 - k
        BY <1>5, <4>1 DEF Remaining, Sent
      <4>3. \A i \in 1 .. Len(out) : out[i] = Program[k + Len(pg_sent) + i]
        BY <4>1, Zenon DEF Remaining
      <4>4. k + Len(pg_sent) + Len(out) = 4 /\ k + Len(pg_sent) \in Nat
        BY <1>1, <4>1, <4>2
      <4>5. QED
        BY <4>3, <4>4, Zenon
    <3>2. \A i \in 1 .. Len(batch) : batch[i] = Program[(k + Len(pg_sent)) + Len(out) + i]
      BY <2>1, <3>1, Zenon
    <3>3. /\ Len(out') = Len(out) + 2
          /\ \A i \in 1 .. Len(out) + 2 : out'[i] = Program[k + Len(pg_sent) + i]
      <4>1. out \in Seq(PgCommands) /\ batch \in Seq(PgCommands) /\ k + Len(pg_sent) \in Nat
        BY <1>0, <3>1, Zenon DEF PgTyped
      <4>2. /\ Len(out \o batch) = Len(out) + Len(batch)
            /\ \A i \in 1 .. Len(out) + Len(batch) : (out \o batch)[i] = Program[k + Len(pg_sent) + i]
        BY <3>1, <3>2, <4>1, Joined
      <4>3. QED
        BY <2>1, <2>2, <4>2, Zenon
    <3>4. Len(pg_sent') + Len(out') = Sent(pg_state)' - k
      <4>1. Sent(pg_state)' = 6 /\ Len(pg_sent') = Len(pg_sent)
        BY <1>2, <1>5 DEF Sent
      <4>2. Len(pg_sent) \in Nat /\ Len(out) \in Nat
        BY <1>0, Zenon DEF PgTyped
      <4>3. Len(out') = Len(out) + 2 /\ k + Len(pg_sent) + Len(out) = 4
        BY <3>1, <3>3, Zenon
      <4>4. QED
        BY <1>1, <4>1, <4>2, <4>3
    <3>5. QED
      BY <1>1, <1>2, <2>4, <3>3, <3>4 DEF Remaining
  <2>5. pg_state' # 0
    BY <1>5
  <2>6. (pg_alive \/ pg_state = 0 => Remaining(k))'
    BY <1>2, <2>4, <2>5, Zenon
  <2>7. QED
    BY <1>0, <1>2, <1>3, <1>5, <2>3, <2>6, Zenon DEF PgProgress
<1>6. QED
  BY <1>4, <1>5, Zenon DEF PgNull, Send

\* PQconsumeInput: the answers move from the socket to libpq's buffer.
LEMMA PgConsumeStep ==
    ASSUME SpikeInv, PgConsume
    PROVE  PgProgress'
<1>0. PgProgress /\ PgTyped
  BY PgTypes, Zenon DEF SpikeInv
<1>1. PICK k \in 0 .. 6 : DoneBy(k) /\ (pg_alive \/ pg_state = 0 => Remaining(k))
  BY <1>0, Zenon DEF PgProgress
<1>2. /\ UNCHANGED <<pg_state, out, pg_sent, skipping, pg_alive, done, flags>>
      /\ pg_socket' = <<>> /\ buffered' = buffered \o pg_socket
  BY Zenon DEF PgConsume
<1>3. DoneBy(k)' /\ (pg_alive \/ pg_state = 0 => Remaining(k)')
  BY <1>1, <1>2, Zenon DEF DoneBy, Remaining
<1>4. /\ buffered' \in Seq(PgAnswers) /\ Len(buffered') = Len(buffered) + Len(pg_socket)
      /\ \A i \in 1 .. Len(buffered) : buffered'[i] = buffered[i]
      /\ \A i \in 1 .. Len(pg_socket) : buffered'[Len(buffered) + i] = pg_socket[i]
  BY <1>0, <1>2, ConcatFacts DEF PgTyped
<1>5. \A i \in 1 .. Len(buffered') : buffered'[i] = "row42" => "row42" \in done'
  <2> SUFFICES ASSUME NEW i \in 1 .. Len(buffered'), buffered'[i] = "row42" PROVE "row42" \in done
    BY <1>2, Zenon
  <2>1. CASE i <= Len(buffered)
    BY <1>0, <1>4, <2>1 DEF PgTyped, PgProgress
  <2>2. CASE i > Len(buffered)
    <3>1. i - Len(buffered) \in 1 .. Len(pg_socket) /\ Len(buffered) + (i - Len(buffered)) = i
      BY <1>0, <1>4, <2>2 DEF PgTyped
    <3>2. buffered'[i] = pg_socket[i - Len(buffered)]
      BY <1>4, <3>1, Zenon
    <3>3. QED
      BY <1>0, <3>1, <3>2, Zenon DEF PgProgress
  <2>3. QED
    BY <1>0, <1>4, <2>1, <2>2 DEF PgTyped
<1>6. QED
  BY <1>0, <1>2, <1>3, <1>4, <1>5, SMTT(30) DEF PgProgress

\* PQgetResult: the flag for the recovery query comes with the row of it.
LEMMA PgResultStep ==
    ASSUME SpikeInv, PgResult
    PROVE  PgProgress'
<1>0. PgProgress /\ PgTyped
  BY PgTypes, Zenon DEF SpikeInv
<1>1. PICK k \in 0 .. 6 : DoneBy(k) /\ (pg_alive \/ pg_state = 0 => Remaining(k))
  BY <1>0, Zenon DEF PgProgress
<1>2. /\ UNCHANGED <<pg_state, out, pg_sent, pg_socket, skipping, pg_alive, done>>
      /\ flags' = flags \union Seen(Result)
      /\ Skips \/ buffered # <<>>
      /\ buffered' = IF Skips THEN buffered ELSE Tail(buffered)
  BY Zenon DEF PgResult
<1>3. DoneBy(k)' /\ (pg_alive \/ pg_state = 0 => Remaining(k)')
  BY <1>1, <1>2, Zenon DEF DoneBy, Remaining
<1>4. "pg_recovered" \in Seen(Result) => Result = "row42"
  BY Zenon DEF Seen
<1>5. CASE Skips
  <2>1. Result = "aborted" /\ buffered' = buffered
    BY <1>2, <1>5, Zenon DEF Result
  <2>2. QED
    BY <1>0, <1>2, <1>3, <1>4, <2>1, Zenon DEF PgProgress
<1>6. CASE ~Skips
  <2>1. Result = Head(buffered) /\ buffered' = Tail(buffered) /\ Len(buffered) > 0
    BY <1>0, <1>2, <1>6 DEF Result, PgTyped
  <2>2. /\ buffered' \in Seq(PgAnswers) /\ Len(buffered') = Len(buffered) - 1
        /\ Head(buffered) = buffered[1]
        /\ \A i \in 1 .. Len(buffered) - 1 : buffered'[i] = buffered[i + 1]
    BY <1>0, <2>1, TailFacts, Zenon DEF PgTyped
  <2>3. \A i \in 1 .. Len(buffered') : buffered'[i] = "row42" => "row42" \in done
    BY <1>0, <2>2 DEF PgTyped, PgProgress
  <2>4. Result = "row42" => "row42" \in done
    BY <1>0, <2>1, <2>2 DEF PgTyped, PgProgress
  <2>5. "pg_recovered" \in flags' => "row42" \in done'
    BY <1>0, <1>2, <1>4, <2>4, Zenon DEF PgProgress
  <2>6. QED
    BY <1>0, <1>2, <1>3, <2>2, <2>3, <2>5, Zenon DEF PgProgress
<1>7. QED
  BY <1>5, <1>6

\* An answer more on the socket.
LEMMA AnswerFollows ==
    ASSUME PgProgress, NEW e \in PgAnswers, pg_socket' = Append(pg_socket, e),
           done \subseteq done', e = "row42" => "row42" \in done'
    PROVE  /\ pg_socket' \in Seq(PgAnswers)
           /\ \A i \in 1 .. Len(pg_socket') : pg_socket'[i] = "row42" => "row42" \in done'
<1>1. pg_socket \in Seq(PgAnswers) /\ Len(pg_socket) \in Nat
  BY DEF PgProgress
<1>2. /\ Append(pg_socket, e) \in Seq(PgAnswers) /\ Len(Append(pg_socket, e)) = Len(pg_socket) + 1
      /\ Append(pg_socket, e)[Len(pg_socket) + 1] = e
      /\ \A i \in 1 .. Len(pg_socket) : Append(pg_socket, e)[i] = pg_socket[i]
  BY <1>1, AppendFacts
<1> SUFFICES ASSUME NEW i \in 1 .. Len(pg_socket) + 1, pg_socket'[i] = "row42" PROVE "row42" \in done'
  BY <1>2, Zenon
<1>3. CASE i = Len(pg_socket) + 1
  BY <1>2, <1>3, Zenon
<1>4. CASE i # Len(pg_socket) + 1
  <2>1. i \in 1 .. Len(pg_socket)
    BY <1>1, <1>4
  <2>2. pg_socket[i] = "row42"
    BY <1>2, <2>1
  <2>3. QED
    BY <2>1, <2>2, Zenon DEF PgProgress
<1>5. QED
  BY <1>3, <1>4, Zenon

\* The server takes the next command of the program.
LEMMA PgServerStep ==
    ASSUME SpikeInv, PgServer
    PROVE  PgProgress'
<1>0. PgProgress /\ PgTyped
  BY PgTypes, Zenon DEF SpikeInv
<1>1. /\ pg_alive /\ Len(pg_sent) > 0 /\ pg_sent' = Tail(pg_sent)
      /\ UNCHANGED <<pg_state, out, buffered, pg_alive, flags>>
  BY <1>0 DEF PgServer, PgTyped
<1>2. PICK k \in 0 .. 6 : DoneBy(k) /\ Remaining(k)
  BY <1>0, <1>1, Zenon DEF PgProgress
<1>3. k \in 0 .. 5 /\ Sent(pg_state) \in {0, 4, 6}
  BY <1>0, <1>1, <1>2 DEF PgTyped, Remaining, Sent
<1>4. /\ pg_sent' \in Seq(PgCommands) /\ Len(pg_sent') = Len(pg_sent) - 1
      /\ Head(pg_sent) = pg_sent[1]
      /\ \A i \in 1 .. Len(pg_sent) - 1 : pg_sent'[i] = pg_sent[i + 1]
  BY <1>0, <1>1, TailFacts, Zenon DEF PgTyped
<1>5. Head(pg_sent) = Program[k + 1]
  BY <1>0, <1>1, <1>2, <1>4 DEF PgTyped, Remaining
<1>6. \A i \in 1 .. Len(pg_sent') : pg_sent'[i] = Program[(k + 1) + i]
  <2> SUFFICES ASSUME NEW i \in 1 .. Len(pg_sent') PROVE pg_sent'[i] = Program[(k + 1) + i]
    OBVIOUS
  <2>0. Len(pg_sent) \in Nat /\ i \in 1 .. Len(pg_sent) - 1
    <3>1. Len(pg_sent') = Len(pg_sent) - 1
      BY <1>4, Zenon
    <3>2. QED
      BY <1>0, <3>1, Zenon DEF PgTyped
  <2>1. i + 1 \in 1 .. Len(pg_sent) /\ k + (i + 1) = (k + 1) + i
    BY <1>3, <2>0
  <2>2. pg_sent[i + 1] = Program[k + (i + 1)]
    BY <1>2, <2>1, Zenon DEF Remaining
  <2>3. pg_sent'[i] = pg_sent[i + 1]
    BY <1>4, <2>0, Zenon
  <2>4. QED
    BY <2>1, <2>2, <2>3, Zenon
<1>7. \A i \in 1 .. Len(out') : out'[i] = Program[(k + 1) + Len(pg_sent') + i]
  <2>1. (k + 1) + Len(pg_sent') = k + Len(pg_sent) /\ out' = out
    BY <1>0, <1>1, <1>3, <1>4 DEF PgTyped
  <2>2. QED
    BY <1>2, <2>1, Zenon DEF Remaining
<1>8. Len(pg_sent') + Len(out') = Sent(pg_state)' - (k + 1)
  <2>1. Len(pg_sent) + Len(out) = Sent(pg_state) - k /\ Sent(pg_state)' = Sent(pg_state)
    BY <1>1, <1>2, Zenon DEF Remaining, Sent
  <2>2. out' = out /\ Len(pg_sent') = Len(pg_sent) - 1 /\ Len(pg_sent) \in Nat /\ Len(out) \in Nat
    BY <1>0, <1>1, <1>4, Zenon DEF PgTyped
  <2>3. QED
    BY <1>3, <2>1, <2>2, SMTT(30)
<1> DEFINE Replies(e) == /\ done' = done \union {e} /\ skipping' = (e = "error")
                         /\ pg_socket' = Append(pg_socket, e)
           Passes == done' = done \union {"skipped"} /\ UNCHANGED <<skipping, pg_socket>>
<1>9. IF skipping /\ Program[k + 1] # "sync" THEN Passes ELSE Replies(Answers[Program[k + 1]])
  BY <1>5, Zenon DEF PgServer
<1>10. /\ Program[1] = "one" /\ Program[2] = "bad" /\ Program[3] = "two" /\ Program[4] = "sync"
       /\ Program[5] = "last" /\ Program[6] = "sync"
  BY Zenon DEF Program
<1>11. /\ Answers["one"] = "row1" /\ Answers["bad"] = "error" /\ Answers["last"] = "row42"
       /\ Answers["sync"] = "sync"
  BY Zenon DEF Answers
<1>12. skipping <=> k \in {2, 3}
  BY <1>2 DEF Remaining
<1>13. \/ k = 0 /\ Replies("row1")
       \/ k = 1 /\ Replies("error")
       \/ k = 2 /\ Passes
       \/ k = 3 /\ Replies("sync")
       \/ k = 4 /\ Replies("row42")
       \/ k = 5 /\ Replies("sync")
  <2> HIDE DEF Replies, Passes
  <2>1. CASE k = 0
    BY <1>9, <1>10, <1>11, <1>12, <2>1
  <2>2. CASE k = 1
    BY <1>9, <1>10, <1>11, <1>12, <2>2
  <2>3. CASE k = 2
    BY <1>9, <1>10, <1>11, <1>12, <2>3
  <2>4. CASE k = 3
    BY <1>9, <1>10, <1>11, <1>12, <2>4
  <2>5. CASE k = 4
    BY <1>9, <1>10, <1>11, <1>12, <2>5
  <2>6. CASE k = 5
    BY <1>9, <1>10, <1>11, <1>12, <2>6
  <2>7. QED
    BY <1>3, <2>1, <2>2, <2>3, <2>4, <2>5, <2>6
<1>14. DoneBy(k + 1)' /\ done \subseteq done'
  BY <1>2, <1>13 DEF DoneBy
<1>15. skipping' <=> k + 1 \in {2, 3}
  <2>1. CASE k = 2
    BY <1>12, <1>13, <2>1
  <2>2. CASE k # 2
    <3>1. \A e \in {"row1", "error", "sync", "row42"} : Replies(e) => (skipping' <=> e = "error")
      BY Zenon
    <3> HIDE DEF Replies, Passes
    <3>2. skipping' <=> k = 1
      BY <1>13, <2>2, <3>1
    <3>3. QED
      BY <1>3, <2>2, <3>2
  <2>3. QED
    BY <2>1, <2>2, Zenon
<1>16. Remaining(k + 1)'
  BY <1>6, <1>7, <1>8, <1>15, Zenon DEF Remaining
<1>17. /\ pg_socket' \in Seq(PgAnswers)
       /\ \A i \in 1 .. Len(pg_socket') : pg_socket'[i] = "row42" => "row42" \in done'
  <2>1. CASE Passes
    BY <1>0, <2>1, Zenon DEF PgProgress
  <2>2. ASSUME NEW e \in {"row1", "error", "sync", "row42"}, Replies(e)
        PROVE  /\ pg_socket' \in Seq(PgAnswers)
               /\ \A i \in 1 .. Len(pg_socket') : pg_socket'[i] = "row42" => "row42" \in done'
    <3>1. e \in PgAnswers /\ pg_socket' = Append(pg_socket, e) /\ (e = "row42" => "row42" \in done')
      BY <2>2, Zenon DEF PgAnswers
    <3>2. QED
      BY <1>0, <1>14, <3>1, AnswerFollows, Zenon
  <2>3. QED
    BY <1>13, <2>1, <2>2, Zenon
<1>18. k + 1 \in 0 .. 6
  BY <1>3
<1>19. QED
  BY <1>0, <1>1, <1>4, <1>14, <1>16, <1>17, <1>18, Zenon DEF PgProgress

\* The connection breaks: what was sent is lost.
LEMMA PgBreaksStep ==
    ASSUME SpikeInv, PgBreaks
    PROVE  PgProgress'
<1>0. PgProgress /\ PgTyped
  BY PgTypes, Zenon DEF SpikeInv
<1>1. PICK k \in 0 .. 6 : DoneBy(k) /\ (pg_alive \/ pg_state = 0 => Remaining(k))
  BY <1>0, Zenon DEF PgProgress
<1>2. /\ UNCHANGED <<pg_state, out, buffered, skipping, done, flags>>
      /\ pg_sent' = <<>> /\ pg_socket' \in {pg_socket, Append(pg_socket, "error")}
      /\ ~pg_alive'
  BY Zenon DEF PgBreaks
<1>3. DoneBy(k)'
  BY <1>1, <1>2, Zenon DEF DoneBy
<1>4. pg_state' = 0 => Remaining(k)'
  <2> SUFFICES ASSUME pg_state = 0 PROVE Remaining(k)'
    BY <1>2, Zenon
  <2>1. pg_sent' = pg_sent
    BY <1>0, <1>1, <1>2, NothingSent, Zenon
  <2>2. QED
    BY <1>1, <1>2, <2>1 DEF Remaining
<1>5. /\ pg_socket' \in Seq(PgAnswers)
      /\ \A i \in 1 .. Len(pg_socket') : pg_socket'[i] = "row42" => "row42" \in done'
  <2>1. CASE pg_socket' = pg_socket
    BY <1>0, <1>2, <2>1, Zenon DEF PgProgress
  <2>2. CASE pg_socket' = Append(pg_socket, "error")
    BY <1>0, <1>2, <2>2, AnswerFollows DEF PgAnswers
  <2>3. QED
    BY <1>2, <2>1, <2>2, Zenon
<1>6. QED
  BY <1>0, <1>2, <1>3, <1>4, <1>5, SMTT(30) DEF PgProgress

LEMMA PgProgressStep ==
    ASSUME SpikeInv, Next
    PROVE  PgProgress'
<1>0. PgProgress
  BY Zenon DEF SpikeInv
<1> DEFINE Alone == UNCHANGED <<pg_state, pg_sent, out, pg_socket, buffered, pg_alive, skipping>>
           Kept == \A a \in PgAnswers \union {"skipped"} : a \in done' <=> a \in done
           NoNews == "pg_recovered" \in flags' => "pg_recovered" \in flags
<1>1. CASE PgConnect
  BY <1>1, PgConnectStep, Zenon
<1>2. CASE PgFlush
  BY <1>2, PgFlushStep
<1>3. CASE PgConsume
  BY <1>3, PgConsumeStep, Zenon
<1>4. CASE PgNull
  BY <1>4, PgNullStep, Zenon
<1>5. CASE PgResult
  BY <1>5, PgResultStep, Zenon
<1>6. CASE PgServer
  BY <1>6, PgServerStep, Zenon
<1>7. CASE PgBreaks
  BY <1>7, PgBreaksStep, Zenon
<1>8. ASSUME UNCHANGED pg, Kept, NoNews PROVE PgProgress'
  BY <1>0, <1>8, PgQuiet, Zenon DEF pg
<1>9. CASE Setup
  <2>1. UNCHANGED <<pg, done>> /\ (flags' = exercise_queue \/ flags' = flags)
    BY <1>9, Zenon DEF Setup
  <2>2. "pg_recovered" \notin exercise_queue
    BY Zenon DEF exercise_queue
  <2>3. QED
    BY <1>8, <2>1, <2>2, Zenon
<1>10. CASE RedisReply
  <2>1. UNCHANGED <<pg, done>> /\ flags' = flags \union Noted(Head(calls), Head(re_socket))
    BY <1>10, Zenon DEF RedisReply
  <2>2. "pg_recovered" \notin Noted(Head(calls), Head(re_socket))
    BY Zenon DEF Noted
  <2>3. QED
    BY <1>8, <2>1, <2>2, Zenon
<1>11. CASE RedisReadEnds \/ RedisWrite
  <2>1. UNCHANGED <<pg, done>> /\ flags' \in {flags, flags \union {"redis_disconnect"}}
    BY <1>11, Zenon DEF RedisReadEnds, RedisWrite, Disconnect
  <2>2. QED
    BY <1>8, <2>1
<1>12. CASE CurlEnds
  <2>1. UNCHANGED pg /\ flags' \in {flags, flags \union {"curl_roundtrip"}} /\ done' \in {done, done \union {"http"}}
    BY <1>12, Zenon DEF CurlEnds
  <2>2. Kept
    BY <2>1, Zenon DEF PgAnswers
  <2>3. QED
    BY <1>8, <2>1, <2>2, Zenon
<1>13. CASE RedisServer
  <2>1. UNCHANGED <<pg, flags>> /\ done' \in {done, done \union {Head(re_sent)}}
    BY <1>13, Zenon DEF RedisServer
  <2>2. Head(re_sent) \in RedisCommands
    <3>1. re_sent \in Seq(RedisCommands) /\ Len(re_sent) > 0
      BY <1>13 DEF RedisServer, SpikeInv, Answered
    <3>2. QED
      BY <3>1, TailFacts, Zenon
  <2>3. Kept
    BY <2>1, <2>2, Zenon DEF PgAnswers, RedisCommands
  <2>4. QED
    BY <1>8, <2>1, <2>3
<1>14. CASE UNCHANGED <<pg, done, flags>>
  BY <1>8, <1>14, Zenon
<1>15. QED
  BY <1>1, <1>2, <1>3, <1>4, <1>5, <1>6, <1>7, <1>9, <1>10, <1>11, <1>12, <1>13, <1>14, Zenon DEF Next, Thread,
     Environment, Ended, TickStarts, TickEnds, Exit, PgBusy, RedisSkipped, RedisConnect, CurlReturns,
     CurlRefused, CurlAsks,
     RedisBreaks, LoopFails, Expires, vars
-----------------------------------------------------------------------------
(* The theorems. *)

LEMMA SpikeInvInit ==
    ASSUME Init
    PROVE  SpikeInv
<1>1. ThreadInv
  BY DEF Init, ThreadInv
<1>2. PgProgress
  <2>1. DoneBy(0)
    BY DEF Init, DoneBy
  <2>2. Remaining(0)
    BY DEF Init, Remaining, Sent
  <2>3. QED
    BY <2>1, <2>2 DEF Init, PgProgress
<1>3. Pointer
  BY DEF Init, Pointer, NoStaleContext
<1>4. Answered
  BY DEF Init, Answered
<1>5. Entries
  BY CurlSlotsAssumption DEF Init, Entries, Actions
<1>6. QED
  BY <1>1, <1>2, <1>3, <1>4, <1>5, Zenon DEF SpikeInv

LEMMA SpikeInvNext ==
    ASSUME SpikeInv, [Next]_vars
    PROVE  SpikeInv'
<1>1. CASE Next
  BY <1>1, ThreadStep, PgProgressStep, PointerStep, AnsweredStep, EntriesStep, Zenon DEF SpikeInv
<1>2. CASE UNCHANGED vars
  <2>1. ThreadInv'
    BY <1>2, Zenon DEF SpikeInv, ThreadInv, vars, app, pg, complete
  <2>2. PgProgress'
    BY <1>2, PgQuiet, Zenon DEF SpikeInv, vars, pg
  <2>3. Pointer'
    BY <1>2, Zenon DEF SpikeInv, Pointer, NoStaleContext, vars, hiredis
  <2>4. Answered'
    BY <1>2, Zenon DEF SpikeInv, Answered, vars, hiredis
  <2>5. Entries'
    BY <1>2, Zenon DEF SpikeInv, Entries, vars, curl
  <2>6. QED
    BY <2>1, <2>2, <2>3, <2>4, <2>5 DEF SpikeInv
<1>3. QED
  BY <1>1, <1>2, Zenon

\* SpikeInv holds in every state of the spike: it is the strengthening the
\* theorems below need, since a flag says nothing by itself of the server.
THEOREM SpikeInvariant == Spec => []SpikeInv
  BY SpikeInvInit, SpikeInvNext, PTL DEF Spec

\* main's result with clean_shutdown true is evidence of what PostgreSQL, Redis
\* and the HTTP server did, whatever the sockets libcurl uses.
THEOREM SpikeEvidence == Spec => []EvidenceIsReal
<1>1. ASSUME SpikeInv PROVE EvidenceIsReal
  <2>1. TypeOK
    <3>1. /\ pc \in {"setup", "loop", "tick", "exit", "crashed"} /\ flags \subseteq Evidence
          /\ todo \in Seq(Calls) /\ pg_state \in {0, 2, 3} /\ redis \in 0 .. 2 /\ generation \in 0 .. 2
          /\ Len(watches) <= CurlSlots
      BY <1>1, ZenonT(40) DEF SpikeInv, ThreadInv, PgProgress, Pointer, Entries
    <3>2. \A i \in DOMAIN watches : watches[i] \in Entry
      <4>1. watches \in Seq(Entry) /\ DOMAIN watches = 1 .. Len(watches)
        BY <1>1 DEF SpikeInv, Entries
      <4>2. QED
        BY <4>1, Elements, Zenon
    <3>3. QED
      BY <3>1, <3>2, ZenonT(40) DEF TypeOK, Calls, Entry, Actions
  <2>2. ASSUME clean
        PROVE  /\ {"row1", "error", "skipped", "sync", "row42", "GET", "PING", "http"} \subseteq done
               /\ "row2" \notin done
               /\ link[1] = "freed" /\ generation = 2
    <3>1. {"pg_recovered", "redis_roundtrip", "redis_disconnect", "redis_recovered", "curl_roundtrip"} \subseteq flags
      BY <1>1, <2>2, Zenon DEF SpikeInv, ThreadInv, complete, Evidence
    <3>2. PICK k \in 0 .. 6 : DoneBy(k)
      BY <1>1, Zenon DEF SpikeInv, PgProgress
    <3>3. k >= 5
      BY <1>1, <3>1, <3>2, Zenon DEF SpikeInv, PgProgress, DoneBy
    <3>4. {"row1", "error", "skipped", "sync", "row42"} \subseteq done /\ "row2" \notin done
      BY <3>2, <3>3 DEF DoneBy
    <3>5. {"GET", "PING", "http"} \subseteq done /\ generation = 2
      BY <1>1, <3>1, Zenon DEF SpikeInv, Answered
    <3>6. link[1] = "freed"
      BY <1>1, <3>5, Zenon DEF SpikeInv, Pointer
    <3>7. QED
      BY <3>4, <3>5, <3>6, Zenon
  <2>3. QED
    BY <2>1, <2>2, Zenon DEF EvidenceIsReal
<1>2. QED
  BY <1>1, SpikeInvariant, PTL

\* service_tick uses a freed hiredis context only after Redis itself failed.
THEOREM SpikePointer == Spec => []NoStaleContext
<1>1. SpikeInv => NoStaleContext
  BY Zenon DEF SpikeInv, Pointer
<1>2. QED
  BY <1>1, SpikeInvariant, PTL

\* What service_tick polls is what libcurl last asked for, for every number of
\* slots and every set of sockets, whose numbers may be given out again.
THEOREM SpikePolls == Spec => []CurlPolledAsAsked
<1>1. ASSUME SpikeInv PROVE CurlPolledAsAsked
  <2> DEFINE Of(fd) == {i \in Active : watches[i].fd = fd}
  <2>1. /\ watches \in Seq(Entry) /\ DOMAIN watches = 1 .. Len(watches) /\ Len(watches) \in Nat
        /\ want \in [Sockets -> Actions] /\ slot \in [Sockets -> 0 .. Len(watches)]
        /\ \A fd \in Sockets : slot[fd] = 0 <=> want[fd] = "none"
        /\ \A fd \in Sockets : slot[fd] # 0 => watches[slot[fd]] = [fd |-> fd, action |-> want[fd]]
        /\ \A i \in 1 .. Len(watches) : watches[i].action # "none" => slot[watches[i].fd] = i
    BY <1>1 DEF SpikeInv, Entries
  <2>2. ASSUME NEW fd \in Sockets
        PROVE  IF want[fd] = "none" THEN Of(fd) = {}
               ELSE \E i \in Active : Of(fd) = {i} /\ watches[i].action = want[fd]
    <3>1. \A i \in Of(fd) : i \in 1 .. Len(watches) /\ slot[fd] = i
      BY <2>1, Zenon DEF Active
    <3>2. CASE want[fd] = "none"
      BY <2>1, <3>1, <3>2
    <3>3. CASE want[fd] # "none"
      <4>1. slot[fd] \in 1 .. Len(watches) /\ watches[slot[fd]] = [fd |-> fd, action |-> want[fd]]
        BY <2>1, <3>3
      <4>2. watches[slot[fd]].fd = fd /\ watches[slot[fd]].action = want[fd]
        <5>1. \A w : [fd |-> fd, action |-> w].fd = fd /\ [fd |-> fd, action |-> w].action = w
          OBVIOUS
        <5>2. QED
          BY <4>1, <5>1, Zenon
      <4>3. slot[fd] \in Of(fd)
        BY <2>1, <3>3, <4>1, <4>2, Zenon DEF Active
      <4>4. Of(fd) = {slot[fd]}
        BY <3>1, <4>3, Zenon
      <4>5. QED
        BY <3>3, <4>2, <4>3, <4>4, Zenon
    <3>4. QED
      BY <3>2, <3>3, Zenon
  <2>3. QED
    BY <2>2, Zenon DEF CurlPolledAsAsked
<1>2. QED
  BY <1>1, SpikeInvariant, PTL
=============================================================================
