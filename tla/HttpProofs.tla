----------------------------- MODULE HttpProofs -----------------------------
(***************************************************************************)
(* HttpMulti for every bound, when no request is cancelled from its own    *)
(* completion: what the client owns is exactly what libcurl works on, has  *)
(* finished or completes, and a success is a whole response.               *)
(*                                                                         *)
(* LwsRuntime, the loop that polls its sockets, for every capacity and     *)
(* every set of owners: SlotsAreOwned and ReadyReachesOwner.               *)
(***************************************************************************)
EXTENDS HttpMulti, LwsRuntime, SeqLemmas, FiniteSetTheorems, TLAPS

-----------------------------------------------------------------------------
(* The registry of watches. *)

ActiveSlots == {s \in Slots : watches[s].active}

\* What SlotsAreOwned needs to be inductive: an owner's handle and its slot's
\* context point at each other.
Linked ==
    /\ \A o \in Owners : handle[o] # 0 => watches[handle[o]].active /\ watches[handle[o]].ctx = o
    /\ \A s \in Slots : watches[s].active => watches[s].ctx \in Owners /\ handle[watches[s].ctx] = s

\* What libwebsockets holds belongs to a slot in use.
Polled ==
    \A s \in Slots :
        /\ watches[s].wsi => watches[s].active
        /\ s \in pollout \union timer => watches[s].wsi

Counted == count = Cardinality(ActiveSlots)

\* The wakeup's pass starts at the first slot.
CursorRuns == at = "wakeup" => cursor # 0

LwsInv == RegistryTypeOK /\ Linked /\ Polled /\ Counted /\ CursorRuns

LEMMA LwsSlots == Slots \subseteq Nat \ {0} /\ IsFiniteSet(Slots) /\ 0 \notin Slots /\ Capacity \in Nat
BY CapacityAssumption, FS_Interval, SMT DEF Slots

\* Any set of slots is finite, so its count changes with its elements.
LEMMA LwsCounts ==
    ASSUME NEW S \in SUBSET Slots
    PROVE  /\ IsFiniteSet(S) /\ Cardinality(S) \in Nat
           /\ \A s \in Slots \ S : Cardinality(S \union {s}) = Cardinality(S) + 1
           /\ \A s \in S : Cardinality(S \ {s}) = Cardinality(S) - 1 /\ Cardinality(S) > 0
<1>1. IsFiniteSet(S)
  BY LwsSlots, FS_Subset, Zenon
<1>2. Cardinality(S) \in Nat
  BY <1>1, FS_CardinalityType
<1>3. ASSUME NEW s \in Slots \ S PROVE Cardinality(S \union {s}) = Cardinality(S) + 1
  BY <1>1, FS_AddElement
<1>4. ASSUME NEW s \in S PROVE Cardinality(S \ {s}) = Cardinality(S) - 1 /\ Cardinality(S) > 0
  <2>1. IsFiniteSet(S \ {s}) /\ Cardinality(S \ {s}) = Cardinality(S) - 1
    BY <1>1, FS_RemoveElement
  <2>2. Cardinality(S \ {s}) \in Nat
    BY <2>1, FS_CardinalityType
  <2>3. QED
    BY <1>2, <2>1, <2>2, SMT
<1>5. QED
  BY <1>1, <1>2, <1>3, <1>4

Watch == [active : BOOLEAN, wants_write : BOOLEAN, wsi : BOOLEAN, ctx : Owners \union {"none"}]

\* Closing a wsi, and giving its slot back, change those fields alone.
LEMMA LwsClosed ==
    ASSUME NEW w \in Watch
    PROVE  /\ [w EXCEPT !.wsi = FALSE] \in Watch
           /\ [w EXCEPT !.wsi = FALSE].active = w.active /\ [w EXCEPT !.wsi = FALSE].ctx = w.ctx
           /\ [w EXCEPT !.wsi = FALSE].wsi = FALSE
           /\ [w EXCEPT !.active = FALSE, !.wsi = FALSE] \in Watch
<1>1. [w EXCEPT !.wsi = FALSE] \in Watch /\ [w EXCEPT !.active = FALSE, !.wsi = FALSE] \in Watch
  BY Zenon DEF Watch
<1>2. /\ [w EXCEPT !.wsi = FALSE].active = w.active /\ [w EXCEPT !.wsi = FALSE].ctx = w.ctx
      /\ [w EXCEPT !.wsi = FALSE].wsi = FALSE
  BY SMT DEF Watch
<1>3. QED
  BY <1>1, <1>2, Zenon

\* The owner's calls leave the thread where it is.
LEMMA LwsOwnerCalls ==
    ASSUME NEW o \in Owners, NEW b,
           \/ alpha_lws_watch_add(o, b) \/ alpha_lws_watch_set_write(o, b)
           \/ alpha_lws_watch_set_timer(o, b) \/ alpha_lws_watch_remove(o) \/ RoomChanges(o)
    PROVE  UNCHANGED <<at, cursor>>
<1>1. CASE alpha_lws_watch_add(o, b)
  BY <1>1, Zenon DEF alpha_lws_watch_add
<1>2. CASE alpha_lws_watch_set_write(o, b)
  BY <1>2, Zenon DEF alpha_lws_watch_set_write
<1>3. CASE alpha_lws_watch_set_timer(o, b)
  BY <1>3, Zenon DEF alpha_lws_watch_set_timer
<1>4. CASE alpha_lws_watch_remove(o)
  BY <1>4, Zenon DEF alpha_lws_watch_remove
<1>5. CASE RoomChanges(o)
  BY <1>5, Zenon DEF RoomChanges
<1>6. QED
  BY <1>1, <1>2, <1>3, <1>4, <1>5, Zenon

LEMMA LwsInit == RegistryInit => LwsInv
<1> SUFFICES ASSUME RegistryInit PROVE LwsInv
  OBVIOUS
<1>1. RegistryTypeOK
  BY LwsSlots, SMT DEF RegistryInit, RegistryTypeOK, Free, NoCall
<1>2. Linked /\ Polled
  BY SMT DEF RegistryInit, Linked, Polled, Free
<1>3. ActiveSlots = {}
  BY SMT DEF RegistryInit, ActiveSlots, Free
<1>4. Counted
  BY <1>3, FS_EmptySet, SMT DEF RegistryInit, Counted
<1>5. QED
  BY <1>1, <1>2, <1>4, Zenon DEF LwsInv, CursorRuns, RegistryInit

\* A slot is taken by its new owner, or stays free when it cannot be opened.
LEMMA LwsAdd ==
    ASSUME LwsInv, NEW o \in Owners, NEW w \in BOOLEAN, alpha_lws_watch_add(o, w)
    PROVE  LwsInv'
<1>1. PICK s \in FirstInactive :
         \/ /\ watches' = [watches EXCEPT ![s] =
                   [active |-> TRUE, wants_write |-> w, wsi |-> TRUE, ctx |-> o]]
            /\ count' = count + 1
            /\ handle' = [handle EXCEPT ![o] = s]
            /\ IF w THEN OnWritable(s) ELSE pollout' = pollout
         \/ /\ watches' = [watches EXCEPT ![s] = FailedWatch(o, w)]
            /\ UNCHANGED <<count, handle, pollout>>
  BY Zenon DEF alpha_lws_watch_add
<1>0. s \in Slots /\ ~watches[s].active
  BY Zenon DEF FirstInactive, Inactive
<1>2. RegistryTypeOK /\ Linked /\ Polled /\ Counted /\ CursorRuns
  BY Zenon DEF LwsInv
<1>3. handle[o] = 0 /\ count # Capacity
      /\ UNCHANGED <<at, cursor, call, timer, full>>
  BY Zenon DEF alpha_lws_watch_add
<1>4. CASE /\ watches' = [watches EXCEPT ![s] =
                  [active |-> TRUE, wants_write |-> w, wsi |-> TRUE, ctx |-> o]]
           /\ count' = count + 1
           /\ handle' = [handle EXCEPT ![o] = s]
           /\ pollout' \in {pollout, pollout \union {s}}
  <2>1. RegistryTypeOK'
    BY <1>0, <1>2, <1>3, <1>4, LwsSlots, SMTT(30) DEF RegistryTypeOK, Slots
  <2>2. Linked'
    BY <1>0, <1>2, <1>3, <1>4, LwsSlots, SMT DEF RegistryTypeOK, Linked
  <2>3. Polled'
    BY <1>0, <1>2, <1>3, <1>4, SMTT(30) DEF RegistryTypeOK, Polled
  <2>4. ActiveSlots' = ActiveSlots \union {s} /\ s \notin ActiveSlots
    BY <1>0, <1>2, <1>4, SMT DEF RegistryTypeOK, ActiveSlots
  <2>5. Cardinality(ActiveSlots \union {s}) = Cardinality(ActiveSlots) + 1
    BY <1>0, <2>4, LwsCounts DEF ActiveSlots
  <2>6. Counted'
    BY <1>2, <1>4, <2>4, <2>5, Zenon DEF Counted
  <2>7. QED
    BY <1>2, <1>3, <2>1, <2>2, <2>3, <2>6, Zenon DEF LwsInv, CursorRuns
<1>5. CASE /\ watches' = [watches EXCEPT ![s] = FailedWatch(o, w)]
           /\ UNCHANGED <<count, handle, pollout>>
  <2>1. RegistryTypeOK'
    BY <1>0, <1>2, <1>3, <1>5, SMT DEF RegistryTypeOK, FailedWatch
  <2>2. Linked'
    BY <1>0, <1>2, <1>3, <1>5, LwsSlots, SMTT(30) DEF RegistryTypeOK, Linked, FailedWatch, Slots
  <2>3. Polled'
    BY <1>0, <1>2, <1>3, <1>5, SMT DEF RegistryTypeOK, Polled, FailedWatch
  <2>4. ActiveSlots' = ActiveSlots
    BY <1>0, <1>2, <1>5, SMT DEF RegistryTypeOK, ActiveSlots, FailedWatch
  <2>5. QED
    BY <1>2, <1>3, <1>5, <2>1, <2>2, <2>3, <2>4, ZenonT(40) DEF LwsInv, Counted, CursorRuns
<1>6. QED
  BY <1>1, <1>4, <1>5, Zenon DEF OnWritable

LEMMA LwsRemove ==
    ASSUME LwsInv, NEW o \in Owners, alpha_lws_watch_remove(o)
    PROVE  LwsInv'
<1> DEFINE s == handle[o]
<1>1. RegistryTypeOK /\ Linked /\ Polled /\ Counted /\ CursorRuns
  BY Zenon DEF LwsInv
<1>2. s \in Slots
  BY <1>1, SMT DEF RegistryTypeOK, alpha_lws_watch_remove, Slots
<1>3. ActiveSlots' = ActiveSlots \ {s} /\ s \in ActiveSlots
  BY <1>1, <1>2, SMT DEF RegistryTypeOK, ActiveSlots, alpha_lws_watch_remove, Released
<1>4. Cardinality(ActiveSlots \ {s}) = Cardinality(ActiveSlots) - 1 /\ Cardinality(ActiveSlots) > 0
  BY <1>3, LwsCounts, Zenon DEF ActiveSlots
<1>5. Counted'
  BY <1>1, <1>3, <1>4, Zenon DEF Counted, alpha_lws_watch_remove
<1>6. RegistryTypeOK'
  <2>1. count' \in 0 .. Capacity
    <3>1. count > 0 /\ count \in 0 .. Capacity
      BY <1>1, <1>4, ZenonT(40) DEF RegistryTypeOK, Counted
    <3>2. QED
      BY <3>1, LwsSlots, SMT DEF alpha_lws_watch_remove
  <2>2. QED
    <3>1. watches \in [Slots -> Watch]
      BY <1>1, ZenonT(40) DEF RegistryTypeOK, Watch
    <3>2. Released(s) \in Watch
      BY <1>2, <3>1, LwsClosed, Zenon DEF Released
    <3>3. watches' \in [Slots -> Watch]
      BY <1>2, <3>1, <3>2, Zenon DEF alpha_lws_watch_remove
    <3>4. handle' \in [Owners -> 0 .. Capacity] /\ pollout' \subseteq Slots /\ timer' \subseteq Slots
      <4>1. 0 \in 0 .. Capacity
        BY LwsSlots, SMT
      <4>2. QED
        BY <1>1, <4>1, Zenon DEF RegistryTypeOK, alpha_lws_watch_remove
    <3>5. QED
      BY <1>1, <2>1, <3>3, <3>4, Zenon DEF RegistryTypeOK, Watch, alpha_lws_watch_remove
<1>7. Linked'
  BY <1>1, <1>2, LwsSlots, SMT DEF RegistryTypeOK, Linked, alpha_lws_watch_remove, Released
<1>8. Polled'
  BY <1>1, <1>2, SMTT(30) DEF RegistryTypeOK, Polled, alpha_lws_watch_remove, Released
<1>9. QED
  BY <1>1, <1>5, <1>6, <1>7, <1>8, Zenon DEF LwsInv, CursorRuns, alpha_lws_watch_remove

LEMMA LwsStep == LwsInv /\ [RegistryNext]_registry => LwsInv'
<1> SUFFICES ASSUME LwsInv, [RegistryNext]_registry PROVE LwsInv'
  OBVIOUS
<1>0. RegistryTypeOK /\ Linked /\ Polled /\ Counted /\ CursorRuns
  BY Zenon DEF LwsInv
<1>c. CursorRuns'
  <2>1. ASSUME UNCHANGED <<at, cursor>> PROVE CursorRuns'
    BY <1>0, <2>1, Zenon DEF CursorRuns
  <2>2. ASSUME at' \in {"ready", "owner", "poll", "destroyed"} PROVE CursorRuns'
    BY <2>2, SMT DEF CursorRuns
  <2>3. ASSUME NEW s \in Slots, Readable(s) \/ Writeable(s) \/ TimerFires(s) \/ HangUp(s) PROVE CursorRuns'
    BY <2>1, <2>2, <2>3, SMT DEF Readable, Writeable, TimerFires, HangUp, ready_fn, lws
  <2>4. CASE service_wakeup
    BY <1>0, <2>4, LwsSlots, SMT DEF CursorRuns, RegistryTypeOK, service_wakeup, ready_fn
  <2>5. CASE alpha_lws_runtime_service \/ alpha_lws_runtime_destroy \/ WakeupFires \/ ServiceReturns
            \/ ReadyReturns \/ UNCHANGED registry
    BY <1>0, <2>5, SMT DEF CursorRuns, alpha_lws_runtime_service, alpha_lws_runtime_destroy, WakeupFires,
       ServiceReturns, ReadyReturns, registry
  <2>6. QED
    BY <2>1, <2>3, <2>4, <2>5, LwsOwnerCalls, Zenon DEF RegistryNext
\* Steps that leave the slots' use alone.
<1>q. ASSUME RegistryTypeOK', Linked', Polled', count' = count,
             \A s \in Slots : watches'[s].active = watches[s].active
      PROVE  LwsInv'
  <2>1. ActiveSlots' = ActiveSlots
    BY <1>q, Zenon DEF ActiveSlots
  <2>2. QED
    BY <1>0, <1>c, <1>q, <2>1, Zenon DEF LwsInv, Counted
<1>1. ASSUME NEW o \in Owners, NEW w \in BOOLEAN, alpha_lws_watch_add(o, w) PROVE LwsInv'
  BY <1>1, LwsAdd
<1>2. ASSUME NEW o \in Owners, NEW w \in BOOLEAN, alpha_lws_watch_set_write(o, w) PROVE LwsInv'
  <2>1. handle[o] \in Slots
    BY <1>0, <1>2, SMT DEF RegistryTypeOK, alpha_lws_watch_set_write, Slots
  <2>2. pollout' \in {pollout, pollout \union {handle[o]}}
    BY <1>2, Zenon DEF alpha_lws_watch_set_write, OnWritable
  <2>3. RegistryTypeOK' /\ Linked' /\ Polled' /\ count' = count
        /\ \A s \in Slots : watches'[s].active = watches[s].active
    BY <1>0, <1>2, <2>1, <2>2, SMTT(30) DEF RegistryTypeOK, Linked, Polled, alpha_lws_watch_set_write, Slots
  <2>4. QED
    BY <1>q, <2>3, Zenon
<1>3. ASSUME NEW o \in Owners, NEW a \in BOOLEAN, alpha_lws_watch_set_timer(o, a) PROVE LwsInv'
  <2>1. handle[o] \in Slots
    BY <1>0, <1>3, SMT DEF RegistryTypeOK, alpha_lws_watch_set_timer, Slots
  <2>2. RegistryTypeOK' /\ Linked' /\ Polled' /\ count' = count
        /\ \A s \in Slots : watches'[s].active = watches[s].active
    BY <1>0, <1>3, <2>1, SMT DEF RegistryTypeOK, Linked, Polled, alpha_lws_watch_set_timer
  <2>3. QED
    BY <1>q, <2>2, ZenonT(40)
<1>4. ASSUME NEW o \in Owners, alpha_lws_watch_remove(o) PROVE LwsInv'
  BY <1>4, LwsRemove
<1>5. CASE alpha_lws_runtime_destroy
  <2>0. /\ watches' = [s \in Slots |-> [watches[s] EXCEPT !.wsi = FALSE]]
        /\ pollout' = {} /\ timer' = {} /\ at' = "destroyed"
        /\ UNCHANGED <<count, cursor, call, handle, full>>
    BY <1>5, ZenonT(40) DEF alpha_lws_runtime_destroy
  <2>w. watches \in [Slots -> Watch]
    BY <1>0, ZenonT(40) DEF RegistryTypeOK, Watch
  <2>v. watches' \in [Slots -> Watch]
    BY <2>0, <2>w, LwsClosed, Zenon
  <2>t. RegistryTypeOK'
    BY <1>0, <2>0, <2>v, SMT DEF RegistryTypeOK, Watch
  <2>a. \A s \in Slots : /\ watches'[s].active = watches[s].active
                         /\ watches'[s].ctx = watches[s].ctx /\ watches'[s].wsi = FALSE
    BY <1>0, <2>0, SMT DEF RegistryTypeOK
  <2>l. Linked'
    BY <1>0, <2>0, <2>a, LwsSlots, SMTT(30) DEF RegistryTypeOK, Linked, Slots
  <2>p. Polled'
    BY <2>0, <2>a, Zenon DEF Polled
  <2>1. RegistryTypeOK' /\ Linked' /\ Polled' /\ count' = count
        /\ \A s \in Slots : watches'[s].active = watches[s].active
    BY <2>t, <2>l, <2>p, <2>0, <2>a, Zenon
  <2>2. QED
    BY <1>q, <2>1, Zenon
<1>6. ASSUME NEW s \in Slots, HangUp(s) PROVE LwsInv'
  <2>w. watches \in [Slots -> Watch]
    BY <1>0, Zenon DEF RegistryTypeOK, Watch
  <2>x. watches' = [watches EXCEPT ![s] = [watches[s] EXCEPT !.wsi = FALSE]]
    BY <1>6, <2>w, ZenonT(40) DEF HangUp
  <2>v. watches' \in [Slots -> Watch]
    BY <2>x, <2>w, LwsClosed, ZenonT(40)
  <2>t. RegistryTypeOK'
    BY <1>0, <1>6, <2>v, SMTT(30) DEF RegistryTypeOK, Watch, HangUp
  <2>a. \A t \in Slots : /\ watches'[t].active = watches[t].active
                         /\ watches'[t].ctx = watches[t].ctx
                         /\ t # s => watches'[t].wsi = watches[t].wsi
                         /\ t = s => watches'[t].wsi = FALSE
    BY <2>w, <2>x, LwsClosed, Zenon
  <2>l. Linked'
    BY <1>0, <1>6, <2>a, LwsSlots, SMT DEF RegistryTypeOK, Linked, HangUp, Slots
  <2>p. Polled'
    BY <1>0, <1>6, <2>a, ZenonT(40) DEF Polled, HangUp
  <2>1. RegistryTypeOK' /\ Linked' /\ Polled' /\ count' = count
        /\ \A t \in Slots : watches'[t].active = watches[t].active
    BY <1>6, <2>t, <2>l, <2>p, <2>a, Zenon DEF HangUp
  <2>2. QED
    BY <1>q, <2>1, Zenon
\* Steps that change no slot and no handle.
<1>k. ASSUME RegistryTypeOK', UNCHANGED <<watches, count, handle>>,
             pollout' \subseteq pollout, timer' \subseteq timer
      PROVE  LwsInv'
  BY <1>0, <1>c, <1>k, Zenon DEF LwsInv, Linked, Polled, Counted, ActiveSlots
<1>7. ASSUME NEW s \in Slots, Readable(s) \/ Writeable(s) \/ TimerFires(s) PROVE LwsInv'
  <2>1. RegistryTypeOK'
    BY <1>0, <1>7, SMT DEF RegistryTypeOK, Readable, Writeable, TimerFires, ready_fn, lws
  <2>2. UNCHANGED <<watches, count, handle>> /\ pollout' \subseteq pollout /\ timer' \subseteq timer
    BY <1>7, SMT DEF Readable, Writeable, TimerFires, lws
  <2>3. QED
    BY <1>k, <2>1, <2>2, Zenon
<1>8. CASE service_wakeup
  <2>1. cursor \in Slots \/ cursor = 0 \/ cursor > Capacity
    BY <1>0, LwsSlots, SMT DEF RegistryTypeOK, Slots
  <2>0. /\ cursor' \in 0 .. Capacity + 1 /\ at' \in {"owner", "ready", "wakeup"}
        /\ call' = call \/ (Probed(cursor) /\ cursor \in 0 .. Capacity
                            /\ call' = [ctx |-> watches[cursor].ctx, kind |-> "write"])
    BY <1>0, <1>8, LwsSlots, SMT DEF RegistryTypeOK, service_wakeup, ready_fn
  <2>w. cursor = 0 => at # "wakeup"
    BY <1>0, ZenonT(40) DEF CursorRuns
  <2>c. call' \in [ctx : Owners \union {"none"}, kind : {"none", "read", "write", "timer"}]
    BY <1>0, <1>8, <2>0, <2>1, <2>w, LwsSlots, SMTT(30) DEF RegistryTypeOK, service_wakeup
  <2>2. RegistryTypeOK'
    BY <1>0, <1>8, <2>0, <2>c, SMT DEF RegistryTypeOK, service_wakeup, lws
  <2>3. QED
    BY <1>8, <1>k, <2>2, <2>0, Zenon DEF service_wakeup, lws
<1>9. CASE alpha_lws_runtime_service \/ WakeupFires \/ ServiceReturns \/ ReadyReturns
  <2>0. /\ at' \in {"owner", "poll", "wakeup"} /\ cursor' \in {cursor, 1} /\ call' \in {call, NoCall}
        /\ UNCHANGED <<watches, count, handle, pollout, timer, full>>
    BY <1>9, SMT DEF alpha_lws_runtime_service, WakeupFires, ServiceReturns, ReadyReturns, lws
  <2>1. RegistryTypeOK'
    BY <1>0, <2>0, LwsSlots, SMT DEF RegistryTypeOK, NoCall
  <2>2. QED
    BY <1>9, <1>k, <2>1, Zenon DEF alpha_lws_runtime_service, WakeupFires, ServiceReturns,
       ReadyReturns, lws
<1>10. ASSUME NEW o \in Owners, RoomChanges(o) PROVE LwsInv'
  BY <1>0, <1>10, <1>k, SMT DEF RegistryTypeOK, RoomChanges
<1>11. CASE UNCHANGED registry
  BY <1>0, <1>11, <1>k, SMT DEF RegistryTypeOK, registry, lws
<1>12. QED
  BY <1>1, <1>2, <1>3, <1>4, <1>5, <1>6, <1>7, <1>8, <1>9, <1>10, <1>11, Zenon DEF RegistryNext

\* Whatever its capacity and however callbacks add and remove watches, the
\* registry's slots in use are those its owners hold, its count is theirs, and
\* libwebsockets polls nothing that was given back.
THEOREM RegistryOwnership == RegistrySpec => []SlotsAreOwned
<1>1. LwsInv => SlotsAreOwned
  <2> SUFFICES ASSUME LwsInv PROVE SlotsAreOwned
    OBVIOUS
  <2>0. RegistryTypeOK /\ Linked /\ Polled /\ Counted
    BY Zenon DEF LwsInv
  <2>1. \A s \in Slots : watches[s].active <=> \E o \in Owners : handle[o] = s /\ watches[s].ctx = o
    BY <2>0, LwsSlots, SMT DEF Linked
  <2>2. \A o, p \in Owners : o # p /\ handle[o] # 0 => handle[o] # handle[p]
    BY <2>0, SMT DEF Linked
  <2>3. QED
    BY <2>0, <2>1, <2>2, Zenon DEF SlotsAreOwned, Polled, Counted, ActiveSlots
<1>2. QED
  BY <1>1, LwsInit, LwsStep, PTL DEF RegistrySpec

\* A ready callback is made on an owner that still holds its watch, also in the
\* middle of a wakeup pass whose callbacks remove and add watches.
THEOREM ReadyOwnership == RegistrySpec => ReadyReachesOwner
<1> DEFINE A == at # "ready" /\ at' = "ready" =>
          \E o \in Owners : call'.ctx = o /\ handle[o] # 0 /\ watches[handle[o]].active
<1>1. LwsInv /\ [RegistryNext]_registry => [A]_registry
  <2> SUFFICES ASSUME LwsInv, RegistryNext, at # "ready", at' = "ready"
               PROVE  \E o \in Owners : call'.ctx = o /\ handle[o] # 0 /\ watches[handle[o]].active
    BY Zenon
  <2>0. RegistryTypeOK /\ Linked /\ Polled /\ CursorRuns
    BY Zenon DEF LwsInv
  <2>1. ASSUME NEW s \in Slots, watches[s].active, call'.ctx = watches[s].ctx
        PROVE  \E o \in Owners : call'.ctx = o /\ handle[o] # 0 /\ watches[handle[o]].active
    BY <2>0, <2>1, LwsSlots, SMT DEF Linked
  <2>2. ASSUME NEW s \in Slots, Readable(s) \/ Writeable(s) \/ TimerFires(s)
        PROVE  watches[s].active /\ call'.ctx = watches[s].ctx
    BY <2>0, <2>2, SMT DEF Polled, Readable, Writeable, TimerFires, ready_fn, lws
  <2>3. ASSUME service_wakeup
        PROVE  cursor \in Slots /\ watches[cursor].active /\ call'.ctx = watches[cursor].ctx
    BY <2>0, <2>3, LwsSlots, SMT DEF RegistryTypeOK, CursorRuns, service_wakeup, Probed, ready_fn, Slots
  <2>4. service_wakeup \/ \E s \in Slots : Readable(s) \/ Writeable(s) \/ TimerFires(s)
    <3>1. \A o \in Owners, b \in BOOLEAN :
             ~(\/ alpha_lws_watch_add(o, b) \/ alpha_lws_watch_set_write(o, b)
               \/ alpha_lws_watch_set_timer(o, b) \/ alpha_lws_watch_remove(o) \/ RoomChanges(o))
      BY LwsOwnerCalls, Zenon
    <3>2. \A s \in Slots : ~HangUp(s)
      BY Zenon DEF HangUp
    <3>3. ~(alpha_lws_runtime_service \/ alpha_lws_runtime_destroy \/ WakeupFires \/ ServiceReturns
            \/ ReadyReturns)
      BY SMT DEF alpha_lws_runtime_service, alpha_lws_runtime_destroy, WakeupFires, ServiceReturns,
         ReadyReturns
    <3>4. QED
      BY <3>1, <3>2, <3>3, Zenon DEF RegistryNext
  <2>5. QED
    BY <2>1, <2>2, <2>3, <2>4
<1>2. QED
  BY <1>1, LwsInit, LwsStep, PTL DEF RegistrySpec, ReadyReachesOwner

-----------------------------------------------------------------------------
(* The HTTP client. *)

Finished == {msgs[i].id : i \in 1 .. Len(msgs)}

\* The completions in progress nest: the outermost was called from the owner's
\* loop or from drain_completions, every other from a completion.
Nesting ==
    /\ pc = "callback" <=> stack # <<>>
    /\ \A i \in 1 .. Len(stack) : i < Len(stack) <=> stack[i].back = "callback"

\* No request is in the list, in the queue of messages or in completion twice.
Once ==
    /\ \A i, j \in 1 .. Len(requests) : i # j => requests[i] # requests[j]
    /\ \A i, j \in 1 .. Len(msgs) : i # j => msgs[i].id # msgs[j].id
    /\ \A i, j \in 1 .. Len(stack) : i # j => stack[i].id # stack[j].id

\* The three parts of the list do not overlap.
Parts ==
    /\ Range(requests) = running \union Finished \union InCompletion
    /\ running \intersect Finished = {} /\ running \intersect InCompletion = {}
    /\ Finished \intersect InCompletion = {}
    /\ \A r \in Range(requests) : r <= issued

\* What libcurl handed over was kept, up to the end of a transfer.
Kept ==
    /\ \A r \in Ids : r > issued => response_size[r] = 0 /\ received[r] = 0
    /\ \A r \in running : response_size[r] = received[r]
    /\ \A i \in 1 .. Len(msgs) : msgs[i].code = "OK" => response_size[msgs[i].id] = received[msgs[i].id]
    /\ \A i \in 1 .. Len(completed) : completed[i].id <= issued /\ completed[i].id \notin running

HttpInv ==
    /\ TypeOK /\ pending = Len(requests)
    /\ Nesting /\ Once /\ Parts /\ Kept /\ SuccessIsComplete

-----------------------------------------------------------------------------
\* Where the j-th element of a sequence was before the i-th was removed.
Place(i, j) == IF j < i THEN j ELSE j + 1

\* The sequence s without its i-th element, by its indices.
LEMMA WithoutFacts ==
    ASSUME NEW S, NEW s \in Seq(S), NEW i \in 1 .. Len(s)
    PROVE  /\ Without(s, i) \in Seq(S) /\ Len(Without(s, i)) = Len(s) - 1
           /\ \A j \in 1 .. Len(s) - 1 : Without(s, i)[j] = s[Place(i, j)]
<1> DEFINE front == SubSeq(s, 1, i - 1)
           back == SubSeq(s, i + 1, Len(s))
<1>0. i \in Nat /\ i >= 1 /\ i <= Len(s) /\ Len(s) \in Nat
  BY Elements, SMT
<1>1. front \in Seq(S) /\ Len(front) = i - 1 /\ \A j \in 1 .. i - 1 : front[j] = s[j]
  <2>1. 1 \in 1 .. Len(s) + 1 /\ i - 1 \in 1 - 1 .. Len(s)
    BY <1>0, SMT
  <2>2. QED
    BY <1>0, <2>1, SubSeqFacts, SMT
<1>2. back \in Seq(S) /\ Len(back) = Len(s) - i /\ \A j \in 1 .. Len(s) - i : back[j] = s[i + j]
  <2>1. i + 1 \in 1 .. Len(s) + 1 /\ Len(s) \in (i + 1) - 1 .. Len(s)
    BY <1>0, SMT
  <2>2. QED
    BY <1>0, <2>1, SubSeqFacts, SMT
<1>3. Without(s, i) = front \o back
  BY Zenon DEF Without
<1> HIDE DEF front, back
<1>4. /\ front \o back \in Seq(S) /\ Len(front \o back) = Len(front) + Len(back)
      /\ \A j \in 1 .. Len(front) : (front \o back)[j] = front[j]
      /\ \A j \in 1 .. Len(back) : (front \o back)[Len(front) + j] = back[j]
  <2>1. \A f, b \in Seq(S) : /\ f \o b \in Seq(S) /\ Len(f \o b) = Len(f) + Len(b)
                             /\ \A j \in 1 .. Len(f) : (f \o b)[j] = f[j]
                             /\ \A j \in 1 .. Len(b) : (f \o b)[Len(f) + j] = b[j]
    BY ConcatFacts
  <2>2. QED
    BY <1>1, <1>2, <2>1, Zenon
<1>5. ASSUME NEW j \in 1 .. Len(s) - 1
      PROVE  Without(s, i)[j] = s[Place(i, j)]
  <2>1. CASE j < i
    <3>1. j \in 1 .. Len(front)
      BY <1>0, <1>1, <2>1, SMT
    <3>2. QED
      BY <1>1, <1>3, <1>4, <2>1, <3>1, Zenon DEF Place
  <2>2. CASE ~(j < i)
    <3>1. /\ j - (i - 1) \in 1 .. Len(back) /\ Len(front) + (j - (i - 1)) = j
          /\ i + (j - (i - 1)) = j + 1
      BY <1>0, <1>1, <1>2, <2>2, SMT
    <3>2. Without(s, i)[Len(front) + (j - (i - 1))] = back[j - (i - 1)]
          /\ back[j - (i - 1)] = s[i + (j - (i - 1))]
      BY <1>2, <1>3, <1>4, <3>1, Zenon
    <3>3. QED
      BY <2>2, <3>1, <3>2, Zenon DEF Place
  <2>3. QED
    BY <2>1, <2>2, Zenon
<1>6. Len(front) + Len(back) = Len(s) - 1
  BY <1>0, <1>1, <1>2, SMT
<1>7. QED
  BY <1>3, <1>4, <1>5, <1>6, Zenon

\* The places that are left are the others, each once.
LEMMA RemovedPlaces ==
    ASSUME NEW n \in Nat, NEW i \in 1 .. n
    PROVE  /\ \A j \in 1 .. n - 1 : Place(i, j) \in (1 .. n) \ {i}
           /\ \A j, k \in 1 .. n - 1 : j # k => Place(i, j) # Place(i, k)
           /\ \A k \in (1 .. n) \ {i} : \E j \in 1 .. n - 1 : k = Place(i, j)
<1>1. /\ \A j \in 1 .. n - 1 : Place(i, j) \in (1 .. n) \ {i}
      /\ \A j, k \in 1 .. n - 1 : j # k => Place(i, j) # Place(i, k)
  BY SMT DEF Place
<1>2. ASSUME NEW k \in (1 .. n) \ {i}
      PROVE  \E j \in 1 .. n - 1 : k = Place(i, j)
  <2>1. CASE k < i
    <3>1. k \in 1 .. n - 1 /\ k = Place(i, k)
      BY <2>1, SMT DEF Place
    <3>2. QED
      BY <3>1, Zenon
  <2>2. CASE ~(k < i)
    <3>1. k - 1 \in 1 .. n - 1 /\ k = Place(i, k - 1)
      BY <2>2, SMT DEF Place
    <3>2. QED
      BY <3>1, Zenon
  <2>3. QED
    BY <2>1, <2>2, Zenon
<1>3. QED
  BY <1>1, <1>2, Zenon

\* The list without one of its requests.
LEMMA ListWithout ==
    ASSUME NEW s \in Seq(Ids), NEW i \in 1 .. Len(s),
           \A j, k \in 1 .. Len(s) : j # k => s[j] # s[k]
    PROVE  /\ Without(s, i) \in Seq(Ids) /\ Len(Without(s, i)) = Len(s) - 1
           /\ \A j, k \in 1 .. Len(Without(s, i)) : j # k => Without(s, i)[j] # Without(s, i)[k]
           /\ Range(Without(s, i)) = Range(s) \ {s[i]}
<1> DEFINE t == Without(s, i)
           p(j) == Place(i, j)
<1>1. t \in Seq(Ids) /\ Len(t) = Len(s) - 1 /\ \A j \in 1 .. Len(s) - 1 : t[j] = s[p(j)]
  BY WithoutFacts, Zenon
<1>2. /\ \A j \in 1 .. Len(s) - 1 : p(j) \in (1 .. Len(s)) \ {i}
      /\ \A j, k \in 1 .. Len(s) - 1 : j # k => p(j) # p(k)
      /\ \A k \in (1 .. Len(s)) \ {i} : \E j \in 1 .. Len(s) - 1 : k = p(j)
  <2>1. Len(s) \in Nat
    BY Elements, Zenon
  <2>2. QED
    BY <2>1, RemovedPlaces, ZenonT(40)
<1>a. /\ \A j \in 1 .. Len(t) : t[j] = s[p(j)] /\ p(j) \in 1 .. Len(s) /\ p(j) # i
      /\ \A j, k \in 1 .. Len(t) : j # k => p(j) # p(k)
      /\ \A k \in (1 .. Len(s)) \ {i} : \E j \in 1 .. Len(t) : k = p(j)
  BY <1>1, <1>2, Zenon
<1> HIDE DEF t, p
<1>3. \A j, k \in 1 .. Len(t) : j # k => t[j] # t[k]
  BY <1>a, ZenonT(40)
<1>4. DOMAIN s = 1 .. Len(s) /\ DOMAIN t = 1 .. Len(t)
  BY <1>1
<1>5. Range(t) = Range(s) \ {s[i]}
  <2>1. ASSUME NEW x \in Range(t) PROVE x \in Range(s) \ {s[i]}
    <3>1. PICK j \in 1 .. Len(t) : x = t[j]
      BY <1>4, Zenon DEF Range
    <3>2. x = s[p(j)] /\ p(j) \in 1 .. Len(s) /\ p(j) # i
      BY <1>a, <3>1, Zenon
    <3>3. QED
      BY <1>4, <3>2, Zenon DEF Range
  <2>2. ASSUME NEW x \in Range(s) \ {s[i]} PROVE x \in Range(t)
    <3>1. PICK k \in 1 .. Len(s) : x = s[k]
      BY <1>4, Zenon DEF Range
    <3>2. PICK j \in 1 .. Len(t) : k = p(j)
      BY <1>a, <3>1, Zenon
    <3>3. QED
      BY <1>a, <1>4, <3>1, <3>2, Zenon DEF Range
  <2>3. QED
    BY <2>1, <2>2, Zenon
<1>6. QED
  BY <1>1, <1>3, <1>5, Zenon DEF t

Message == [id : Ids, code : Codes]

\* The queue of messages without the one of a request.
LEMMA QueueWithout ==
    ASSUME NEW s \in Seq(Message), NEW i \in 1 .. Len(s),
           \A j, k \in 1 .. Len(s) : j # k => s[j].id # s[k].id
    PROVE  /\ Without(s, i) \in Seq(Message)
           /\ \A j, k \in 1 .. Len(Without(s, i)) : j # k => Without(s, i)[j].id # Without(s, i)[k].id
           /\ {Without(s, i)[j].id : j \in 1 .. Len(Without(s, i))}
                = {s[j].id : j \in 1 .. Len(s)} \ {s[i].id}
           /\ \A j \in 1 .. Len(Without(s, i)) : \E k \in 1 .. Len(s) : Without(s, i)[j] = s[k]
<1> DEFINE t == Without(s, i)
           p(j) == Place(i, j)
<1>1. t \in Seq(Message) /\ Len(t) = Len(s) - 1 /\ \A j \in 1 .. Len(s) - 1 : t[j] = s[p(j)]
  BY WithoutFacts, Zenon
<1>2. /\ \A j \in 1 .. Len(s) - 1 : p(j) \in (1 .. Len(s)) \ {i}
      /\ \A j, k \in 1 .. Len(s) - 1 : j # k => p(j) # p(k)
      /\ \A k \in (1 .. Len(s)) \ {i} : \E j \in 1 .. Len(s) - 1 : k = p(j)
  <2>1. Len(s) \in Nat
    BY Elements, Zenon
  <2>2. QED
    BY <2>1, RemovedPlaces, ZenonT(40)
<1>a. /\ \A j \in 1 .. Len(t) : t[j] = s[p(j)] /\ p(j) \in 1 .. Len(s) /\ p(j) # i
      /\ \A j, k \in 1 .. Len(t) : j # k => p(j) # p(k)
      /\ \A k \in (1 .. Len(s)) \ {i} : \E j \in 1 .. Len(t) : k = p(j)
  BY <1>1, <1>2, Zenon
<1> HIDE DEF t, p
<1>3. ASSUME NEW j \in 1 .. Len(t), NEW k \in 1 .. Len(t), j # k PROVE t[j].id # t[k].id
  <2>1. t[j] = s[p(j)] /\ t[k] = s[p(k)] /\ p(j) # p(k) /\ p(j) \in 1 .. Len(s) /\ p(k) \in 1 .. Len(s)
    BY <1>a, <1>3, Zenon
  <2>2. QED
    BY <2>1, Zenon
<1>4. {t[j].id : j \in 1 .. Len(t)} = {s[j].id : j \in 1 .. Len(s)} \ {s[i].id}
  <2>1. ASSUME NEW j \in 1 .. Len(t) PROVE t[j].id \in {s[k].id : k \in 1 .. Len(s)} \ {s[i].id}
    BY <1>a, <2>1, ZenonT(40)
  <2>2. ASSUME NEW k \in 1 .. Len(s), s[k].id # s[i].id PROVE s[k].id \in {t[j].id : j \in 1 .. Len(t)}
    <3>1. PICK j \in 1 .. Len(t) : k = p(j)
      BY <1>a, <2>2, Zenon
    <3>2. QED
      BY <1>a, <3>1, ZenonT(40)
  <2>3. QED
    BY <2>1, <2>2, ZenonT(40)
<1>5. \A j \in 1 .. Len(t) : \E k \in 1 .. Len(s) : t[j] = s[k]
  BY <1>a, Zenon
<1>6. QED
  BY <1>1, <1>3, <1>4, <1>5, Zenon DEF t

\* A sequence with an element in front, by its indices.
LEMMA ConsFacts ==
    ASSUME NEW S, NEW s \in Seq(S), NEW e \in S
    PROVE  /\ <<e>> \o s \in Seq(S) /\ Len(<<e>> \o s) = Len(s) + 1
           /\ (<<e>> \o s)[1] = e
           /\ \A i \in 1 .. Len(s) : (<<e>> \o s)[i + 1] = s[i]
           /\ \A i \in 2 .. Len(s) + 1 : (<<e>> \o s)[i] = s[i - 1] /\ i - 1 \in 1 .. Len(s)
           /\ Len(s) \in Nat /\ <<e>> \o s # <<>> /\ 1 .. Len(s) + 1 = {1} \union 2 .. Len(s) + 1
OBVIOUS

LEMMA HttpInit == Init => HttpInv
<1> SUFFICES ASSUME Init PROVE HttpInv
  OBVIOUS
<1>1. \A S : <<>> \in Seq(S)
  OBVIOUS
<1>2. Len(<<>>) = 0 /\ 1 .. 0 = {} /\ DOMAIN <<>> = {}
  BY SMT
<1>3. /\ 0 \in 0 .. MaxPending /\ 0 \in 0 .. MaxPosts /\ 0 \in 0 .. MaxResponse
      /\ 0 \in 0 .. MaxResponse + 1
  BY MaxPendingAssumption, MaxPostsAssumption, MaxResponseAssumption, SMT
<1>4. pc \in {"loop", "perform", "drain", "callback", "destroyed"} /\ pc # "callback"
      /\ returned \in {"OK", "ERR_HTTP"}
  BY SMT DEF Init
<1>5. TypeOK /\ pending = Len(requests)
  BY <1>1, <1>2, <1>3, <1>4, Zenon DEF Init, TypeOK
<1>6. Finished = {} /\ InCompletion = {} /\ Range(requests) = {}
  BY <1>2, Zenon DEF Init, Finished, InCompletion, Range
<1>7. Nesting /\ Once
  BY <1>2, <1>4, Zenon DEF Init, Nesting, Once
<1>8. Parts
  BY <1>6, Zenon DEF Parts, Init
<1>9. Kept /\ SuccessIsComplete
  BY <1>2, Zenon DEF Init, Kept, SuccessIsComplete
<1>10. QED
  BY <1>5, <1>7, <1>8, <1>9, Zenon DEF HttpInv

LEMMA HttpTypes ==
    ASSUME HttpInv
    PROVE  /\ requests \in Seq(Ids) /\ msgs \in Seq(Message) /\ running \subseteq Ids
           /\ stack \in Seq([id : Ids, back : {"loop", "drain", "callback"}])
           /\ issued \in 0 .. MaxPosts /\ MaxPosts \in Nat /\ issued \in Nat
           /\ pending \in 0 .. MaxPending /\ pending = Len(requests) /\ MaxPending \in Nat
           /\ \A r \in Ids : r \in Nat /\ response_size[r] \in 0 .. MaxResponse
           /\ MaxResponse \in Nat /\ TypeOK
           /\ completed \in Seq([id : Ids, code : Codes, size : 0 .. MaxResponse])
           /\ Finished \subseteq Ids /\ InCompletion \subseteq Ids /\ Range(requests) \subseteq Ids
<1>1. TypeOK /\ pending = Len(requests)
  BY Zenon DEF HttpInv
<1>2. /\ requests \in Seq(Ids) /\ msgs \in Seq(Message) /\ running \subseteq Ids
      /\ stack \in Seq([id : Ids, back : {"loop", "drain", "callback"}])
      /\ issued \in 0 .. MaxPosts /\ pending \in 0 .. MaxPending
      /\ completed \in Seq([id : Ids, code : Codes, size : 0 .. MaxResponse])
      /\ \A r \in Ids : response_size[r] \in 0 .. MaxResponse
  BY <1>1, Zenon DEF TypeOK, Message
<1>3. /\ MaxPosts \in Nat /\ issued \in Nat /\ MaxPending \in Nat /\ MaxResponse \in Nat
      /\ \A r \in Ids : r \in Nat
  BY <1>2, MaxPostsAssumption, MaxPendingAssumption, MaxResponseAssumption, SMT DEF Ids
<1>4. /\ \A i \in 1 .. Len(msgs) : msgs[i] \in Message
      /\ \A i \in 1 .. Len(stack) : stack[i] \in [id : Ids, back : {"loop", "drain", "callback"}]
      /\ \A i \in 1 .. Len(requests) : requests[i] \in Ids
      /\ DOMAIN requests = 1 .. Len(requests)
  <2>1. \A i \in 1 .. Len(msgs) : msgs[i] \in Message
    BY <1>2, Elements, Zenon
  <2>2. \A i \in 1 .. Len(stack) : stack[i] \in [id : Ids, back : {"loop", "drain", "callback"}]
    BY <1>2, Elements, Zenon
  <2>3. \A i \in 1 .. Len(requests) : requests[i] \in Ids
    BY <1>2, Elements, Zenon
  <2>4. DOMAIN requests = 1 .. Len(requests)
    BY <1>2, SMT
  <2>5. QED
    BY <2>1, <2>2, <2>3, <2>4, Zenon
<1>5. Finished \subseteq Ids /\ InCompletion \subseteq Ids /\ Range(requests) \subseteq Ids
  BY <1>4, ZenonT(40) DEF Finished, InCompletion, Range, Message
<1>6. QED
  BY <1>1, <1>2, <1>3, <1>5, Zenon

\* What curl_multi_remove_handle leaves.
LEMMA RemovedHandle ==
    ASSUME HttpInv, NEW r \in Ids, curl_multi_remove_handle(r)
    PROVE  /\ running' = running \ {r} /\ msgs' \in Seq(Message) /\ Finished' = Finished \ {r}
           /\ \A j, k \in 1 .. Len(msgs') : j # k => msgs'[j].id # msgs'[k].id
           /\ \A j \in 1 .. Len(msgs') : \E k \in 1 .. Len(msgs) : msgs'[j] = msgs[k]
<1>1. msgs \in Seq(Message) /\ running' = running \ {r}
  BY HttpTypes, Zenon DEF curl_multi_remove_handle
<1>2. \A j, k \in 1 .. Len(msgs) : j # k => msgs[j].id # msgs[k].id
  BY Zenon DEF HttpInv, Once
<1>3. CASE (\A i \in 1 .. Len(msgs) : msgs[i].id # r) /\ msgs' = msgs
  BY <1>1, <1>2, <1>3, ZenonT(40) DEF Finished
<1>4. ASSUME NEW i \in 1 .. Len(msgs), msgs[i].id = r, msgs' = Without(msgs, i)
      PROVE  /\ msgs' \in Seq(Message) /\ Finished' = Finished \ {r}
             /\ \A j, k \in 1 .. Len(msgs') : j # k => msgs'[j].id # msgs'[k].id
             /\ \A j \in 1 .. Len(msgs') : \E k \in 1 .. Len(msgs) : msgs'[j] = msgs[k]
  <2>1. /\ Without(msgs, i) \in Seq(Message)
        /\ \A j, k \in 1 .. Len(Without(msgs, i)) : j # k => Without(msgs, i)[j].id # Without(msgs, i)[k].id
        /\ {Without(msgs, i)[j].id : j \in 1 .. Len(Without(msgs, i))}
              = {msgs[j].id : j \in 1 .. Len(msgs)} \ {msgs[i].id}
        /\ \A j \in 1 .. Len(Without(msgs, i)) : \E k \in 1 .. Len(msgs) : Without(msgs, i)[j] = msgs[k]
    BY <1>1, <1>2, QueueWithout, Zenon
  <2>2. QED
    BY <1>4, <2>1, ZenonT(40) DEF Finished
<1>5. QED
  BY <1>1, <1>3, <1>4, Zenon DEF curl_multi_remove_handle

\* complete_fn is called for a request libcurl worked on or has finished.
LEMMA HttpCompletes ==
    ASSUME HttpInv, NEW r \in running \union Finished, NEW code \in Codes,
           NEW back \in {"loop", "drain", "callback"},
           curl_multi_remove_handle(r), CallComplete(r, code, back), UNCHANGED <<client, received, issued, returned>>,
           stack = <<>> <=> back # "callback",
           code = "OK" => response_size[r] = received[r]
    PROVE  HttpInv'
<1>0. TypeOK /\ Nesting /\ Once /\ Parts /\ Kept /\ SuccessIsComplete
  BY Zenon DEF HttpInv
<1>1. r \in Ids /\ r \in Range(requests) /\ r \notin InCompletion
  BY <1>0, HttpTypes, Zenon DEF Parts
<1>2. /\ running' = running \ {r} /\ msgs' \in Seq(Message) /\ Finished' = Finished \ {r}
      /\ \A j, k \in 1 .. Len(msgs') : j # k => msgs'[j].id # msgs'[k].id
      /\ \A j \in 1 .. Len(msgs') : \E k \in 1 .. Len(msgs) : msgs'[j] = msgs[k]
  BY <1>1, RemovedHandle, Zenon
<1>3. UNCHANGED <<requests, pending, user_data, response_size, received, issued, returned>>
  BY Zenon DEF client
<1> DEFINE frame == [id |-> r, back |-> back]
           result == [id |-> r, code |-> code, size |-> response_size[r]]
<1>4. frame \in [id : Ids, back : {"loop", "drain", "callback"}] /\ frame.id = r /\ frame.back = back
  BY <1>1, Zenon
<1>5. /\ result \in [id : Ids, code : Codes, size : 0 .. MaxResponse]
      /\ result.id = r /\ result.code = code /\ result.size = response_size[r]
  BY <1>1, HttpTypes, Zenon
<1>6. stack' = <<frame>> \o stack /\ completed' = Append(completed, result) /\ pc' = "callback"
  BY Zenon DEF CallComplete
<1> HIDE DEF frame, result
<1>7. /\ stack' \in Seq([id : Ids, back : {"loop", "drain", "callback"}])
      /\ Len(stack') = Len(stack) + 1 /\ stack'[1] = frame /\ stack' # <<>> /\ Len(stack) \in Nat
      /\ \A i \in 1 .. Len(stack) : stack'[i + 1] = stack[i]
      /\ \A i \in 2 .. Len(stack) + 1 : stack'[i] = stack[i - 1] /\ i - 1 \in 1 .. Len(stack)
  <2>1. stack \in Seq([id : Ids, back : {"loop", "drain", "callback"}])
    BY HttpTypes, Zenon
  <2> DEFINE t == <<frame>> \o stack
  <2>2. /\ t \in Seq([id : Ids, back : {"loop", "drain", "callback"}])
        /\ Len(t) = Len(stack) + 1 /\ t[1] = frame /\ t # <<>> /\ Len(stack) \in Nat
        /\ \A i \in 1 .. Len(stack) : t[i + 1] = stack[i]
        /\ \A i \in 2 .. Len(stack) + 1 : t[i] = stack[i - 1] /\ i - 1 \in 1 .. Len(stack)
    BY <1>4, <2>1, ConsFacts
  <2> HIDE DEF t
  <2>3. stack' = t
    BY <1>6, Zenon DEF t
  <2>4. QED
    BY <2>2, <2>3, Zenon
<1>8. /\ completed' \in Seq([id : Ids, code : Codes, size : 0 .. MaxResponse])
      /\ Len(completed') = Len(completed) + 1 /\ completed'[Len(completed) + 1] = result
      /\ \A i \in 1 .. Len(completed) : completed'[i] = completed[i]
      /\ Len(completed) \in Nat
  BY <1>5, <1>6, HttpTypes, AppendFacts, Elements
<1>9. TypeOK'
  <2>1. pc' \in {"loop", "perform", "drain", "callback", "destroyed"}
    BY <1>6, SMT
  <2>2. running' \subseteq Ids
    BY <1>2, HttpTypes, Zenon
  <2>3. QED
    BY <1>0, <1>2, <1>3, <1>7, <1>8, <2>1, <2>2, ZenonT(40) DEF TypeOK, Message
<1>10. \A i \in 1 .. Len(stack') : i = 1 \/ i \in 2 .. Len(stack) + 1
  BY <1>7, SMT
<1>11. InCompletion' = InCompletion \union {r}
  <2>1. ASSUME NEW i \in 1 .. Len(stack') PROVE stack'[i].id \in InCompletion \union {r}
    BY <1>4, <1>7, <1>10, ZenonT(40) DEF InCompletion
  <2>2. \A i \in 1 .. Len(stack) : i + 1 \in 1 .. Len(stack') /\ 1 \in 1 .. Len(stack')
    BY <1>7, SMT
  <2>3. 1 \in 1 .. Len(stack')
    BY <1>7, SMT
  <2>4. ASSUME NEW x \in InCompletion PROVE x \in InCompletion'
    BY <1>7, <2>2, <2>4, ZenonT(40) DEF InCompletion
  <2>5. r \in InCompletion'
    BY <1>4, <1>7, <2>3, Zenon DEF InCompletion
  <2>6. QED
    BY <2>1, <2>4, <2>5, Zenon DEF InCompletion
<1>12. Nesting'
  <2>1. ASSUME NEW i \in 1 .. Len(stack') PROVE i < Len(stack') <=> stack'[i].back = "callback"
    <3>1. CASE i = 1
      <4>1. 1 < Len(stack') <=> stack # <<>>
        BY <1>7, HttpTypes, SMTT(30)
      <4>2. QED
        BY <1>4, <1>7, <3>1, <4>1, Zenon
    <3>2. CASE i \in 2 .. Len(stack) + 1
      <4>1. i < Len(stack') <=> i - 1 < Len(stack)
        BY <1>7, <3>2, SMT
      <4>2. QED
        BY <1>0, <1>7, <3>2, <4>1, Zenon DEF Nesting
    <3>3. QED
      BY <1>10, <3>1, <3>2, Zenon
  <2>2. QED
    BY <1>6, <1>7, <2>1, Zenon DEF Nesting
<1>13. Once'
  <2>1. \A i, j \in 1 .. Len(requests') : i # j => requests'[i] # requests'[j]
    BY <1>0, <1>3, ZenonT(40) DEF Once
  <2>2. ASSUME NEW i \in 2 .. Len(stack) + 1, NEW j \in 2 .. Len(stack) + 1, i # j
        PROVE  stack'[i].id # stack'[j].id
    <3>1. i - 1 # j - 1
      BY <1>7, <2>2, SMT
    <3>2. /\ stack'[i] = stack[i - 1] /\ i - 1 \in 1 .. Len(stack)
          /\ stack'[j] = stack[j - 1] /\ j - 1 \in 1 .. Len(stack)
      BY <1>7, Zenon
    <3>3. stack[i - 1].id # stack[j - 1].id
      BY <1>0, <3>1, <3>2, Zenon DEF Once
    <3>4. QED
      BY <3>2, <3>3, Zenon
  <2>3. ASSUME NEW i \in 2 .. Len(stack) + 1 PROVE stack'[i].id # stack'[1].id
    <3>1. stack'[i] = stack[i - 1] /\ i - 1 \in 1 .. Len(stack) /\ stack'[1].id = r
      BY <1>4, <1>7, Zenon
    <3>2. stack[i - 1].id \in InCompletion
      BY <3>1, Zenon DEF InCompletion
    <3>3. QED
      BY <1>1, <3>1, <3>2, Zenon
  <2>4. \A i, j \in 1 .. Len(stack') : i # j => stack'[i].id # stack'[j].id
    BY <1>10, <2>2, <2>3, Zenon
  <2>5. QED
    BY <1>2, <2>1, <2>4, Zenon DEF Once
<1>14. Parts'
  BY <1>0, <1>1, <1>2, <1>3, <1>11, ZenonT(40) DEF Parts
<1>15. \A i \in 1 .. Len(completed') : i \in 1 .. Len(completed) \/ i = Len(completed) + 1
  BY <1>8, SMT
<1>16. Kept'
  <2>1. \A i \in 1 .. Len(completed') : completed'[i].id <= issued /\ completed'[i].id \notin running'
    BY <1>0, <1>1, <1>2, <1>5, <1>8, <1>15, Zenon DEF Kept, Parts
  <2>2. ASSUME NEW i \in 1 .. Len(msgs'), msgs'[i].code = "OK"
        PROVE  response_size[msgs'[i].id] = received[msgs'[i].id]
    <3>1. PICK k \in 1 .. Len(msgs) : msgs'[i] = msgs[k]
      BY <1>2, Zenon
    <3>2. QED
      BY <1>0, <2>2, <3>1, Zenon DEF Kept
  <2>3. \A q \in running' : response_size[q] = received[q]
    BY <1>0, <1>2, Zenon DEF Kept
  <2>4. \A q \in Ids : q > issued => response_size[q] = 0 /\ received[q] = 0
    BY <1>0, Zenon DEF Kept
  <2>5. QED
    BY <1>3, <2>1, <2>2, <2>3, <2>4, Zenon DEF Kept
<1>17. SuccessIsComplete'
  BY <1>0, <1>3, <1>5, <1>8, <1>15, ZenonT(40) DEF SuccessIsComplete
<1>18. pending' = Len(requests')
  BY <1>3, HttpTypes, Zenon
<1>19. QED
  BY <1>9, <1>12, <1>13, <1>14, <1>16, <1>17, <1>18, Zenon DEF HttpInv

LEMMA HttpPost ==
    ASSUME HttpInv, alpha_http_post_json
    PROVE  HttpInv'
<1>0. TypeOK /\ Nesting /\ Once /\ Parts /\ Kept /\ SuccessIsComplete
  BY Zenon DEF HttpInv
<1> DEFINE r == issued + 1
<1>1. /\ pending < MaxPending /\ issued < MaxPosts /\ issued' = r
      /\ requests' = <<r>> \o requests /\ pending' = pending + 1 /\ running' = running \union {r}
      /\ UNCHANGED <<pc, stack, msgs, response_size, received, completed, returned>>
  BY Zenon DEF alpha_http_post_json, Accepts
<1>2. PICK u \in Tokens \union {"NULL"} : user_data' = [user_data EXCEPT ![r] = u]
  BY Zenon DEF alpha_http_post_json
<1>4. r \in Ids /\ r > issued /\ r <= r /\ issued' \in 0 .. MaxPosts /\ pending' \in 0 .. MaxPending
      /\ \A q \in Nat : (q <= issued => q <= r /\ q # r) /\ (q > r => q > issued)
  <2>1. issued \in Nat /\ MaxPosts \in Nat /\ pending \in 0 .. MaxPending /\ MaxPending \in Nat
    BY HttpTypes, Zenon
  <2>2. issued < MaxPosts /\ issued' = issued + 1 /\ pending < MaxPending /\ pending' = pending + 1
    BY <1>1, Zenon
  <2>3. r \in Ids /\ issued' \in 0 .. MaxPosts /\ pending' \in 0 .. MaxPending
    BY <2>1, <2>2, SMT DEF Ids
  <2>4. r > issued /\ r <= r
        /\ \A q \in Nat : (q <= issued => q <= r /\ q # r) /\ (q > r => q > issued)
    BY <2>1, SMT
  <2>5. QED
    BY <2>3, <2>4, Zenon
<1>5. r \notin Range(requests)
  <2>1. Range(requests) \subseteq Ids /\ \A q \in Range(requests) : q <= issued
    BY <1>0, HttpTypes, Zenon DEF Parts
  <2>2. \A q \in Ids : q \in Nat
    BY SMT DEF Ids
  <2>3. QED
    BY <1>4, <2>1, <2>2, Zenon
<1> HIDE DEF r
<1>6. /\ requests' \in Seq(Ids) /\ Len(requests') = Len(requests) + 1 /\ requests'[1] = r
      /\ Len(requests) \in Nat
      /\ \A i \in 1 .. Len(requests) : requests'[i + 1] = requests[i]
      /\ \A i \in 2 .. Len(requests) + 1 : requests'[i] = requests[i - 1] /\ i - 1 \in 1 .. Len(requests)
  <2>1. requests \in Seq(Ids) /\ r \in Ids
    BY <1>4, HttpTypes, Zenon
  <2>2. requests' = <<r>> \o requests
    BY <1>1, ZenonT(40)
  <2> DEFINE t == <<r>> \o requests
  <2>3. /\ t \in Seq(Ids) /\ Len(t) = Len(requests) + 1 /\ t[1] = r /\ Len(requests) \in Nat
        /\ \A i \in 1 .. Len(requests) : t[i + 1] = requests[i]
        /\ \A i \in 2 .. Len(requests) + 1 : t[i] = requests[i - 1] /\ i - 1 \in 1 .. Len(requests)
    BY <2>1, ConsFacts, SMTT(30)
  <2> HIDE DEF t
  <2>4. requests' = t
    BY <2>2, Zenon DEF t
  <2>5. QED
    BY <2>3, <2>4, Zenon
<1>7. \A i \in 1 .. Len(requests') : i = 1 \/ i \in 2 .. Len(requests) + 1
  BY <1>6, SMT
<1>8. DOMAIN requests = 1 .. Len(requests) /\ DOMAIN requests' = 1 .. Len(requests')
  BY <1>6, HttpTypes
<1>9. Range(requests') = Range(requests) \union {r}
  <2>1. ASSUME NEW i \in 1 .. Len(requests') PROVE requests'[i] \in Range(requests) \union {r}
    BY <1>6, <1>7, <1>8, Zenon DEF Range
  <2>2. \A i \in 1 .. Len(requests) : i + 1 \in 1 .. Len(requests')
    BY <1>6, SMT
  <2>3. 1 \in 1 .. Len(requests')
    BY <1>6, SMT
  <2>4. ASSUME NEW x \in Range(requests) PROVE x \in Range(requests')
    <3>1. PICK i \in 1 .. Len(requests) : x = requests[i]
      BY <1>8, Zenon DEF Range
    <3>2. x = requests'[i + 1] /\ i + 1 \in 1 .. Len(requests')
      BY <1>6, <2>2, <3>1, Zenon
    <3>3. QED
      BY <1>8, <3>2, Zenon DEF Range
  <2>5. r \in Range(requests')
    BY <1>6, <1>8, <2>3, ZenonT(40) DEF Range
  <2>6. QED
    BY <1>8, <2>1, <2>4, <2>5, Zenon DEF Range
<1>10. TypeOK'
  <2>1. user_data' \in [Ids -> Tokens \union {"NULL"}]
    BY <1>0, <1>2, Zenon DEF TypeOK
  <2>2. running' \subseteq Ids
    BY <1>1, <1>4, HttpTypes, Zenon
  <2>3. QED
    BY <1>0, <1>1, <1>4, <1>6, <2>1, <2>2, Zenon DEF TypeOK
<1>11. pending' = Len(requests')
  BY <1>1, <1>6, HttpTypes, Zenon
<1>12. Finished' = Finished /\ InCompletion' = InCompletion
  BY <1>1, Zenon DEF Finished, InCompletion
<1>13. Nesting'
  BY <1>0, <1>1, Zenon DEF Nesting
<1>14. Once'
  <2>1. ASSUME NEW i \in 2 .. Len(requests) + 1, NEW j \in 2 .. Len(requests) + 1, i # j
        PROVE  requests'[i] # requests'[j]
    <3>1. i - 1 # j - 1
      BY <1>6, <2>1, SMT
    <3>2. /\ requests'[i] = requests[i - 1] /\ i - 1 \in 1 .. Len(requests)
          /\ requests'[j] = requests[j - 1] /\ j - 1 \in 1 .. Len(requests)
      BY <1>6, Zenon
    <3>3. requests[i - 1] # requests[j - 1]
      BY <1>0, <3>1, <3>2, Zenon DEF Once
    <3>4. QED
      BY <3>2, <3>3, Zenon
  <2>2. ASSUME NEW i \in 2 .. Len(requests) + 1 PROVE requests'[i] # requests'[1]
    <3>1. requests'[i] = requests[i - 1] /\ i - 1 \in 1 .. Len(requests)
      BY <1>6, Zenon
    <3>2. requests[i - 1] \in Range(requests)
      BY <1>8, <3>1, Zenon DEF Range
    <3>3. QED
      BY <1>5, <1>6, <3>1, <3>2, Zenon
  <2>3. \A i, j \in 1 .. Len(requests') : i # j => requests'[i] # requests'[j]
    BY <1>7, <2>1, <2>2, Zenon
  <2>4. QED
    BY <1>0, <1>1, <2>3, ZenonT(40) DEF Once
<1>15. Parts'
  <2>1. \A q \in Range(requests') : q <= issued'
    BY <1>0, <1>1, <1>4, <1>9, HttpTypes, Zenon DEF Parts
  <2>2. QED
    BY <1>0, <1>1, <1>5, <1>9, <1>12, <2>1, ZenonT(40) DEF Parts
<1>17. \A i \in 1 .. Len(completed) : completed[i].id \in Ids /\ completed[i].id <= issued
  <2>1. \A i \in 1 .. Len(completed) : completed[i] \in [id : Ids, code : Codes, size : 0 .. MaxResponse]
    BY HttpTypes, Elements, Zenon
  <2>2. QED
    BY <1>0, <2>1, Zenon DEF Kept
<1>18. \A i \in 1 .. Len(completed) : completed[i].id # r
  BY <1>4, <1>17, HttpTypes, Zenon
<1>19. Kept'
  <2>1. \A q \in Ids : q > issued' => response_size[q] = 0 /\ received[q] = 0
    BY <1>0, <1>1, <1>4, HttpTypes, Zenon DEF Kept
  <2>2. \A q \in running' : response_size[q] = received[q]
    BY <1>0, <1>1, <1>4, Zenon DEF Kept
  <2>3. \A i \in 1 .. Len(msgs) : msgs[i].code = "OK" => response_size[msgs[i].id] = received[msgs[i].id]
    BY <1>0, Zenon DEF Kept
  <2>4. \A i \in 1 .. Len(completed) : completed[i].id <= issued'
    BY <1>1, <1>4, <1>17, HttpTypes, ZenonT(40)
  <2>5. \A i \in 1 .. Len(completed) : completed[i].id \notin running'
    BY <1>0, <1>1, <1>18, Zenon DEF Kept
  <2>6. QED
    BY <1>1, <2>1, <2>2, <2>3, <2>4, <2>5, ZenonT(40) DEF Kept
<1>20. SuccessIsComplete'
  BY <1>0, <1>1, Zenon DEF SuccessIsComplete
<1>21. QED
  BY <1>10, <1>11, <1>13, <1>14, <1>15, <1>19, <1>20, Zenon DEF HttpInv

\* A completion that returns frees its request, which nobody else holds.
LEMMA HttpReturns ==
    ASSUME HttpInv, CompleteReturns
    PROVE  HttpInv'
<1>0. TypeOK /\ Nesting /\ Once /\ Parts /\ Kept /\ SuccessIsComplete
  BY Zenon DEF HttpInv
<1> DEFINE r == Head(stack).id
<1>1. /\ pc = "callback" /\ unlink_and_free(r) /\ pc' = Head(stack).back /\ stack' = Tail(stack)
      /\ UNCHANGED <<response_size, running, msgs, received, issued, completed, returned>>
  BY Zenon DEF CompleteReturns, curl
<1>2. stack # <<>> /\ Len(stack) > 0
  BY <1>0, <1>1, HttpTypes, SMT DEF Nesting
<1>3. /\ stack' \in Seq([id : Ids, back : {"loop", "drain", "callback"}])
      /\ Len(stack') = Len(stack) - 1 /\ Head(stack) = stack[1]
      /\ stack[1] \in [id : Ids, back : {"loop", "drain", "callback"}]
      /\ \A i \in 1 .. Len(stack) - 1 : stack'[i] = stack[i + 1]
  <2>1. stack \in Seq([id : Ids, back : {"loop", "drain", "callback"}])
    BY HttpTypes, Zenon
  <2>2. /\ Tail(stack) \in Seq([id : Ids, back : {"loop", "drain", "callback"}])
        /\ Len(Tail(stack)) = Len(stack) - 1 /\ Head(stack) = stack[1]
        /\ stack[1] \in [id : Ids, back : {"loop", "drain", "callback"}]
        /\ \A i \in 1 .. Len(stack) - 1 : Tail(stack)[i] = stack[i + 1]
    <3>1. \A S : \A s \in Seq(S) : Len(s) > 0 =>
            /\ Tail(s) \in Seq(S) /\ Len(Tail(s)) = Len(s) - 1 /\ Head(s) = s[1] /\ s[1] \in S
            /\ \A i \in 1 .. Len(s) - 1 : Tail(s)[i] = s[i + 1]
      BY TailFacts, Zenon
    <3>2. QED
      BY <1>2, <2>1, <3>1, Zenon
  <2>3. QED
    BY <1>1, <2>2, Zenon
<1>4. /\ \A i \in 1 .. Len(stack') : i \in 1 .. Len(stack) - 1 /\ i + 1 \in 1 .. Len(stack) /\ i + 1 # 1
      /\ \A i \in 1 .. Len(stack) : i # 1 => i - 1 \in 1 .. Len(stack') /\ (i - 1) + 1 = i
      /\ 1 \in 1 .. Len(stack) /\ Len(stack) \in Nat /\ Len(stack') \in Nat
  <2>1. Len(stack) \in Nat
    BY HttpTypes, Elements, Zenon
  <2>2. QED
    BY <1>2, <1>3, <2>1, SMT
<1>5. r = stack[1].id /\ r \in InCompletion /\ r \in Ids
  BY <1>3, <1>4, HttpTypes, ZenonT(40) DEF InCompletion
<1>6. r \in Range(requests) /\ r \notin running /\ r \notin Finished
  BY <1>0, <1>5, Zenon DEF Parts
<1>7. DOMAIN requests = 1 .. Len(requests)
  BY HttpTypes
<1>8. r \in Range(requests)
  BY <1>6, Zenon
<1> HIDE DEF r
<1>9. PICK i \in 1 .. Len(requests) : requests[i] = r /\ requests' = Without(requests, i)
  BY <1>1, <1>8, Zenon DEF unlink_and_free
<1>10. pending' = pending - 1 /\ user_data' = [user_data EXCEPT ![r] = "NULL"]
  BY <1>1, <1>8, Zenon DEF unlink_and_free
<1>11. /\ requests' \in Seq(Ids) /\ Len(requests') = Len(requests) - 1
       /\ \A j, k \in 1 .. Len(requests') : j # k => requests'[j] # requests'[k]
       /\ Range(requests') = Range(requests) \ {r}
  <2>1. \A j, k \in 1 .. Len(requests) : j # k => requests[j] # requests[k]
    BY <1>0, Zenon DEF Once
  <2>2. /\ Without(requests, i) \in Seq(Ids) /\ Len(Without(requests, i)) = Len(requests) - 1
        /\ \A j, k \in 1 .. Len(Without(requests, i)) :
              j # k => Without(requests, i)[j] # Without(requests, i)[k]
        /\ Range(Without(requests, i)) = Range(requests) \ {requests[i]}
    <3>1. requests \in Seq(Ids)
      BY HttpTypes, Zenon
    <3>2. QED
      BY <2>1, <3>1, ListWithout, Zenon
  <2>3. QED
    BY <1>9, <2>2, Zenon
<1>12. pending' \in 0 .. MaxPending /\ pending' = Len(requests')
  <2>1. /\ pending \in 0 .. MaxPending /\ pending = Len(requests) /\ MaxPending \in Nat
        /\ Len(requests') \in Nat
    BY <1>11, HttpTypes, Elements, Zenon
  <2>2. QED
    BY <1>10, <1>11, <2>1, SMT
<1>13. pc' \in {"loop", "drain", "callback"}
  BY <1>1, <1>3, Zenon
<1>14. TypeOK'
  <2>1. pc' \in {"loop", "perform", "drain", "callback", "destroyed"}
    BY <1>13, SMT
  <2>2. user_data' \in [Ids -> Tokens \union {"NULL"}]
    BY <1>0, <1>10, Zenon DEF TypeOK
  <2>3. QED
    BY <1>0, <1>1, <1>3, <1>11, <1>12, <2>1, <2>2, Zenon DEF TypeOK
<1>15. InCompletion' = InCompletion \ {r}
  <2>1. ASSUME NEW j \in 1 .. Len(stack') PROVE stack'[j].id \in InCompletion \ {r}
    <3>1. stack'[j] = stack[j + 1] /\ j + 1 \in 1 .. Len(stack) /\ j + 1 # 1
      BY <1>3, <1>4, Zenon
    <3>2. stack[j + 1].id # stack[1].id
      BY <1>0, <1>4, <3>1, Zenon DEF Once
    <3>3. QED
      BY <1>5, <3>1, <3>2, Zenon DEF InCompletion
  <2>2. ASSUME NEW j \in 1 .. Len(stack), stack[j].id # r PROVE stack[j].id \in InCompletion'
    <3>1. j - 1 \in 1 .. Len(stack') /\ (j - 1) + 1 = j
      BY <1>4, <1>5, <2>2, Zenon
    <3>2. stack'[j - 1] = stack[(j - 1) + 1]
      BY <1>3, <1>4, <3>1, Zenon
    <3>3. stack'[j - 1] = stack[j]
      BY <3>1, <3>2, Zenon
    <3>4. QED
      BY <3>1, <3>3, Zenon DEF InCompletion
  <2>3. QED
    BY <2>1, <2>2, Zenon DEF InCompletion
<1>16. Nesting'
  <2>1. 1 < Len(stack) <=> stack' # <<>>
    BY <1>2, <1>3, <1>4, SMT
  <2>2. pc' = "callback" <=> stack' # <<>>
    BY <1>0, <1>1, <1>3, <1>4, <2>1, ZenonT(40) DEF Nesting
  <2>3. ASSUME NEW j \in 1 .. Len(stack') PROVE j < Len(stack') <=> stack'[j].back = "callback"
    <3>1. j < Len(stack') <=> j + 1 < Len(stack)
      BY <1>3, <1>4, SMT
    <3>2. stack'[j] = stack[j + 1] /\ j + 1 \in 1 .. Len(stack)
      BY <1>3, <1>4, Zenon
    <3>3. QED
      BY <1>0, <3>1, <3>2, ZenonT(40) DEF Nesting
  <2>4. QED
    BY <2>2, <2>3, Zenon DEF Nesting
<1>17. Once'
  <2>1. ASSUME NEW j \in 1 .. Len(stack'), NEW k \in 1 .. Len(stack'), j # k
        PROVE  stack'[j].id # stack'[k].id
    <3>1. j + 1 # k + 1
      BY <1>4, <2>1, SMT
    <3>2. /\ stack'[j] = stack[j + 1] /\ j + 1 \in 1 .. Len(stack)
          /\ stack'[k] = stack[k + 1] /\ k + 1 \in 1 .. Len(stack)
      BY <1>3, <1>4, Zenon
    <3>3. stack[j + 1].id # stack[k + 1].id
      BY <1>0, <3>1, <3>2, Zenon DEF Once
    <3>4. QED
      BY <3>2, <3>3, Zenon
  <2>2. QED
    BY <1>0, <1>1, <1>11, <2>1, ZenonT(40) DEF Once
<1>18. Finished' = Finished
  BY <1>1, Zenon DEF Finished
<1>19. Parts'
  BY <1>0, <1>1, <1>6, <1>11, <1>15, <1>18, ZenonT(40) DEF Parts
<1>20. Kept' /\ SuccessIsComplete'
  BY <1>0, <1>1, Zenon DEF Kept, SuccessIsComplete
<1>21. QED
  BY <1>12, <1>14, <1>16, <1>17, <1>19, <1>20, Zenon DEF HttpInv

\* Everything is given back at once, which is possible between two calls only.
LEMMA HttpDestroys ==
    ASSUME HttpInv, alpha_http_multi_destroy
    PROVE  HttpInv'
<1>0. TypeOK /\ Nesting /\ Once /\ Parts /\ Kept /\ SuccessIsComplete
  BY Zenon DEF HttpInv
<1>1. /\ pc = "loop" /\ pc' = "destroyed"
      /\ requests' = <<>> /\ pending' = 0 /\ running' = {} /\ msgs' = <<>>
      /\ UNCHANGED <<stack, user_data, response_size, received, issued, completed, returned>>
  BY Zenon DEF alpha_http_multi_destroy
<1>2. stack = <<>> /\ pc' # "callback" /\ pc' \in {"loop", "perform", "drain", "callback", "destroyed"}
  BY <1>0, <1>1, SMT DEF Nesting
<1>3. \A S : <<>> \in Seq(S)
  OBVIOUS
<1>4. Len(<<>>) = 0 /\ 1 .. 0 = {} /\ DOMAIN <<>> = {}
  BY SMT
<1>5. 0 \in 0 .. MaxPending
  BY MaxPendingAssumption, SMT
<1>6. TypeOK' /\ pending' = Len(requests')
  BY <1>0, <1>1, <1>2, <1>3, <1>4, <1>5, ZenonT(40) DEF TypeOK
<1>7. Finished' = {} /\ InCompletion' = {} /\ Range(requests') = {}
  BY <1>1, <1>2, <1>4, Zenon DEF Finished, InCompletion, Range
<1>8. Nesting' /\ Once'
  BY <1>1, <1>2, <1>4, Zenon DEF Nesting, Once
<1>9. Parts'
  BY <1>1, <1>7, Zenon DEF Parts
<1>10. Kept' /\ SuccessIsComplete'
  BY <1>0, <1>1, <1>4, ZenonT(40) DEF Kept, SuccessIsComplete
<1>11. QED
  BY <1>6, <1>8, <1>9, <1>10, Zenon DEF HttpInv

\* The queue of messages with the one of a transfer that ends.
LEMMA EndedTransfer ==
    ASSUME HttpInv, NEW r \in running, NEW code \in Codes, TransferEnds(r, code)
    PROVE  /\ running' = running \ {r} /\ running' \subseteq Ids
           /\ msgs' \in Seq(Message) /\ Len(msgs) \in Nat /\ Len(msgs') = Len(msgs) + 1
           /\ \A i \in 1 .. Len(msgs) : msgs'[i] = msgs[i]
           /\ msgs'[Len(msgs) + 1].id = r /\ msgs'[Len(msgs) + 1].code = code
           /\ Finished' = Finished \union {r}
<1> DEFINE m == [id |-> r, code |-> code]
<1>1. r \in Ids /\ msgs \in Seq(Message) /\ running \subseteq Ids
  BY HttpTypes, Zenon
<1>2. m \in Message /\ m.id = r /\ m.code = code
  BY <1>1, Zenon DEF Message
<1>3. running' = running \ {r} /\ msgs' = Append(msgs, m)
  BY Zenon DEF TransferEnds
<1> HIDE DEF m
<1>4. /\ msgs' \in Seq(Message) /\ Len(msgs') = Len(msgs) + 1 /\ msgs'[Len(msgs) + 1] = m
      /\ \A i \in 1 .. Len(msgs) : msgs'[i] = msgs[i]
  BY <1>1, <1>2, <1>3, AppendFacts
<1>5. Len(msgs) \in Nat
  BY <1>1, Elements, Zenon
<1>6. /\ \A i \in 1 .. Len(msgs') : i \in 1 .. Len(msgs) \/ i = Len(msgs) + 1
      /\ \A i \in 1 .. Len(msgs) : i \in 1 .. Len(msgs')
      /\ Len(msgs) + 1 \in 1 .. Len(msgs')
  BY <1>4, <1>5, SMT
<1>7. Finished' = Finished \union {r}
  <2>1. ASSUME NEW i \in 1 .. Len(msgs') PROVE msgs'[i].id \in Finished \union {r}
    BY <1>2, <1>4, <1>6, Zenon DEF Finished
  <2>2. ASSUME NEW i \in 1 .. Len(msgs) PROVE msgs[i].id \in Finished'
    <3>1. msgs'[i] = msgs[i] /\ i \in 1 .. Len(msgs')
      BY <1>4, <1>6, Zenon
    <3>2. QED
      BY <3>1, Zenon DEF Finished
  <2>3. r \in Finished'
    BY <1>2, <1>4, <1>6, Zenon DEF Finished
  <2>4. QED
    BY <2>1, <2>2, <2>3, Zenon DEF Finished
<1>8. QED
  BY <1>1, <1>2, <1>3, <1>4, <1>5, <1>7, Zenon

\* What was received of a completed request stays what it was.
LEMMA Others ==
    ASSUME HttpInv, NEW r \in running, \A q \in Ids : q # r => received'[q] = received[q]
    PROVE  \A i \in 1 .. Len(completed) : received'[completed[i].id] = received[completed[i].id]
<1>1. \A i \in 1 .. Len(completed) : completed[i] \in [id : Ids, code : Codes, size : 0 .. MaxResponse]
  BY HttpTypes, Elements, Zenon
<1>2. \A i \in 1 .. Len(completed) : completed[i].id \in Ids /\ completed[i].id # r
  BY <1>1, Zenon DEF HttpInv, Kept
<1>3. QED
  BY <1>2, Zenon

\* A transfer that ends becomes a message; one that ends well is complete.
LEMMA HttpEnds ==
    ASSUME HttpInv, TypeOK', NEW r \in running, NEW code \in Codes, TransferEnds(r, code),
           UNCHANGED <<pc, stack, requests, pending, response_size, issued, completed>>,
           \A q \in Ids : q # r => received'[q] = received[q],
           code = "OK" => response_size[r] = received'[r]
    PROVE  HttpInv'
<1>0. TypeOK /\ Nesting /\ Once /\ Parts /\ Kept /\ SuccessIsComplete /\ pending = Len(requests)
  BY Zenon DEF HttpInv
<1>1. r \in Ids /\ r \notin Finished /\ r \notin InCompletion /\ r \in Range(requests) /\ r <= issued
  BY <1>0, HttpTypes, Zenon DEF Parts
<1>2. issued \in Nat
  BY HttpTypes, Zenon
<1>3. /\ running' = running \ {r} /\ Len(msgs) \in Nat /\ Len(msgs') = Len(msgs) + 1
      /\ \A i \in 1 .. Len(msgs) : msgs'[i] = msgs[i]
      /\ msgs'[Len(msgs) + 1].id = r /\ msgs'[Len(msgs) + 1].code = code
      /\ Finished' = Finished \union {r}
  BY EndedTransfer, Zenon
<1>4. \A i \in 1 .. Len(msgs') : i \in 1 .. Len(msgs) \/ i = Len(msgs) + 1
  BY <1>3, SMT
<1>5. InCompletion' = InCompletion /\ Nesting'
  BY <1>0, Zenon DEF InCompletion, Nesting
<1>6. Once'
  <2>1. ASSUME NEW i \in 1 .. Len(msgs) PROVE msgs'[i].id # msgs'[Len(msgs) + 1].id
    BY <1>1, <1>3, Zenon DEF Finished
  <2>2. ASSUME NEW i \in 1 .. Len(msgs), NEW j \in 1 .. Len(msgs), i # j
        PROVE  msgs'[i].id # msgs'[j].id
    <3>1. msgs'[i] = msgs[i] /\ msgs'[j] = msgs[j] /\ msgs[i].id # msgs[j].id
      BY <1>0, <1>3, <2>2, Zenon DEF Once
    <3>2. QED
      BY <3>1, ZenonT(40)
  <2>3. \A i, j \in 1 .. Len(msgs') : i # j => msgs'[i].id # msgs'[j].id
    BY <1>4, <2>1, <2>2, Zenon
  <2>4. QED
    BY <1>0, <2>3, ZenonT(40) DEF Once
<1>7. Parts'
  <2>1. Range(requests') = running \union Finished \union InCompletion
    BY <1>0, Zenon DEF Parts
  <2>2. running' \union Finished' = running \union Finished
    BY <1>3, Zenon
  <2>3. running' \intersect Finished' = {} /\ running' \intersect InCompletion' = {}
    BY <1>0, <1>3, <1>5, Zenon DEF Parts
  <2>4. Finished' \intersect InCompletion' = {}
    BY <1>0, <1>1, <1>3, <1>5, Zenon DEF Parts
  <2>5. \A q \in Range(requests') : q <= issued'
    BY <1>0, Zenon DEF Parts
  <2>6. QED
    BY <1>5, <2>1, <2>2, <2>3, <2>4, <2>5, Zenon DEF Parts
<1>8. Kept'
  <2>1. ASSUME NEW q \in Ids, q > issued PROVE response_size[q] = 0 /\ received'[q] = 0
    <3>1. q # r
      BY <1>1, <1>2, <2>1, SMT DEF Ids
    <3>2. QED
      BY <1>0, <2>1, <3>1, ZenonT(40) DEF Kept
  <2>2. \A q \in running' : response_size[q] = received'[q]
    BY <1>0, <1>3, HttpTypes, ZenonT(40) DEF Kept
  <2>3. ASSUME NEW i \in 1 .. Len(msgs'), msgs'[i].code = "OK"
        PROVE  response_size[msgs'[i].id] = received'[msgs'[i].id]
    <3>1. CASE i \in 1 .. Len(msgs)
      <4>1. msgs'[i] = msgs[i] /\ msgs[i].code = "OK"
        BY <1>3, <2>3, <3>1, Zenon
      <4>2. response_size[msgs[i].id] = received[msgs[i].id]
        BY <1>0, <3>1, <4>1, ZenonT(40) DEF Kept
      <4>3. msgs[i].id \in Finished
        BY <3>1, Zenon DEF Finished
      <4>4. msgs[i].id \in Ids /\ msgs[i].id # r
        BY <1>1, <4>3, HttpTypes, Zenon
      <4>5. QED
        BY <4>1, <4>2, <4>4, Zenon
    <3>2. CASE i = Len(msgs) + 1
      BY <1>3, <2>3, <3>2, Zenon
    <3>3. QED
      BY <1>4, <3>1, <3>2, Zenon
  <2>4. \A i \in 1 .. Len(completed) : completed[i].id <= issued /\ completed[i].id \notin running'
    BY <1>0, <1>3, Zenon DEF Kept
  <2>5. QED
    BY <2>1, <2>2, <2>3, <2>4, Zenon DEF Kept
<1>9. SuccessIsComplete' /\ pending' = Len(requests')
  BY <1>0, Others, Zenon DEF SuccessIsComplete
<1>10. QED
  BY <1>5, <1>6, <1>7, <1>8, <1>9, Zenon DEF HttpInv

LEMMA HttpReceives ==
    ASSUME HttpInv, NEW r \in Ids, NEW n, Receive(r, n)
    PROVE  HttpInv'
<1>0. TypeOK /\ Nesting /\ Once /\ Parts /\ Kept /\ SuccessIsComplete /\ pending = Len(requests)
  BY Zenon DEF HttpInv
<1>1. /\ r \in running /\ n \in 1 .. MaxResponse + 1 - received[r]
      /\ received' = [received EXCEPT ![r] = @ + n] /\ receive_body(r, n)
      /\ UNCHANGED <<pc, stack, requests, pending, user_data, issued, completed, returned>>
  BY Zenon DEF Receive
<1>2. /\ received \in [Ids -> 0 .. MaxResponse + 1]
      /\ response_size \in [Ids -> 0 .. MaxResponse] /\ MaxResponse \in Nat
      /\ received[r] \in 0 .. MaxResponse + 1 /\ response_size[r] \in 0 .. MaxResponse
  BY <1>0, MaxResponseAssumption, ZenonT(40) DEF TypeOK
<1>3. received[r] + n \in 0 .. MaxResponse + 1 /\ n \in Nat
  BY <1>1, <1>2, SMT
<1>4. /\ received' \in [Ids -> 0 .. MaxResponse + 1]
      /\ received'[r] = received[r] + n /\ \A q \in Ids : q # r => received'[q] = received[q]
  BY <1>1, <1>2, <1>3, ZenonT(40)
<1>5. CASE Fits(r, n)
  <2>1. response_size' = [response_size EXCEPT ![r] = @ + n] /\ UNCHANGED <<running, msgs>>
    BY <1>1, <1>5, ZenonT(40) DEF receive_body, curl
  <2>2. response_size[r] + n \in 0 .. MaxResponse
    BY <1>2, <1>3, <1>5, SMT DEF Fits
  <2>3. /\ response_size' \in [Ids -> 0 .. MaxResponse]
        /\ response_size'[r] = response_size[r] + n
        /\ \A q \in Ids : q # r => response_size'[q] = response_size[q]
    BY <1>2, <2>1, <2>2, ZenonT(40)
  <2>4. TypeOK'
    BY <1>0, <1>1, <1>4, <2>1, <2>3, Zenon DEF TypeOK
  <2>5. Finished' = Finished /\ InCompletion' = InCompletion
    BY <1>1, <2>1, Zenon DEF Finished, InCompletion
  <2>6. Nesting' /\ Once'
    BY <1>0, <1>1, <2>1, ZenonT(40) DEF Nesting, Once
  <2>7. Parts'
    BY <1>0, <1>1, <2>1, <2>5, Zenon DEF Parts
  <2>8. r <= issued /\ r \notin Finished
    BY <1>0, <1>1, Zenon DEF Parts
  <2>9. \A i \in 1 .. Len(msgs) : msgs[i].id \in Ids /\ msgs[i].id # r
    <3>1. \A i \in 1 .. Len(msgs) : msgs[i].id \in Finished
      BY Zenon DEF Finished
    <3>2. QED
      BY <2>8, <3>1, HttpTypes, Zenon
  <2>10. Kept'
    <3>1. ASSUME NEW q \in Ids, q > issued PROVE response_size'[q] = 0 /\ received'[q] = 0
      <4>1. q # r
        BY <2>8, <3>1, HttpTypes, SMT
      <4>2. QED
        BY <1>0, <1>4, <2>3, <3>1, <4>1, Zenon DEF Kept
    <3>2. \A q \in running : response_size'[q] = received'[q]
      BY <1>0, <1>1, <1>4, <2>3, HttpTypes, Zenon DEF Kept
    <3>3. \A i \in 1 .. Len(msgs) :
             msgs[i].code = "OK" => response_size'[msgs[i].id] = received'[msgs[i].id]
      BY <1>0, <1>4, <2>3, <2>9, Zenon DEF Kept
    <3>4. QED
      BY <1>0, <1>1, <2>1, <3>1, <3>2, <3>3, ZenonT(40) DEF Kept
  <2>11. SuccessIsComplete'
    BY <1>0, <1>1, <1>4, Others, ZenonT(40) DEF SuccessIsComplete
  <2>12. QED
    BY <1>0, <1>1, <2>4, <2>6, <2>7, <2>10, <2>11, ZenonT(40) DEF HttpInv
<1>6. CASE ~Fits(r, n)
  <2>1. TransferEnds(r, "WRITE_ERROR") /\ response_size' = response_size
    BY <1>1, <1>6, Zenon DEF receive_body
  <2>2. "WRITE_ERROR" \in Codes /\ "WRITE_ERROR" # "OK"
    BY SMT DEF Codes
  <2>3. TypeOK'
    BY <1>0, <1>1, <1>4, <2>1, <2>2, EndedTransfer, ZenonT(40) DEF TypeOK, Message
  <2>4. QED
    BY <1>1, <1>4, <2>1, <2>2, <2>3, HttpEnds, Zenon
<1>7. QED
  BY <1>5, <1>6, Zenon

LEMMA HttpFinishes ==
    ASSUME HttpInv, NEW r \in Ids, Finish(r)
    PROVE  HttpInv'
<1>1. /\ r \in running /\ UNCHANGED <<pc, stack, requests, pending, user_data, response_size>>
      /\ UNCHANGED <<received, issued, completed, returned>>
  BY Zenon DEF Finish, client
<1>2. PICK code \in Codes : TransferEnds(r, code)
  <2>1. "OK" \in Codes /\ "FAILED" \in Codes
    BY SMT DEF Codes
  <2>2. QED
    BY <2>1, Zenon DEF Finish
<1>3. TypeOK'
  BY <1>1, <1>2, EndedTransfer, Zenon DEF HttpInv, TypeOK, Message
<1>4. response_size[r] = received'[r]
  BY <1>1, Zenon DEF HttpInv, Kept
<1>5. QED
  BY <1>1, <1>2, <1>3, <1>4, HttpEnds, Zenon

\* A step of the owner's thread that is not in a completion.
LEMMA HttpMoves ==
    ASSUME HttpInv, pc' \in {"loop", "perform", "drain", "callback", "destroyed"},
           pc' = "callback" <=> pc = "callback", returned' \in {"OK", "ERR_HTTP"},
           UNCHANGED <<stack, client, curl, received, issued, completed>>
    PROVE  HttpInv'
<1>1. /\ UNCHANGED <<stack, requests, pending, user_data, response_size, running, msgs>>
      /\ UNCHANGED <<received, issued, completed>>
  BY Zenon DEF client, curl
<1>2. Finished' = Finished /\ InCompletion' = InCompletion
  BY <1>1, Zenon DEF Finished, InCompletion
<1>3. TypeOK' /\ pending' = Len(requests')
  BY <1>1, Zenon DEF HttpInv, TypeOK
<1>4. Nesting' /\ Once'
  BY <1>1, ZenonT(40) DEF HttpInv, Nesting, Once
<1>5. Parts'
  BY <1>1, <1>2, Zenon DEF HttpInv, Parts
<1>6. Kept' /\ SuccessIsComplete'
  BY <1>1, Zenon DEF HttpInv, Kept, SuccessIsComplete
<1>7. QED
  BY <1>3, <1>4, <1>5, <1>6, Zenon DEF HttpInv

LEMMA Cancelled ==
    ASSUME ~CancelsOwn, HttpInv, NEW t, alpha_http_cancel(t)
    PROVE  \E r \in running \union Finished :
             /\ curl_multi_remove_handle(r) /\ CallComplete(r, "ABORTED", pc)
             /\ pc \in {"loop", "callback"} /\ UNCHANGED <<client, received, issued, returned>>
<1>1. PICK i \in 1 .. Len(requests) :
        /\ requests[i] \notin InCompletion
        /\ curl_multi_remove_handle(requests[i]) /\ CallComplete(requests[i], "ABORTED", pc)
  BY Zenon DEF alpha_http_cancel
<1>2. requests[i] \in Range(requests)
  <2>1. DOMAIN requests = 1 .. Len(requests)
    <3>1. requests \in Seq(Ids)
      BY HttpTypes, Zenon
    <3>2. QED
      BY <3>1
  <2>2. QED
    BY <2>1, Zenon DEF Range
<1>3. requests[i] \in running \union Finished
  BY <1>1, <1>2, Zenon DEF HttpInv, Parts
<1>4. pc \in {"loop", "callback"} /\ UNCHANGED <<client, received, issued, returned>>
  BY Zenon DEF alpha_http_cancel
<1>5. QED
  BY <1>1, <1>3, <1>4, Zenon

LEMMA HttpCancels ==
    ASSUME ~CancelsOwn, HttpInv, NEW t, alpha_http_cancel(t)
    PROVE  HttpInv'
<1>1. PICK r \in running \union Finished :
        /\ curl_multi_remove_handle(r) /\ CallComplete(r, "ABORTED", pc)
        /\ pc \in {"loop", "callback"} /\ UNCHANGED <<client, received, issued, returned>>
  BY Cancelled, Zenon
<1>2. stack = <<>> <=> pc # "callback"
  BY Zenon DEF HttpInv, Nesting
<1>3. "ABORTED" \in Codes /\ "ABORTED" # "OK"
  BY SMT DEF Codes
<1>4. pc \in {"loop", "drain", "callback"}
  BY <1>1, Zenon
<1>5. QED
  BY <1>1, <1>2, <1>3, <1>4, HttpCompletes, Zenon

\* The message drain_completions takes.
LEMMA Drained ==
    ASSUME HttpInv, msgs # <<>>
    PROVE  /\ Head(msgs).id \in Finished /\ Head(msgs).code \in Codes
           /\ Head(msgs).code = "OK" => response_size[Head(msgs).id] = received[Head(msgs).id]
<1>1. msgs \in Seq(Message)
  BY HttpTypes, Zenon
<1>2. Len(msgs) > 0 /\ 1 \in 1 .. Len(msgs)
  BY <1>1, SMT
<1>3. Head(msgs) = msgs[1] /\ msgs[1] \in Message
  BY <1>1, <1>2, TailFacts, Zenon
<1>4. msgs[1].code \in Codes
  BY <1>3, SMT DEF Message
<1>5. msgs[1].id \in Finished
  BY <1>2, Zenon DEF Finished
<1>6. msgs[1].code = "OK" => response_size[msgs[1].id] = received[msgs[1].id]
  BY <1>2, Zenon DEF HttpInv, Kept
<1>7. QED
  BY <1>3, <1>4, <1>5, <1>6, Zenon

LEMMA HttpDrains ==
    ASSUME HttpInv, drain_completions
    PROVE  HttpInv'
<1>1. CASE msgs = <<>>
  <2>1. /\ pc = "drain" /\ pc' = "loop" /\ returned' = "OK"
        /\ UNCHANGED <<stack, client, curl, received, issued, completed>>
    BY <1>1, Zenon DEF drain_completions, curl
  <2>2. returned' \in {"OK", "ERR_HTTP"} /\ pc' \in {"loop", "perform", "drain", "callback", "destroyed"}
        /\ (pc' = "callback" <=> pc = "callback")
    BY <2>1, SMT
  <2>3. QED
    BY <2>1, <2>2, HttpMoves, Zenon
<1>2. CASE msgs # <<>>
  <2>1. /\ pc = "drain" /\ curl_multi_remove_handle(Head(msgs).id)
        /\ CallComplete(Head(msgs).id, Head(msgs).code, "drain") /\ UNCHANGED <<client, received, issued, returned>>
    BY <1>2, Zenon DEF drain_completions
  <2>2. /\ Head(msgs).id \in running \union Finished /\ Head(msgs).code \in Codes
        /\ Head(msgs).code = "OK" => response_size[Head(msgs).id] = received[Head(msgs).id]
    BY <1>2, Drained, Zenon
  <2>3. stack = <<>> <=> "drain" # "callback"
    BY <2>1, SMT DEF HttpInv, Nesting
  <2>4. "drain" \in {"loop", "drain", "callback"}
    BY ZenonT(40)
  <2>5. QED
    BY <2>1, <2>2, <2>3, <2>4, HttpCompletes, Zenon
<1>3. QED
  BY <1>1, <1>2, Zenon

LEMMA HttpStep ==
    ASSUME ~CancelsOwn, HttpInv, [Next]_vars
    PROVE  HttpInv'
<1>1. CASE Action \/ ActionDrains \/ ActionFails \/ UNCHANGED vars
  <2>1. UNCHANGED <<stack, client, curl, received, issued, completed>>
    BY <1>1, Zenon DEF Action, ActionDrains, ActionFails, vars, client, curl
  <2>2. \/ pc = "loop" /\ pc' = "perform"
        \/ pc = "perform" /\ pc' \in {"drain", "loop"}
        \/ pc' = pc
    <3>1. CASE Action
      BY <3>1, Zenon DEF Action
    <3>2. CASE ActionDrains \/ ActionFails
      BY <3>2, Zenon DEF ActionDrains, ActionFails
    <3>3. CASE UNCHANGED vars
      BY <3>3, Zenon DEF vars
    <3>4. QED
      BY <1>1, <3>1, <3>2, <3>3, Zenon
  <2>r. returned' = returned \/ returned' = "ERR_HTTP"
    BY <1>1, Zenon DEF Action, ActionDrains, ActionFails, vars
  <2>3. pc \in {"loop", "perform", "drain", "callback", "destroyed"} /\ returned \in {"OK", "ERR_HTTP"}
    BY Zenon DEF HttpInv, TypeOK
  <2>4. pc' \in {"loop", "perform", "drain", "callback", "destroyed"}
        /\ (pc' = "callback" <=> pc = "callback") /\ returned' \in {"OK", "ERR_HTTP"}
    BY <2>2, <2>r, <2>3, SMT
  <2>5. QED
    BY <2>1, <2>4, HttpMoves, Zenon
<1>2. CASE \E r \in Ids : Finish(r) \/ \E n \in 1 .. MaxResponse + 1 : Receive(r, n)
  BY <1>2, HttpFinishes, HttpReceives, Zenon
<1>3. CASE \E t \in Tokens : alpha_http_cancel(t)
  BY <1>3, HttpCancels, Zenon
<1>4. QED
  BY <1>1, <1>2, <1>3, HttpPost, HttpDestroys, HttpReturns, HttpDrains, Zenon DEF Next

\* Every list, count and queue of the client stays in step with libcurl's multi
\* handle, through posts and cancels from inside completions, for every bound on
\* requests and responses, as long as no completion cancels its own request.
THEOREM HttpOwnership ==
    ASSUME ~CancelsOwn
    PROVE  Spec => []Ownership
<1>1. HttpInv /\ [Next]_vars => HttpInv'
  BY HttpStep, Zenon
<1>2. HttpInv => Ownership
  BY Zenon DEF HttpInv, Ownership, Parts, Finished
<1>3. QED
  BY <1>1, <1>2, HttpInit, PTL DEF Spec

\* receive_body and drain_completions never report a truncated response as a
\* success, whatever the chunks libcurl hands over.
THEOREM HttpSuccessIsComplete ==
    ASSUME ~CancelsOwn
    PROVE  Spec => []SuccessIsComplete
<1>1. HttpInv /\ [Next]_vars => HttpInv'
  BY HttpStep, Zenon
<1>2. HttpInv => SuccessIsComplete
  BY Zenon DEF HttpInv
<1>3. QED
  BY <1>1, <1>2, HttpInit, PTL DEF Spec

-----------------------------------------------------------------------------
Flight == Range(requests) \ InCompletion
Done == [i \in 1 .. Len(completed) |-> completed[i].id]

\* What is in flight is what libcurl has not told of yet.
LEMMA InFlight == HttpInv => Flight = running \union Finished
BY Zenon DEF HttpInv, Parts, Flight

\* No more requests are in flight than `pending' counts.
LEMMA FewInFlight ==
    ASSUME HttpInv
    PROVE  /\ Cardinality(Flight) <= pending /\ Cardinality(Flight) \in Nat
           /\ pending \in Nat /\ MaxPending \in Nat
<1>1. requests \in Seq(Ids) /\ pending = Len(requests)
  BY HttpTypes, Zenon
<1>2. DOMAIN requests = 1 .. Len(requests) /\ Len(requests) \in Nat
  BY <1>1
<1>3. requests \in Surjection(1 .. Len(requests), Range(requests))
  <2>1. requests \in [1 .. Len(requests) -> Range(requests)]
    BY <1>1, <1>2 DEF Range
  <2>2. \A t \in Range(requests) : \E i \in 1 .. Len(requests) : requests[i] = t
    BY <1>2, Zenon DEF Range
  <2>3. QED
    BY <2>1, <2>2, Zenon DEF Surjection
<1>4. IsFiniteSet(1 .. Len(requests)) /\ Cardinality(1 .. Len(requests)) = Len(requests)
  <2>1. 1 \in Int /\ Len(requests) \in Int
    BY <1>2, SMT
  <2>2. /\ IsFiniteSet(1 .. Len(requests))
        /\ Cardinality(1 .. Len(requests)) = IF 1 > Len(requests) THEN 0 ELSE Len(requests) - 1 + 1
    BY <2>1, FS_Interval, Zenon
  <2>3. QED
    BY <1>2, <2>2, SMT
<1>5. IsFiniteSet(Range(requests)) /\ Cardinality(Range(requests)) <= Len(requests)
  <2>1. /\ IsFiniteSet(Range(requests))
        /\ Cardinality(Range(requests)) <= Cardinality(1 .. Len(requests))
    BY <1>3, <1>4, FS_Surjection, Zenon
  <2>2. QED
    BY <1>4, <2>1, Zenon
<1>6. Flight \in SUBSET Range(requests)
  BY Zenon DEF Flight
<1>7. IsFiniteSet(Flight) /\ Cardinality(Flight) <= Cardinality(Range(requests))
  BY <1>5, <1>6, FS_Subset, Zenon
<1>8. Cardinality(Flight) \in Nat /\ Cardinality(Range(requests)) \in Nat
  BY <1>5, <1>7, FS_CardinalityType, Zenon
<1>9. MaxPending \in Nat
  BY MaxPendingAssumption, SMT
<1>10. QED
  BY <1>1, <1>2, <1>5, <1>7, <1>8, <1>9, SMT

\* The completion of a request takes it out of the set.
LEMMA HttpSetComplete ==
    ASSUME HttpInv, HttpInv', NEW r \in running \union Finished, NEW code, NEW back,
           curl_multi_remove_handle(r), CallComplete(r, code, back), issued' = issued
    PROVE  Requests!Next
<1>1. r \in Ids /\ r \in Flight
  BY HttpTypes, InFlight, Zenon
<1>2. Flight' = Flight \ {r}
  <2>1. running' = running \ {r} /\ Finished' = Finished \ {r}
    BY <1>1, RemovedHandle, Zenon
  <2>2. Flight = running \union Finished /\ Flight' = running' \union Finished'
    BY InFlight, Zenon DEF HttpInv, Parts, Flight
  <2>3. QED
    BY <2>1, <2>2, Zenon
<1>3. Done' = Append(Done, r)
  <2> DEFINE result == [id |-> r, code |-> code, size |-> response_size[r]]
  <2>1. completed' = Append(completed, result) /\ result.id = r
    BY Zenon DEF CallComplete
  <2>2. completed \in Seq([id : Ids, code : Codes, size : 0 .. MaxResponse])
    BY Zenon DEF HttpInv, TypeOK
  <2> HIDE DEF result
  <2>3. /\ Len(completed') = Len(completed) + 1 /\ completed'[Len(completed) + 1] = result
        /\ \A i \in 1 .. Len(completed) : completed'[i] = completed[i]
        /\ Len(completed) \in Nat
    BY <2>1, <2>2
  <2>4. QED
    BY <1>1, <2>1, <2>2, <2>3 DEF Done
<1>4. Requests!Complete(r)
  BY <1>1, <1>2, <1>3, Zenon DEF Requests!Complete, Flight, Done
<1>5. QED
  BY <1>1, <1>4, Zenon DEF Requests!Next, Flight

LEMMA HttpSetStep ==
    ASSUME ~CancelsOwn, HttpInv, HttpInv', [Next]_vars
    PROVE  Requests!Next \/ UNCHANGED <<Flight, issued, Done>>
<1>1. Flight = running \union Finished /\ Flight' = running' \union Finished'
  BY InFlight, Zenon DEF HttpInv, Parts, Flight
<1>2. CASE alpha_http_post_json
  <2>1. /\ pending < MaxPending /\ issued' = issued + 1 /\ running' = running \union {issued + 1}
        /\ msgs' = msgs /\ completed' = completed
    BY <1>2, ZenonT(40) DEF alpha_http_post_json, Accepts
  <2>2. Finished' = Finished /\ Done' = Done
    BY <2>1, Zenon DEF Finished, Done
  <2>3. Flight' = Flight \union {issued + 1}
    BY <1>1, <2>1, <2>2, Zenon
  <2>4. Cardinality(Flight) < MaxPending
    <3>1. pending \in Nat /\ MaxPending \in Nat /\ Cardinality(Flight) <= pending
          /\ Cardinality(Flight) \in Nat
      BY FewInFlight, Zenon
    <3>2. QED
      BY <2>1, <3>1, SMT
  <2>5. Requests!Accept
    <3>1. Requests!Cardinality(Flight) = Cardinality(Flight)
      BY Zenon DEF Requests!Cardinality, Cardinality
    <3>2. QED
      BY <2>1, <2>2, <2>3, <2>4, <3>1, Zenon DEF Requests!Accept, Flight, Done
  <2>6. QED
    BY <2>5, ZenonT(40) DEF Requests!Next
<1>3. CASE alpha_http_multi_destroy
  <2>1. running' = {} /\ msgs' = <<>> /\ UNCHANGED <<issued, completed>>
    BY <1>3, Zenon DEF alpha_http_multi_destroy
  <2>2. 1 .. Len(<<>>) = {}
    BY SMT
  <2>3. Flight' = {} /\ Done' = Done
    BY <1>1, <2>1, <2>2, Zenon DEF Finished, Done
  <2>4. Requests!Drop
    <3>1. Flight' = {} /\ issued' = issued /\ Done' = Done
      BY <2>1, <2>3, Zenon
    <3>2. QED
      BY <3>1, Zenon DEF Requests!Drop, Flight, Done
  <2>5. QED
    BY <2>4, Zenon DEF Requests!Next
<1>4. CASE \E t \in Tokens : alpha_http_cancel(t)
  <2>1. PICK r \in running \union Finished :
          /\ curl_multi_remove_handle(r) /\ CallComplete(r, "ABORTED", pc) /\ issued' = issued
    BY <1>4, Cancelled, Zenon
  <2>2. QED
    BY <2>1, HttpSetComplete, Zenon
<1>5. CASE drain_completions /\ msgs # <<>>
  <2>1. /\ curl_multi_remove_handle(Head(msgs).id) /\ issued' = issued
        /\ CallComplete(Head(msgs).id, Head(msgs).code, "drain")
    BY <1>5, Zenon DEF drain_completions
  <2>2. Head(msgs).id \in running \union Finished
    BY <1>5, Drained, Zenon
  <2>3. QED
    BY <2>1, <2>2, HttpSetComplete, Zenon
<1>6. ASSUME NEW r \in running, NEW code \in Codes, TransferEnds(r, code),
             UNCHANGED <<issued, completed>>
      PROVE  UNCHANGED <<Flight, issued, Done>>
  <2>1. running' = running \ {r} /\ Finished' = Finished \union {r}
    BY <1>6, EndedTransfer, Zenon
  <2>2. QED
    BY <1>1, <1>6, <2>1, Zenon DEF Done
<1>7. ASSUME UNCHANGED <<running, msgs, issued, completed>>
      PROVE  UNCHANGED <<Flight, issued, Done>>
  <2>1. Finished' = Finished
    BY <1>7, Zenon DEF Finished
  <2>2. QED
    BY <1>1, <1>7, <2>1, Zenon DEF Done
<1>8. {"OK", "FAILED", "WRITE_ERROR"} \subseteq Codes
  BY SMT DEF Codes
<1>9. ASSUME NEW r \in Ids, Finish(r) PROVE UNCHANGED <<Flight, issued, Done>>
  <2>1. PICK code \in Codes : TransferEnds(r, code)
    BY <1>8, <1>9, Zenon DEF Finish
  <2>2. r \in running /\ UNCHANGED <<issued, completed>>
    BY <1>9, Zenon DEF Finish
  <2>3. QED
    BY <1>6, <2>1, <2>2, Zenon
<1>10. ASSUME NEW r \in Ids, NEW n, Receive(r, n) PROVE UNCHANGED <<Flight, issued, Done>>
  <2>1. r \in running /\ receive_body(r, n) /\ UNCHANGED <<issued, completed>>
    BY <1>10, Zenon DEF Receive
  <2>2. CASE Fits(r, n)
    <3>1. UNCHANGED <<running, msgs>>
      BY <2>1, <2>2, Zenon DEF receive_body, curl
    <3>2. QED
      BY <1>7, <2>1, <3>1, Zenon
  <2>3. CASE ~Fits(r, n)
    <3>1. TransferEnds(r, "WRITE_ERROR") /\ "WRITE_ERROR" \in Codes
      BY <1>8, <2>1, <2>3, Zenon DEF receive_body
    <3>2. QED
      BY <1>6, <2>1, <3>1, Zenon
  <2>4. QED
    BY <2>2, <2>3, Zenon
<1>11. CASE CompleteReturns \/ Action \/ ActionDrains \/ ActionFails \/ (drain_completions /\ msgs = <<>>)
            \/ UNCHANGED vars
  <2>1. UNCHANGED <<running, msgs, issued, completed>>
    <3>1. CASE CompleteReturns
      BY <3>1, Zenon DEF CompleteReturns, curl
    <3>2. CASE Action \/ ActionDrains \/ ActionFails
      BY <3>2, Zenon DEF Action, ActionDrains, ActionFails, curl
    <3>3. CASE drain_completions /\ msgs = <<>>
      BY <3>3, Zenon DEF drain_completions, curl
    <3>4. CASE UNCHANGED vars
      BY <3>4, Zenon DEF vars, curl
    <3>5. QED
      BY <1>11, <3>1, <3>2, <3>3, <3>4, Zenon
  <2>2. QED
    BY <1>7, <2>1, Zenon
<1>12. QED
  BY <1>2, <1>3, <1>4, <1>5, <1>9, <1>10, <1>11, ZenonT(40) DEF Next

\* The client is the bounded set of RequestSet for every bound: complete_fn is
\* called once for every request that leaves it, unless the client is destroyed,
\* and never for one that is not in flight.
THEOREM HttpImplementsSet ==
    ASSUME ~CancelsOwn
    PROVE  Spec => RefinesSet
<1>1. HttpInv /\ [Next]_vars => HttpInv'
  BY HttpStep, Zenon
<1>2. Init => Requests!Init
  <2>1. ASSUME Init PROVE Flight = {} /\ issued = 0 /\ Done = <<>>
    <3>1. requests = <<>> /\ completed = <<>> /\ issued = 0
      BY <2>1, Zenon DEF Init
    <3>2. Done = <<>>
      BY <3>1, SMT DEF Done
    <3>3. DOMAIN requests = {}
      BY <3>1, SMT
    <3>4. QED
      BY <3>1, <3>2, <3>3, Zenon DEF Flight, Range
  <2>2. QED
    BY <2>1, Zenon DEF Requests!Init, Flight, Done
<1>3. HttpInv /\ HttpInv' /\ [Next]_vars
        => [Requests!Next]_<<Range(requests) \ InCompletion, issued,
                             [i \in 1 .. Len(completed) |-> completed[i].id]>>
  BY HttpSetStep, Zenon DEF Flight, Done
<1>4. QED
  BY <1>1, <1>2, <1>3, HttpInit, PTL DEF Spec, RefinesSet, Requests!Spec
=============================================================================
