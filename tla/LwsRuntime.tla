------------------------------ MODULE LwsRuntime ------------------------------
(***************************************************************************)
(* The event loop every driver shares, core/platform/event/lws_runtime.c:  *)
(* a bounded registry of watches over descriptors libwebsockets polls.     *)
(*                                                                         *)
(* One thread runs everything; `at' says where it is.  A ready callback    *)
(* runs the driver's code, which may call back into the registry before it *)
(* returns, also to add or remove watches.                                 *)
(*                                                                         *)
(* libwebsockets is external.  It polls a descriptor for input as long as  *)
(* its wsi is open, and for output once per lws_callback_on_writable.      *)
(***************************************************************************)
EXTENDS Integers, FiniteSets

CONSTANTS
    Capacity,    \* watch_capacity
    Owners       \* callback contexts, each the owner of at most one watch

ASSUME CapacityAssumption == Capacity \in 1 .. 256
ASSUME OwnersAssumption == IsFiniteSet(Owners) /\ "none" \notin Owners

VARIABLES
    at,          \* "owner", "poll", "wakeup", "ready" or "destroyed"
    watches,     \* the registry's slots
    count,
    cursor,      \* service_wakeup's loop index, 0 outside of it
    call,        \* the ready call in progress: whose, and what it reports
    handle,      \* the slot whose address each owner holds, 0: none
    pollout,     \* slots whose wsi waits for POLLOUT
    timer,       \* slots whose wsi has a timer
    full         \* owners whose socket has no room for output

lws == <<pollout, timer, full>>
registry == <<at, watches, count, cursor, call, handle, lws>>

Slots == 1 .. Capacity
NoCall == [ctx |-> "none", kind |-> "none"]
Free == [active |-> FALSE, wants_write |-> FALSE, wsi |-> FALSE, ctx |-> "none"]

RegistryInit ==
    /\ at = "owner" /\ watches = [s \in Slots |-> Free] /\ count = 0
    /\ cursor = 0 /\ call = NoCall
    /\ handle = [o \in Owners |-> 0]
    /\ pollout = {} /\ timer = {} /\ full = {}

-----------------------------------------------------------------------------
(* The registry, called from the owner's loop and from ready callbacks. *)

OwnerRuns == at \in {"owner", "ready"}
Inactive == {s \in Slots : ~watches[s].active}
FirstInactive == {s \in Inactive : \A t \in Inactive : s <= t}

\* lws_callback_on_writable may fail, and its result is not always looked at.
OnWritable(s) == pollout' \in {pollout, pollout \union {s}}

FailedWatch(o, w) == [active |-> FALSE, wants_write |-> w, wsi |-> FALSE, ctx |-> o]

\* A full registry answers ALPHA_ERR_RANGE and changes nothing.
alpha_lws_watch_add(o, w) ==
    /\ OwnerRuns /\ handle[o] = 0
    /\ count # Capacity
    /\ \E s \in FirstInactive :
          \/ /\ watches' = [watches EXCEPT ![s] =
                    [active |-> TRUE, wants_write |-> w, wsi |-> TRUE, ctx |-> o]]
             /\ count' = count + 1
             /\ handle' = [handle EXCEPT ![o] = s]
             /\ IF w THEN OnWritable(s) ELSE pollout' = pollout
          \/ /\ watches' = [watches EXCEPT ![s] = FailedWatch(o, w)]
             /\ UNCHANGED <<count, handle, pollout>>
    /\ UNCHANGED <<at, cursor, call, timer, full>>

\* On a watch whose wsi is gone this answers ALPHA_ERR_INVALID_ARG.
alpha_lws_watch_set_write(o, w) ==
    /\ OwnerRuns /\ handle[o] # 0 /\ watches[handle[o]].wsi
    /\ watches' = [watches EXCEPT ![handle[o]].wants_write = w]
    /\ IF w THEN OnWritable(handle[o]) ELSE pollout' = pollout
    /\ UNCHANGED <<at, count, cursor, call, handle, timer, full>>

alpha_lws_watch_set_timer(o, armed) ==
    /\ OwnerRuns /\ handle[o] # 0 /\ watches[handle[o]].wsi
    /\ timer' = IF armed THEN timer \union {handle[o]} ELSE timer \ {handle[o]}
    /\ UNCHANGED <<at, watches, count, cursor, call, handle, pollout, full>>

\* Mutant: the slot is released and its wsi stays open.
ReleasedOpen(s) == [watches[s] EXCEPT !.active = FALSE]

\* lws_wsi_close runs the close callback, which clears watch->wsi.
Released(s) == [watches[s] EXCEPT !.active = FALSE, !.wsi = FALSE]

alpha_lws_watch_remove(o) ==
    /\ OwnerRuns /\ handle[o] # 0 /\ watches[handle[o]].active
    /\ watches' = [watches EXCEPT ![handle[o]] = Released(handle[o])]
    /\ count' = count - 1
    /\ handle' = [handle EXCEPT ![o] = 0]
    /\ pollout' = pollout \ {handle[o]} /\ timer' = timer \ {handle[o]}
    /\ UNCHANGED <<at, cursor, call, full>>

alpha_lws_runtime_destroy ==
    /\ at = "owner"
    /\ at' = "destroyed"
    /\ watches' = [s \in Slots |-> [watches[s] EXCEPT !.wsi = FALSE]]
    /\ pollout' = {} /\ timer' = {}
    /\ UNCHANGED <<count, cursor, call, handle, full>>

-----------------------------------------------------------------------------
(* alpha_lws_runtime_service: lws_service with a wakeup scheduled to end it. *)

alpha_lws_runtime_service ==
    /\ at = "owner"
    /\ at' = "poll"
    /\ UNCHANGED <<watches, count, cursor, call, handle, lws>>

ready_fn(s, kind) == at' = "ready" /\ call' = [ctx |-> watches[s].ctx, kind |-> kind]

Readable(s) ==
    /\ at = "poll" /\ watches[s].wsi
    /\ ready_fn(s, "read")
    /\ UNCHANGED <<watches, count, cursor, handle, lws>>

Writeable(s) ==
    /\ at = "poll" /\ watches[s].wsi /\ s \in pollout /\ watches[s].ctx \notin full
    /\ pollout' = pollout \ {s}
    /\ IF watches[s].wants_write THEN ready_fn(s, "write") ELSE UNCHANGED <<at, call>>
    /\ UNCHANGED <<watches, count, cursor, handle, timer, full>>

TimerFires(s) ==
    /\ at = "poll" /\ watches[s].wsi /\ s \in timer
    /\ timer' = timer \ {s}
    /\ ready_fn(s, "timer")
    /\ UNCHANGED <<watches, count, cursor, handle, pollout, full>>

\* libwebsockets closes a wsi on a hang-up, and its timer dies with it.
HangUp(s) ==
    /\ at = "poll" /\ watches[s].wsi
    /\ watches' = [watches EXCEPT ![s].wsi = FALSE]
    /\ pollout' = pollout \ {s} /\ timer' = timer \ {s}
    /\ UNCHANGED <<at, count, cursor, call, handle, full>>

\* The poll ends with the wakeup when no descriptor was ready.
WakeupFires ==
    /\ at = "poll"
    /\ at' = "wakeup" /\ cursor' = 1
    /\ UNCHANGED <<watches, count, call, handle, lws>>

ServiceReturns ==
    /\ at = "poll"
    /\ at' = "owner"
    /\ UNCHANGED <<watches, count, cursor, call, handle, lws>>

\* Mutant: slots are not asked whether they are in use.
ProbedAlways(s) == watches[s].wants_write

\* Mutant: nobody is probed.
ProbedNever(s) == FALSE

Probed(s) == watches[s].active /\ watches[s].wants_write

service_wakeup ==
    /\ at = "wakeup"
    /\ IF cursor > Capacity
       THEN at' = "owner" /\ cursor' = 0 /\ call' = call
       ELSE /\ cursor' = cursor + 1
            /\ IF Probed(cursor) THEN ready_fn(cursor, "write") ELSE UNCHANGED <<at, call>>
    /\ UNCHANGED <<watches, count, handle, lws>>

ReadyReturns ==
    /\ at = "ready"
    /\ at' = IF cursor = 0 THEN "poll" ELSE "wakeup"
    /\ call' = NoCall
    /\ UNCHANGED <<watches, count, cursor, handle, lws>>

\* The peer stops and starts reading.
RoomChanges(o) ==
    /\ full' \in {full \union {o}, full \ {o}} \ {full}
    /\ UNCHANGED <<at, watches, count, cursor, call, handle, pollout, timer>>

-----------------------------------------------------------------------------
RegistryNext ==
    \/ \E o \in Owners, b \in BOOLEAN :
          \/ alpha_lws_watch_add(o, b)
          \/ alpha_lws_watch_set_write(o, b)
          \/ alpha_lws_watch_set_timer(o, b)
    \/ \E o \in Owners : alpha_lws_watch_remove(o) \/ RoomChanges(o)
    \/ alpha_lws_runtime_service \/ alpha_lws_runtime_destroy
    \/ \E s \in Slots : Readable(s) \/ Writeable(s) \/ TimerFires(s) \/ HangUp(s)
    \/ WakeupFires \/ ServiceReturns \/ service_wakeup \/ ReadyReturns

RegistrySpec == RegistryInit /\ [][RegistryNext]_registry

\* The owner's loop calls service again and again, callbacks return, and a call
\* that finds no descriptor ready, as happens again and again, runs the wakeup.
RegistryFairness ==
    /\ WF_registry(alpha_lws_runtime_service)
    /\ WF_registry(ReadyReturns)
    /\ WF_registry(service_wakeup)
    /\ SF_registry(WakeupFires)

RegistryFairSpec == RegistrySpec /\ RegistryFairness

-----------------------------------------------------------------------------
\* The type invariant of the registry and of what libwebsockets holds.
RegistryTypeOK ==
    /\ at \in {"owner", "poll", "wakeup", "ready", "destroyed"}
    /\ watches \in [Slots -> [active : BOOLEAN, wants_write : BOOLEAN, wsi : BOOLEAN,
                              ctx : Owners \union {"none"}]]
    /\ count \in 0 .. Capacity /\ cursor \in 0 .. Capacity + 1
    /\ call \in [ctx : Owners \union {"none"}, kind : {"none", "read", "write", "timer"}]
    /\ handle \in [Owners -> 0 .. Capacity]
    /\ pollout \subseteq Slots /\ timer \subseteq Slots /\ full \subseteq Owners

\* "Bound descriptor/request ownership and reject saturation": the slots in use
\* are exactly those some owner holds, each by its own, and count counts them.
\* Nothing libwebsockets still polls or times belongs to a slot that was given
\* back: its events would reach the slot's next owner.
SlotsAreOwned ==
    /\ RegistryTypeOK
    /\ count = Cardinality({s \in Slots : watches[s].active})
    /\ \A s \in Slots :
          /\ watches[s].active <=> \E o \in Owners : handle[o] = s /\ watches[s].ctx = o
          /\ watches[s].wsi => watches[s].active
          /\ s \in pollout \union timer => watches[s].wsi
    /\ \A o, p \in Owners : o # p /\ handle[o] # 0 => handle[o] # handle[p]

\* A ready callback is only ever made on an owner whose watch is registered,
\* whatever earlier callbacks of the same pass added or removed.
ReadyReachesOwner ==
    [][at # "ready" /\ at' = "ready" =>
          \E o \in Owners : call'.ctx = o /\ handle[o] # 0 /\ watches[handle[o]].active]_registry

\* An owner that goes on wanting to write is told it may, although the request
\* to libwebsockets can fail and is used up by one event.
WritersAreCalled ==
    \A o \in Owners :
        (handle[o] # 0 /\ watches[handle[o]].wants_write) ~>
            \/ call = [ctx |-> o, kind |-> "write"]
            \/ handle[o] = 0 \/ ~watches[handle[o]].wants_write
            \/ at = "destroyed"
=============================================================================
