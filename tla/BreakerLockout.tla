---------------------------- MODULE BreakerLockout ----------------------------
(***************************************************************************)
(* The L3 breaker's lockout, core/platform/cache/redis_cache.c: clients,   *)
(* each with a blocking connection, set, read and clear one scope's key on *)
(* a shared Redis server.  A call is a sequence of commands, one a step,   *)
(* between which the clock moves, keys expire and other clients run.       *)
(*                                                                         *)
(* The server (external) has a `clock' in half seconds: TIME rounds it     *)
(* down to seconds, TTL rounds the rest of a key's life to the nearest.    *)
(***************************************************************************)
EXTENDS KrxCalendar, FiniteSets

CONSTANTS
    Setters, Readers, Clearers,   \* the clients that make each kind of call
    Instants,     \* the half seconds the clock passes through
    Skews,        \* how far a caller's clock may be off, in seconds
    Expiries,     \* what alpha_redis_set_breaker_lockout is called with directly
    Holidays      \* by year, the dates the holiday fetcher publishes

ASSUME InstantsAssumption == Instants \subseteq Nat /\ Instants # {} /\ IsFiniteSet(Instants)
ASSUME SkewsAssumption == Skews \subseteq Int
ASSUME ExpiriesAssumption == Expiries \subseteq Nat \ {0}
ASSUME HolidaysAssumption ==
    \A y \in DOMAIN Holidays :
        y \in Int /\ Holidays[y] \in Seq(Int \X Int \X Int) /\ parse_holiday_json(Holidays[y], y)

Clients == Setters \union Readers \union Clearers
Years == DOMAIN Holidays

VARIABLES
    clock,
    lock,         \* the key hard_stop:lockout:{scope}
    calendar,     \* the keys krx:holidays:{year}: "unusable", "stale" or "fresh"
    pc,           \* per client: the command it is about to send, or "idle"
    frame,        \* per client: the local variables of its call
    out,          \* per client: what its last call returned
    err,          \* the clients whose hiredis context is in error
    due           \* history: the latest session a lockout was set for and not cleared

breaker == <<clock, lock, calendar, pc, frame, out, err, due>>

-----------------------------------------------------------------------------
(* Redis. *)

\* value: the stored epoch, 0 if it is malformed.  expires: 0 for no expiry.
NoKey == [type |-> "none", value |-> 0, expires |-> 0]
Key(value, expires) == [type |-> "string", value |-> value, expires |-> expires]

TIME == clock \div 2

TTL ==
    IF lock.type = "none" THEN -2
    ELSE IF lock.expires = 0 THEN -1 ELSE (2 * lock.expires - clock) \div 2

\* The clock moves on; a key whose time has come is gone.
Tick ==
    /\ clock' \in {i \in Instants : i > clock /\ \A j \in Instants : j > clock => i <= j}
    /\ lock' = IF lock.expires # 0 /\ 2 * lock.expires <= clock' THEN NoKey ELSE lock
    /\ UNCHANGED <<calendar, pc, frame, out, err, due>>

\* The holiday fetcher publishes a calendar, it expires or is spoilt, or it
\* loses its expiry.
CalendarChanges(y) ==
    /\ \E state \in {"unusable", "stale", "fresh"} : calendar' = [calendar EXCEPT ![y] = state]
    /\ UNCHANGED <<clock, lock, pc, frame, out, err, due>>

\* The Python edge owns the key as well, and may put anything there.
ForeignWrite ==
    /\ lock' \in {Key(0, 0), [NoKey EXCEPT !.type = "hash"]}
    /\ due' = 0
    /\ UNCHANGED <<clock, calendar, pc, frame, out, err>>

-----------------------------------------------------------------------------
(* Calls. *)

NoFrame == [now |-> 0, server_now |-> 0, year |-> 0, holidays |-> <<>>, expiry |-> 0,
            session |-> FALSE]

\* `locked' and `expires' are the out parameters; "as it was" and 0 if not set.
NoResult == [status |-> "OK", locked |-> "as it was", expires |-> 0]

Begin(c, command, f) ==
    /\ pc[c] = "idle"
    /\ pc' = [pc EXCEPT ![c] = command]
    /\ frame' = [frame EXCEPT ![c] = f]
    /\ out' = [out EXCEPT ![c] = NoResult]
    /\ UNCHANGED <<clock, lock, calendar, err, due>>

GoTo(c, command, f) ==
    /\ pc' = [pc EXCEPT ![c] = command]
    /\ frame' = [frame EXCEPT ![c] = f]
    /\ out' = out

Return(c, status, locked, expires) ==
    /\ pc' = [pc EXCEPT ![c] = "idle"]
    /\ frame' = [frame EXCEPT ![c] = NoFrame]
    /\ out' = [out EXCEPT ![c] = [status |-> status, locked |-> locked, expires |-> expires]]

BreakerInit ==
    /\ clock \in {i \in Instants : \A j \in Instants : i <= j} /\ lock = NoKey
    /\ calendar = [y \in Years |-> "fresh"]
    /\ pc = [c \in Clients |-> "idle"] /\ frame = [c \in Clients |-> NoFrame]
    /\ out = [c \in Clients |-> NoResult]
    /\ err = {} /\ due = 0

\* A new connection after an error.
alpha_redis_connect(c) ==
    /\ pc[c] = "idle" /\ c \in err
    /\ err' = err \ {c}
    /\ UNCHANGED <<clock, lock, calendar, pc, frame, out, due>>

\* A command gets no reply, or an error for one.  The reader of a string
\* value has said locked already.
CommandFails(c) ==
    /\ pc[c] # "idle"
    /\ err' \in {err, err \union {c}}
    /\ Return(c, "ERR_IO", IF pc[c] \in {"is_time", "is_ttl"} THEN "TRUE" ELSE "as it was", 0)
    /\ UNCHANGED <<clock, lock, calendar, due>>

-----------------------------------------------------------------------------
(* Setting a lockout until a given epoch, and until the next session. *)

IsFuture(expiry, now) == expiry > now

alpha_redis_set_breaker_lockout(c, now, expires_at) ==
    /\ IsFuture(expires_at, now)
    /\ Begin(c, "set_time", [NoFrame EXCEPT !.now = now, !.expiry = expires_at])

SetTime(c) ==
    /\ pc[c] = "set_time" /\ c \notin err
    /\ IF IsFuture(frame[c].expiry, TIME)
       THEN GoTo(c, "set", frame[c])
       ELSE Return(c, "ERR_INVALID_ARG", "as it was", 0)
    /\ UNCHANGED <<clock, lock, calendar, err, due>>

\* Mutant: the lockout gets the life of a cached tick.
LockoutKeyEx(expiry) == Key(expiry, TIME + 60)

\* The absolute epoch is both the value and the expiry.
LockoutKey(expiry) == Key(expiry, expiry)

\* SET key expiry EXAT expiry.  An expiry that has passed deletes the key.  The
\* reply may be lost with the connection.
Set(c) ==
    /\ pc[c] = "set" /\ c \notin err
    /\ LET expiry == frame[c].expiry
       IN /\ lock' = IF expiry > TIME THEN LockoutKey(expiry) ELSE NoKey
          /\ due' = IF frame[c].session /\ expiry > due THEN expiry ELSE due
          /\ \/ Return(c, "OK", "as it was", expiry) /\ err' = err
             \/ Return(c, "ERR_IO", "as it was", 0) /\ err' = err \union {c}
    /\ UNCHANGED <<clock, calendar>>

alpha_redis_set_breaker_lockout_next_session(c, now) ==
    Begin(c, "session_time", [NoFrame EXCEPT !.now = now, !.session = TRUE])

\* The caller's clock must be within five seconds of the server's.
CallerIsCurrent(now, server_now) == now >= server_now - 5 /\ now <= server_now + 5

SessionTime(c) ==
    /\ pc[c] = "session_time" /\ c \notin err
    /\ LET f == frame[c]
           year == civil_year_from_days(Quotient(f.now + ALPHA_KST_OFFSET_SECONDS, SECONDS_PER_DAY))
       IN IF CallerIsCurrent(f.now, TIME)
          THEN GoTo(c, "calendar_get", [f EXCEPT !.server_now = TIME, !.year = year])
          ELSE Return(c, "ERR_INVALID_ARG", "as it was", 0)
    /\ UNCHANGED <<clock, lock, calendar, err, due>>

\* load_calendar, GET: the list of the second year is added to the first's.
CalendarGet(c) ==
    /\ pc[c] = "calendar_get" /\ c \notin err
    /\ LET f == frame[c]
       IN IF f.year \in Years /\ calendar[f.year] \in {"stale", "fresh"}
          THEN GoTo(c, "calendar_ttl", [f EXCEPT !.holidays = @ \o DaysOf(Holidays[f.year])])
          ELSE Return(c, "ERR_IO", "as it was", 0)
    /\ UNCHANGED <<clock, lock, calendar, err, due>>

\* Mutant: the first year's calendar is always enough.
MaxDayOfNextYear(year) == days_from_civil(year + 1, 12, 31)

CalendarMaxDay(year) == days_from_civil(year, 12, 31)

\* load_calendar, TTL, and what is made of the list.  One more year may be
\* needed, and no more.
CalendarTtl(c) ==
    /\ pc[c] = "calendar_ttl" /\ c \notin err
    /\ LET f == frame[c]
           first == civil_year_from_days(
                        Quotient(f.now + ALPHA_KST_OFFSET_SECONDS, SECONDS_PER_DAY))
           expiry == alpha_next_trading_session_start_holiday_aware(
                         f.now, f.holidays, CalendarMaxDay(f.year))
       IN IF calendar[f.year] # "fresh" \/ Len(f.holidays) > MAX_HOLIDAYS
          THEN Return(c, "ERR_IO", "as it was", 0)
          ELSE IF expiry = ALPHA_SESSION_CALENDAR_INSUFFICIENT /\ f.year = first
          THEN GoTo(c, "calendar_get", [f EXCEPT !.year = @ + 1])
          ELSE IF expiry = ALPHA_SESSION_CALENDAR_INSUFFICIENT \/ expiry <= f.server_now
          THEN Return(c, "ERR_IO", "as it was", 0)
          ELSE IF IsFuture(expiry, f.now)
          THEN GoTo(c, "set_time", [f EXCEPT !.expiry = expiry])
          ELSE Return(c, "ERR_INVALID_ARG", "as it was", 0)
    /\ UNCHANGED <<clock, lock, calendar, err, due>>

-----------------------------------------------------------------------------
(* Reading and clearing. *)

alpha_redis_is_breaker_locked(c) == Begin(c, "is_get", NoFrame)

\* No key: not locked.  A string: locked, whatever it says.
IsGet(c) ==
    /\ pc[c] = "is_get" /\ c \notin err
    /\ \/ lock.type = "none" /\ Return(c, "OK", "FALSE", 0)
       \/ lock.type = "string" /\ lock.value <= 0 /\ Return(c, "ERR_IO", "TRUE", 0)
       \/ /\ lock.type = "string" /\ lock.value > 0
          /\ GoTo(c, "is_time", [frame[c] EXCEPT !.expiry = lock.value])
       \/ lock.type = "hash" /\ Return(c, "ERR_IO", "as it was", 0)
    /\ UNCHANGED <<clock, lock, calendar, err, due>>

IsTime(c) ==
    /\ pc[c] = "is_time" /\ c \notin err
    /\ GoTo(c, "is_ttl", [frame[c] EXCEPT !.server_now = TIME])
    /\ UNCHANGED <<clock, lock, calendar, err, due>>

Consistent(left, ttl) == ttl > 0 /\ left > 0 /\ left >= ttl /\ left <= ttl + 1

IsTtl(c) ==
    /\ pc[c] = "is_ttl" /\ c \notin err
    /\ IF Consistent(frame[c].expiry - frame[c].server_now, TTL)
       THEN Return(c, "OK", "TRUE", frame[c].expiry)
       ELSE Return(c, "ERR_IO", "TRUE", 0)
    /\ UNCHANGED <<clock, lock, calendar, err, due>>

alpha_redis_clear_breaker_lockout(c) == Begin(c, "del", NoFrame)

\* Any reply counts as success, also the refusal of a read-only server.
Del(c) ==
    /\ pc[c] = "del" /\ c \notin err
    /\ \/ lock' = NoKey /\ due' = 0
       \/ UNCHANGED <<lock, due>>
    /\ \/ Return(c, "OK", "as it was", 0) /\ err' = err
       \/ Return(c, "ERR_IO", "as it was", 0) /\ err' = err \union {c}
    /\ UNCHANGED <<clock, calendar>>

-----------------------------------------------------------------------------
Step(c) ==
    \/ alpha_redis_connect(c) \/ CommandFails(c)
    \/ SetTime(c) \/ Set(c) \/ SessionTime(c) \/ CalendarGet(c) \/ CalendarTtl(c)
    \/ IsGet(c) \/ IsTime(c) \/ IsTtl(c) \/ Del(c)

BreakerNext ==
    \/ Tick \/ ForeignWrite \/ \E y \in Years : CalendarChanges(y)
    \/ \E c \in Clients : Step(c)
    \/ \E c \in Setters, skew \in Skews :
        \/ alpha_redis_set_breaker_lockout_next_session(c, TIME + skew)
        \/ \E e \in Expiries : alpha_redis_set_breaker_lockout(c, TIME + skew, e)
    \/ \E c \in Readers : alpha_redis_is_breaker_locked(c)
    \/ \E c \in Clearers : alpha_redis_clear_breaker_lockout(c)

-----------------------------------------------------------------------------
\* The type invariant of the server, the clients and the history; a lockout
\* that is being set ends after the event it is set for.
BreakerTypeOK ==
    /\ clock \in Instants /\ calendar \in [Years -> {"unusable", "stale", "fresh"}]
    /\ lock \in [type : {"none", "string", "hash"}, value : Nat, expires : Nat]
    /\ pc \in [Clients -> {"idle", "session_time", "calendar_get", "calendar_ttl", "set_time",
                           "set", "is_get", "is_time", "is_ttl", "del"}]
    /\ frame \in [Clients -> [now : Int, server_now : Nat, year : Int, holidays : Seq(Int),
                              expiry : Nat, session : BOOLEAN]]
    /\ out \in [Clients -> [status : {"OK", "ERR_IO", "ERR_INVALID_ARG"},
                            locked : {"as it was", "TRUE", "FALSE"}, expires : Nat]]
    /\ err \subseteq Clients /\ due \in Nat
    /\ \A c \in Setters : pc[c] \in {"set_time", "set"} => frame[c].expiry > frame[c].now

AllHolidays == UNION {{DaysOf(Holidays[y])[i] : i \in 1 .. Len(Holidays[y])} : y \in Years}

Trades(day) == ~is_weekend(day) /\ day \notin AllHolidays

\* The session of the first day after an epoch's that is no weekend and no holiday.
IsSessionAfter(expiry, epoch) ==
    LET day == expiry \div SECONDS_PER_DAY
    IN /\ expiry = session_start_epoch(day)
       /\ kst_day_of(epoch) < day /\ Trades(day)
       /\ \A d \in kst_day_of(epoch) + 1 .. day - 1 : ~Trades(d)

\* A call that goes on to write does so for the next covered KRX session after
\* the event, across the end of the year, however the calendars came and went
\* while it was reading them.
ExpiryIsNextSession ==
    BreakerTypeOK /\ \A c \in Setters :
        frame[c].session /\ pc[c] \in {"set_time", "set"} =>
            IsSessionAfter(frame[c].expiry, frame[c].now)

\* "Only an explicit clear or Redis expiry at the next covered KRX session may
\* release it": until then the key is there, and it does not expire earlier.
LockoutHolds == due > TIME => lock.type = "string" /\ lock.expires >= due

\* A reader that is told a lockout and its end has been told the truth: it is
\* still in force then, and it lasts at least that long, up to a second.  One that
\* is told there is none is not told so of a lockout that is due ("fail closed").
ReportedIsLive ==
    [][\A c \in Readers : pc[c] # "idle" /\ pc'[c] = "idle" =>
        /\ out'[c].status = "OK" /\ out'[c].locked = "TRUE" =>
               lock.type = "string" /\ lock.expires + 1 >= frame[c].expiry
        /\ out'[c].locked = "FALSE" => due <= TIME]_breaker
=============================================================================
