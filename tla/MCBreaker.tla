------------------------------ MODULE MCBreaker ------------------------------
(***************************************************************************)
(* The keys of the Redis cache: a behaviour is one of the lockout or one   *)
(* of the latest tick.  The lockout is set around the new year of 1971: 31 *)
(* December and 1 January are holidays, the 2nd and 3rd are a weekend, and *)
(* trading goes on on Monday the 4th, day 368.                             *)
(***************************************************************************)
EXTENDS BreakerLockout, TickCache

VARIABLE kind

MCHolidays == [y \in {1970, 1971} |-> IF y = 1970 THEN << <<1970, 12, 31>> >>
                                                  ELSE << <<1971, 1, 1>> >>]

KstMidnight(day) == day * SECONDS_PER_DAY - ALPHA_KST_OFFSET_SECONDS
Session(day) == day * SECONDS_PER_DAY

\* The afternoon of 30 December; the midnight before the Monday; the last
\* second before its session, the session, and the next.
MCInstants ==
    {2 * (KstMidnight(364) - 36000), 2 * KstMidnight(368), 2 * Session(368) - 2,
     2 * Session(368) - 1, 2 * Session(368), 2 * Session(369)}

\* A caller whose clock is too slow, and one that agrees with the server.
MCSkews == {-6, 0}
MCExpiries == {Session(369)}
NoSkew == {0}
None == {}

CacheNext ==
    \/ kind = "lockout" /\ BreakerNext /\ UNCHANGED ticks
    \/ kind = "ticks" /\ TicksNext /\ UNCHANGED breaker

CacheSpec ==
    /\ kind \in {"lockout", "ticks"} /\ BreakerInit /\ TicksInit
    /\ [][CacheNext /\ UNCHANGED kind]_<<kind, breaker, ticks>>

\* The lockout alone.
LockoutSpec ==
    /\ kind = "lockout" /\ BreakerInit /\ TicksInit
    /\ [][BreakerNext /\ UNCHANGED <<kind, ticks>>]_<<kind, breaker, ticks>>

\* What a client is told is still so: of the lockout and its end
\* (alpha_redis_is_breaker_locked) and of the latest tick
\* (alpha_redis_get_latest_tick).
ReadsAreLive == ReportedIsLive /\ TickIsCurrent
=============================================================================
