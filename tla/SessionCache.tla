----------------------------- MODULE SessionCache -----------------------------
(***************************************************************************)
(* The session cache of the adapters (ModelCache of adapters/base.py): a   *)
(* bounded cache with expiry, that evicts what was used least recently.    *)
(*                                                                         *)
(* A key is an agent and a room.  The clock moves between two calls: that  *)
(* two of them get the same time.time() is left out.  _evict_lru would     *)
(* then take the one of two sessions that is first in the dictionary,      *)
(* which need not be the one used first.                                   *)
(***************************************************************************)
EXTENDS Integers, FiniteSets

CONSTANTS
    Keys,
    MaxSessions,    \* max_sessions; with none, the first call raises
    Ttl,            \* session_ttl_seconds
    Pauses,         \* time between two calls
    MaxClock        \* bound: time

ASSUME KeysAssumption == IsFiniteSet(Keys)
ASSUME LimitsAssumption ==
    /\ MaxSessions \in Nat \ {0} /\ Ttl \in Nat /\ MaxClock \in Nat
    /\ Pauses \subseteq Nat \ {0}

VARIABLES
    cache,     \* the cached keys -> when their session was created and last used
    clock,     \* the time
    \* For the property:
    others     \* the keys a caller got a session for -> the other keys that
               \* callers got one for since

vars == <<cache, clock, others>>

Init == cache = [k \in {} |-> 0] /\ clock = 0 /\ others = [k \in {} |-> {}]

Cached == DOMAIN cache

Without(f, gone) == [k \in DOMAIN f \ gone |-> f[k]]

Got(k) ==
    others' = [j \in DOMAIN others \cup {k} |->
                 IF j = k THEN {} ELSE others[j] \cup {k}]

\* A call, some time after the last one.
At(now) == now \in {clock + d : d \in Pauses} /\ now <= MaxClock /\ clock' = now

Expired(k, now) == now - cache[k].created > Ttl

\* Slip: without the touch.
HitUntouched(k, now) ==
    /\ At(now) /\ k \in Cached /\ ~Expired(k, now)
    /\ UNCHANGED cache
    /\ Got(k)

\* get_or_create finds a session that has not expired.
Hit(k, now) ==
    /\ At(now) /\ k \in Cached /\ ~Expired(k, now)
    /\ cache' = [cache EXCEPT ![k].used = now]
    /\ Got(k)

\* Slip: one too many.
OverFull == Cardinality(Cached) > MaxSessions

Full == Cardinality(Cached) >= MaxSessions

\* _evict_lru; an expired session counts like any other.
Evicted ==
    IF Full THEN {k \in Cached : \A j \in Cached : cache[k].used <= cache[j].used}
            ELSE {}

\* It finds none: another may be evicted, and the new session cached.
Create(k, now) ==
    /\ At(now) /\ (k \in Cached => Expired(k, now))
    /\ LET kept == Without(cache, Evicted)
       IN cache' = [j \in DOMAIN kept \cup {k} |->
                      IF j = k THEN [created |-> now, used |-> now] ELSE kept[j]]
    /\ Got(k)

\* The backend_factory raises: what was evicted is gone all the same.
CreateFails(k, now) ==
    /\ At(now) /\ (k \in Cached => Expired(k, now))
    /\ cache' = Without(cache, Evicted)
    /\ UNCHANGED others

Next ==
    \E k \in Keys, now \in 1..MaxClock :
        Hit(k, now) \/ Create(k, now) \/ CreateFails(k, now)

Spec == Init /\ [][Next]_vars

-----------------------------------------------------------------------------
(* Properties.                                                             *)

\* The cache never holds more than max_sessions sessions.
TypeOK ==
    /\ Cached \subseteq Keys /\ Cardinality(Cached) <= MaxSessions
    /\ cache \in [Cached -> [created : 1..clock, used : 1..clock]]
    /\ clock \in 0..MaxClock
    /\ DOMAIN others \subseteq Keys /\ others \in [DOMAIN others -> SUBSET Keys]

\* A session that was used is still there while sessions of no more than
\* max_sessions - 2 other keys were used since, whatever expired and whatever
\* failed meanwhile: eviction goes by use.  (One key less than the size allows:
\* room is made also for a key that is there, but expired, or that then fails.)
RecentlyUsedKept ==
    \A k \in DOMAIN others : Cardinality(others[k]) <= MaxSessions - 2 => k \in Cached
=============================================================================
