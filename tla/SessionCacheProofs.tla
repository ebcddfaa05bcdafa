-------------------------- MODULE SessionCacheProofs --------------------------
(***************************************************************************)
(* Proofs about SessionCache, for any keys, capacity, expiry and pauses:   *)
(* type correctness with the bound on the cache, and that sessions used    *)
(* recently are kept.                                                      *)
(***************************************************************************)
EXTENDS SessionCache, FiniteSetTheorems, WellFoundedInduction, TLAPS

\* No two sessions were used at the same time.
UsedApart == \A j, k \in Cached : cache[j].used = cache[k].used => j = k

\* What was used after k is among the others of k.
NewerAreOthers ==
    \A k \in Cached :
        /\ k \in DOMAIN others
        /\ \A j \in Cached : cache[j].used > cache[k].used => j \in others[k]

\* A key whose session is gone saw enough others.
GoneForOthers ==
    \A k \in DOMAIN others \ Cached : Cardinality(others[k]) >= MaxSessions - 1

IInv == TypeOK /\ UsedApart /\ NewerAreOthers /\ GoneForOthers

-----------------------------------------------------------------------------
LEMMA SubsetsFinite == \A S \in SUBSET Keys : IsFiniteSet(S) /\ Cardinality(S) \in Nat
BY FS_Subset, FS_CardinalityType, KeysAssumption

LEMMA InvInit == Init => IInv
<1> SUFFICES ASSUME Init PROVE IInv
  OBVIOUS
<1>1. Cached = {} /\ DOMAIN others = {} /\ Cardinality({}) = 0
  BY FS_EmptySet DEF Init, Cached
<1> QED
  BY <1>1, LimitsAssumption
     DEF Init, IInv, TypeOK, UsedApart, NewerAreOthers, GoneForOthers, Cached

\* Some session of a cache that is not empty was used before all others.
LEMMA OldestExists ==
    ASSUME TypeOK, Cached # {}
    PROVE  \E e \in Cached : \A j \in Cached : cache[e].used <= cache[j].used
<1> DEFINE T == {cache[k].used : k \in Cached}
<1>1. T \subseteq Nat /\ T # {}
  BY DEF TypeOK
<1>2. PICK t \in T : \A u \in T : ~(<<u, t>> \in OpToRel(<, Nat))
  <2> HIDE DEF T
  <2> QED
    BY <1>1, WFMin, NatLessThanWellFounded, Zenon
<1>3. \A u \in T : t <= u
  <2> HIDE DEF T
  <2>1. \A u \in T : u < t => <<u, t>> \in OpToRel(<, Nat)
    BY <1>1 DEF OpToRel
  <2>2. \A u \in T : ~(u < t)
    BY <1>2, <2>1
  <2>3. t \in Nat /\ \A u \in T : u \in Nat
    BY <1>1, <1>2
  <2> QED
    BY <2>2, <2>3
<1> QED
  BY <1>3

\* Eviction leaves room for one, and what it takes saw all the rest used since.
LEMMA Eviction ==
    ASSUME IInv
    PROVE  /\ Evicted \subseteq Cached
           /\ Cardinality(Cached \ Evicted) \in Nat
           /\ Cardinality(Cached \ Evicted) <= MaxSessions - 1
           /\ \A e \in Evicted : Cardinality(others[e]) >= MaxSessions - 1
<1>1. Evicted \subseteq Cached
  BY DEF Evicted
<1>2. /\ IsFiniteSet(Cached) /\ Cardinality(Cached) \in Nat
      /\ Cardinality(Cached) <= MaxSessions /\ MaxSessions \in Nat \ {0}
  BY SubsetsFinite, LimitsAssumption DEF IInv, TypeOK
<1>3. CASE ~Full
  <2>1. Evicted = {} /\ Cached \ Evicted = Cached
    BY <1>3 DEF Evicted
  <2> QED
    BY <1>2, <1>3, <2>1 DEF Full
<1>4. CASE Full
  <2>1. Cached # {}
    BY <1>2, <1>4, FS_EmptySet DEF Full
  <2>2. PICK e \in Cached : \A j \in Cached : cache[e].used <= cache[j].used
    BY <2>1, OldestExists DEF IInv
  <2>3. \A j \in Cached : cache[j].used \in Nat
    BY DEF IInv, TypeOK
  <2>4. Evicted = {e}
    BY <1>4, <2>2, <2>3 DEF Evicted, IInv, UsedApart
  <2>5. Cardinality(Cached \ {e}) = Cardinality(Cached) - 1
    BY <1>2, FS_RemoveElement
  <2>6. Cached \ {e} \subseteq others[e] /\ e \in DOMAIN others
    <3>1. \A j \in Cached \ {e} : cache[j].used > cache[e].used
      BY <2>2, <2>3 DEF IInv, UsedApart
    <3> QED
      BY <3>1 DEF IInv, NewerAreOthers
  <2>7. Cardinality(others[e]) >= Cardinality(Cached \ {e})
    <3>1. others[e] \in SUBSET Keys
      BY <2>6 DEF IInv, TypeOK
    <3>2. IsFiniteSet(others[e]) /\ Cardinality(others[e]) \in Nat
      BY <3>1, SubsetsFinite
    <3> QED
      BY <2>6, <3>2, <2>5, <1>2, FS_Subset
  <2> QED
    BY <1>1, <1>2, <1>4, <2>4, <2>5, <2>7 DEF Full
<1> QED
  BY <1>3, <1>4

-----------------------------------------------------------------------------
\* A call that gets a session for k, and leaves a cache with room for it.
LEMMA Used ==
    ASSUME IInv, NEW k \in Keys, NEW now \in 1..MaxClock, At(now), Got(k),
           NEW kept \in SUBSET Cached,
           \A e \in Cached \ kept : e = k \/ Cardinality(others[e]) >= MaxSessions - 1,
           Cardinality(kept \cup {k}) <= MaxSessions,
           DOMAIN cache' = kept \cup {k},
           cache' \in [kept \cup {k} -> [created : 1..now, used : 1..now]],
           \A j \in kept \ {k} : cache'[j] = cache[j],
           cache'[k].used = now
    PROVE  IInv'
<1>1. clock' = now /\ clock \in Nat /\ now \in Nat /\ now > clock /\ now <= MaxClock
  BY LimitsAssumption DEF At, IInv, TypeOK
<1>2. /\ Cached' = kept \cup {k}
      /\ DOMAIN others' = DOMAIN others \cup {k}
      /\ others'[k] = {}
      /\ \A j \in DOMAIN others \ {k} : others'[j] = others[j] \cup {k}
  BY DEF Cached, Got
<1>3. DOMAIN others \subseteq Keys /\ \A j \in DOMAIN others : others[j] \in SUBSET Keys
  BY DEF IInv, TypeOK
<1>4. \A j \in Cached : cache[j].used \in Nat /\ cache[j].used < now
  BY <1>1 DEF IInv, TypeOK
<1>5. TypeOK'
  <2>1. others' \in [DOMAIN others' -> SUBSET Keys]
    BY <1>2, <1>3 DEF Got
  <2>2. Cached' \subseteq Keys
    BY <1>2 DEF IInv, TypeOK
  <2> QED
    BY <1>1, <1>2, <1>3, <2>1, <2>2 DEF TypeOK
<1>6. UsedApart'
  BY <1>2, <1>4 DEF UsedApart, IInv
<1>7. NewerAreOthers'
  <2> SUFFICES ASSUME NEW i \in Cached'
               PROVE  /\ i \in DOMAIN others'
                      /\ \A j \in Cached' : cache'[j].used > cache'[i].used
                                                => j \in others'[i]
    BY DEF NewerAreOthers
  <2>1. CASE i = k
    <3>1. \A j \in Cached' : ~(cache'[j].used > now)
      BY <1>1, <1>2, <1>4
    <3> QED
      BY <2>1, <3>1, <1>2
  <2>2. CASE i # k
    <3>1. i \in Cached /\ i \in DOMAIN others /\ cache'[i] = cache[i]
      BY <2>2, <1>2 DEF IInv, NewerAreOthers
    <3>2. others'[i] = others[i] \cup {k}
      BY <2>2, <3>1, <1>2
    <3> QED
      BY <3>1, <3>2, <1>2 DEF IInv, NewerAreOthers
  <2> QED
    BY <2>1, <2>2
<1>8. GoneForOthers'
  <2> SUFFICES ASSUME NEW i \in DOMAIN others' \ Cached'
               PROVE  Cardinality(others'[i]) >= MaxSessions - 1
    BY DEF GoneForOthers
  <2>1. i \in DOMAIN others /\ i # k /\ others'[i] = others[i] \cup {k} /\ i \notin kept
    BY <1>2
  <2>2. Cardinality(others[i]) >= MaxSessions - 1
    BY <2>1 DEF IInv, GoneForOthers
  <2>3. IsFiniteSet(others[i]) /\ Cardinality(others[i]) \in Nat
    BY <1>3, <2>1, SubsetsFinite
  <2>4. Cardinality(others[i] \cup {k}) \in {Cardinality(others[i]), Cardinality(others[i]) + 1}
    BY <2>3, FS_AddElement
  <2> QED
    BY <2>1, <2>2, <2>3, <2>4, LimitsAssumption
<1> QED
  BY <1>5, <1>6, <1>7, <1>8 DEF IInv

LEMMA InvNext == IInv /\ [Next]_vars => IInv'
<1> SUFFICES ASSUME IInv, [Next]_vars PROVE IInv'
  OBVIOUS
<1>0. /\ Cached \subseteq Keys /\ Cardinality(Cached) \in Nat
      /\ Cardinality(Cached) <= MaxSessions /\ IsFiniteSet(Cached)
      /\ cache \in [Cached -> [created : 1..clock, used : 1..clock]]
  BY SubsetsFinite DEF IInv, TypeOK
<1>1. CASE UNCHANGED vars
  BY <1>1 DEF vars, IInv, TypeOK, UsedApart, NewerAreOthers, GoneForOthers, Cached
<1>2. ASSUME NEW k \in Keys, NEW now \in 1..MaxClock, Hit(k, now) PROVE IInv'
  <2>1. At(now) /\ Got(k) /\ k \in Cached /\ Cached \cup {k} = Cached
    BY <1>2 DEF Hit
  <2>2. clock \in Nat /\ now > clock
    BY <2>1, LimitsAssumption DEF At, IInv, TypeOK
  <2>3. /\ DOMAIN cache' = Cached /\ cache'[k].used = now
        /\ \A j \in Cached \ {k} : cache'[j] = cache[j]
        /\ cache' \in [Cached -> [created : 1..now, used : 1..now]]
    BY <1>0, <1>2, <2>1, <2>2 DEF Hit, Cached
  <2> QED
    BY SMTT(30), <1>0, <2>1, <2>3, Used
<1>3. ASSUME NEW k \in Keys, NEW now \in 1..MaxClock, Create(k, now) PROVE IInv'
  <2> DEFINE kept == Cached \ Evicted
  <2>1. At(now) /\ Got(k)
    BY <1>3 DEF Create
  <2>2. clock \in Nat /\ now > clock
    BY <2>1, LimitsAssumption DEF At, IInv, TypeOK
  <2>3. /\ DOMAIN cache' = kept \cup {k} /\ cache'[k].used = now
        /\ \A j \in kept \ {k} : cache'[j] = cache[j]
        /\ cache' \in [kept \cup {k} -> [created : 1..now, used : 1..now]]
    BY <1>0, <1>3, <2>2 DEF Create, Without, Cached
  <2>4. Cardinality(kept \cup {k}) <= MaxSessions
    <3>1. IsFiniteSet(kept) /\ Cardinality(kept) \in Nat
      BY <1>0, SubsetsFinite
    <3> QED
      BY SMTT(30), <3>1, Eviction, FS_AddElement, LimitsAssumption
  <2>5. \A e \in Cached \ kept : Cardinality(others[e]) >= MaxSessions - 1
    BY Eviction
  <2> HIDE DEF kept
  <2>6. kept \in SUBSET Cached
    BY DEF kept
  <2> QED
    BY <2>1, <2>3, <2>4, <2>5, <2>6, Used
<1>4. ASSUME NEW k \in Keys, NEW now \in 1..MaxClock, CreateFails(k, now) PROVE IInv'
  <2>1. clock \in Nat /\ now > clock /\ clock' = now /\ now <= MaxClock
    BY <1>4, LimitsAssumption DEF CreateFails, At, IInv, TypeOK
  <2>2. /\ Cached' = Cached \ Evicted /\ others' = others
        /\ \A j \in Cached' : cache'[j] = cache[j]
        /\ cache' \in [Cached' -> [created : 1..now, used : 1..now]]
    BY <1>0, <1>4, <2>1 DEF CreateFails, Without, Cached
  <2>3. Cardinality(Cached') <= MaxSessions
    BY <2>2, Eviction, LimitsAssumption
  <2>4. TypeOK'
    BY <2>1, <2>2, <2>3 DEF IInv, TypeOK
  <2>5. UsedApart' /\ NewerAreOthers'
    BY <2>2 DEF IInv, UsedApart, NewerAreOthers
  <2>6. GoneForOthers'
    BY <2>2, Eviction DEF IInv, GoneForOthers
  <2> QED
    BY <2>4, <2>5, <2>6 DEF IInv
<1> QED
  BY <1>1, <1>2, <1>3, <1>4 DEF Next

LEMMA Inductive == Spec => []IInv
BY InvInit, InvNext, PTL DEF Spec

-----------------------------------------------------------------------------
\* get_or_create never leaves more than max_sessions sessions in the cache.
THEOREM Bounded == Spec => []TypeOK
<1>1. IInv => TypeOK
  BY DEF IInv
<1> QED
  BY <1>1, Inductive, PTL

\* A session stays in the cache until sessions of max_sessions - 1 other keys
\* were used, whatever expires and whatever a backend_factory raises.
THEOREM Kept == Spec => []RecentlyUsedKept
<1>1. IInv => RecentlyUsedKept
  <2> SUFFICES ASSUME IInv, NEW k \in DOMAIN others,
                      Cardinality(others[k]) <= MaxSessions - 2
               PROVE  k \in Cached
    BY DEF RecentlyUsedKept
  <2>1. Cardinality(others[k]) \in Nat
    BY SubsetsFinite DEF IInv, TypeOK
  <2> QED
    BY <2>1, LimitsAssumption DEF IInv, GoneForOthers
<1> QED
  BY <1>1, Inductive, PTL
=============================================================================
