--------------------------- MODULE DeliveryProofs ----------------------------
(***************************************************************************)
(* Safety of webhook delivery, for any agents, messages, concurrency, retry *)
(* limit and number of crashes.  One inductive invariant says where a      *)
(* delivery is and how often it was posted by then.                        *)
(***************************************************************************)
EXTENDS Delivery, FiniteSetTheorems, TLAPS

\* The entries the retry loop can read.
Readable == {x \in DOMAIN dlq : dlq[x] > 0}

\* A delivery is somewhere only after its message was dispatched.
Placed ==
    /\ waiting \cup posting \cup DOMAIN dlq \cup givenup \subseteq targeted
    /\ waiting \cap posting = {}
    /\ \A x \in targeted : x[2] \in posted /\ x[2] \notin queued
    /\ queued \subseteq posted

\* What the retry loop holds is on disk, and it gave up what it gave up.
LoopHolds ==
    /\ rtodo \subseteq Readable /\ rcur \notin rtodo
    /\ rpc = "sleeping" => rtodo = {}
    /\ rpc = "posting" => rcur \in Readable
    /\ rpc = "exhausted" => rcur \in givenup

\* One when the loop is posting x, which is not on record yet.
Underway(x) == IF rpc = "posting" /\ rcur = x THEN 1 ELSE 0

\* How often a delivery was posted, by where it is.
Bounded ==
    \A x \in Deliveries :
        /\ posts[x] <= 1 + MaxRetries + crashes
        /\ x \notin targeted \/ x \in waiting => posts[x] = 0
        /\ x \in posting => posts[x] = 1

\* The attempts on record are the POSTs made, but for those crashes cut short.
Recorded ==
    \A x \in Readable :
        /\ dlq[x] + Underway(x) <= posts[x]
        /\ posts[x] <= dlq[x] + Underway(x) + crashes

\* An agent whose id the queue refuses has no entries and no retries.
Unqueued ==
    \A x \in Deliveries : x[1] \in Queueless => x \notin DOMAIN dlq /\ posts[x] <= 1

Counted == Bounded /\ Recorded /\ RetriesExhausted

IInv ==
    /\ TypeOK /\ Placed /\ LoopHolds /\ OneOwner
    /\ Counted /\ Unqueued /\ NothingForgotten

-----------------------------------------------------------------------------
LEMMA InvInit == Init => IInv
<1> SUFFICES ASSUME Init PROVE IInv
  OBVIOUS
<1> USE AgentsAssumption, LimitsAssumption, NoEntryAssumption DEF Init
<1>1. TypeOK
  BY DEF TypeOK, Deliveries
<1>2. Placed /\ LoopHolds /\ OneOwner
  BY DEF Placed, LoopHolds, Readable, OneOwner
<1>3. Counted /\ Unqueued /\ NothingForgotten
  BY DEF Counted, Bounded, Recorded, RetriesExhausted, Unqueued, NothingForgotten,
         PostedOnce, Readable
<1> QED
  BY <1>1, <1>2, <1>3 DEF IInv

-----------------------------------------------------------------------------
(* The steps of the server and of the fan-outs.                            *)

LEMMA ServerStep ==
    ASSUME IInv,
           \/ \E m \in Messages : Post(m) \/ Dispatch(m)
           \/ \E a \in Agents, s \in {"online", "offline"} : Heartbeat(a, s)
           \/ (\E a \in Agents : Register(a)) \/ LoseRegistry
           \/ \E x \in Deliveries : StartPost(x) \/ PostOk(x) \/ PostFail(x)
    PROVE  IInv'
<1> USE LimitsAssumption, MessagesAssumption, NoEntryAssumption
<1>1. ASSUME NEW m \in Messages, Post(m) PROVE IInv'
  <2>1. TypeOK'
    BY <1>1 DEF Post, IInv, TypeOK, LoopHolds, Readable, Deliveries
  <2>2. Placed'
    BY <1>1 DEF Post, IInv, TypeOK, Placed, LoopHolds, Readable
  <2>3. LoopHolds'
    BY <1>1 DEF Post, IInv, TypeOK, Placed, LoopHolds, OneOwner, Readable
  <2>4. OneOwner'
    BY <1>1 DEF Post, IInv, TypeOK, Placed, LoopHolds, OneOwner, Readable
  <2>5. Counted'
    BY <1>1 DEF Post, IInv, TypeOK, Placed, LoopHolds, OneOwner, Counted, Bounded, Recorded, RetriesExhausted, Readable, Underway
  <2>6. NothingForgotten'
    BY <1>1 DEF Post, IInv, TypeOK, Placed, LoopHolds, Counted, Bounded, Unqueued,
       NothingForgotten, PostedOnce, Readable
  <2>7. Unqueued'
    BY <1>1 DEF Post, IInv, TypeOK, Placed, LoopHolds, Counted, Bounded, Unqueued, Readable
  <2> QED
    BY <2>1, <2>2, <2>3, <2>4, <2>5, <2>6, <2>7 DEF IInv
<1>2. ASSUME NEW m \in Messages, Dispatch(m) PROVE IInv'
  <2>1. TypeOK'
    BY <1>2 DEF Dispatch, Subscribers, IInv, TypeOK, LoopHolds, Readable, Deliveries
  <2>2. Placed'
    BY <1>2 DEF Dispatch, Subscribers, IInv, TypeOK, Placed, LoopHolds, Readable
  <2>3. LoopHolds'
    BY <1>2 DEF Dispatch, Subscribers, IInv, TypeOK, Placed, LoopHolds, OneOwner, Readable
  <2>4. OneOwner'
    <3>1. DOMAIN dlq \cup rtodo \cup {rcur} \cup givenup \subseteq targeted \cup {NoEntry}
      BY DEF IInv, TypeOK, Placed, LoopHolds, Readable
    <3>2. /\ \A x \in waiting' \ waiting : x \in Deliveries /\ x[2] = m
          /\ posting' = posting /\ dlq' = dlq /\ rtodo' = rtodo
          /\ rcur' = rcur /\ givenup' = givenup /\ m \in queued
      BY <1>2 DEF Dispatch, Subscribers, Deliveries
    <3>3. (waiting' \ waiting) \cap (targeted \cup {NoEntry}) = {}
      BY <3>2 DEF IInv, Placed
    <3> QED
      BY <3>1, <3>2, <3>3 DEF IInv, OneOwner
  <2>5. Counted'
    BY <1>2 DEF Dispatch, Subscribers, IInv, TypeOK, Placed, LoopHolds, OneOwner, Counted, Bounded, Recorded, RetriesExhausted, Readable, Underway
  <2>6. NothingForgotten'
    BY <1>2 DEF Dispatch, Subscribers, IInv, TypeOK, Placed, LoopHolds, Counted, Bounded, Unqueued,
       NothingForgotten, PostedOnce, Readable
  <2>7. Unqueued'
    BY <1>2 DEF Dispatch, Subscribers, IInv, TypeOK, Placed, LoopHolds, Counted, Bounded, Unqueued, Readable
  <2> QED
    BY <2>1, <2>2, <2>3, <2>4, <2>5, <2>6, <2>7 DEF IInv
<1>3. ASSUME \/ \E a \in Agents, s \in {"online", "offline"} : Heartbeat(a, s)
             \/ (\E a \in Agents : Register(a)) \/ LoseRegistry
      PROVE  IInv'
  <2>1. TypeOK'
    BY <1>3 DEF Heartbeat, Register, LoseRegistry, Unregistered, memory, history, IInv, TypeOK, LoopHolds, Readable, Deliveries
  <2>2. Placed'
    BY <1>3 DEF Heartbeat, Register, LoseRegistry, Unregistered, memory, history, IInv, TypeOK, Placed, LoopHolds, Readable
  <2>3. LoopHolds'
    BY <1>3 DEF Heartbeat, Register, LoseRegistry, Unregistered, memory, history, IInv, TypeOK, Placed, LoopHolds, OneOwner, Readable
  <2>4. OneOwner'
    BY <1>3 DEF Heartbeat, Register, LoseRegistry, Unregistered, memory, history, IInv, TypeOK, Placed, LoopHolds, OneOwner, Readable
  <2>5. Counted'
    BY <1>3 DEF Heartbeat, Register, LoseRegistry, Unregistered, memory, history, IInv, TypeOK, Placed, LoopHolds, OneOwner, Counted, Bounded, Recorded, RetriesExhausted, Readable, Underway
  <2>6. NothingForgotten'
    BY <1>3 DEF Heartbeat, Register, LoseRegistry, Unregistered, memory, history, IInv, TypeOK, Placed, LoopHolds, Counted, Bounded, Unqueued,
       NothingForgotten, PostedOnce, Readable
  <2>7. Unqueued'
    BY <1>3 DEF Heartbeat, Register, LoseRegistry, Unregistered, memory, history, IInv, TypeOK, Placed, LoopHolds, Counted, Bounded, Unqueued, Readable
  <2> QED
    BY <2>1, <2>2, <2>3, <2>4, <2>5, <2>6, <2>7 DEF IInv
<1>4. ASSUME NEW x \in Deliveries, StartPost(x) PROVE IInv'
  <2>1. TypeOK'
    BY <1>4 DEF StartPost, IInv, TypeOK, LoopHolds, Readable, Deliveries
  <2>2. Placed'
    BY <1>4 DEF StartPost, IInv, TypeOK, Placed, LoopHolds, Readable
  <2>3. LoopHolds'
    BY <1>4 DEF StartPost, IInv, TypeOK, Placed, LoopHolds, OneOwner, Readable
  <2>4. OneOwner'
    BY <1>4 DEF StartPost, IInv, TypeOK, Placed, LoopHolds, OneOwner, Readable
  <2>5. Counted'
    BY <1>4 DEF StartPost, IInv, TypeOK, Placed, LoopHolds, OneOwner, Counted, Bounded, Recorded, RetriesExhausted, Readable, Underway
  <2>6. NothingForgotten'
    BY <1>4 DEF StartPost, IInv, TypeOK, Placed, LoopHolds, Counted, Bounded, Unqueued,
       NothingForgotten, PostedOnce, Readable
  <2>7. Unqueued'
    BY <1>4 DEF StartPost, IInv, TypeOK, Placed, LoopHolds, Counted, Bounded, Unqueued, Readable
  <2> QED
    BY <2>1, <2>2, <2>3, <2>4, <2>5, <2>6, <2>7 DEF IInv
<1>5. ASSUME NEW x \in Deliveries, PostOk(x) PROVE IInv'
  <2>1. TypeOK'
    BY <1>5 DEF PostOk, IInv, TypeOK, LoopHolds, Readable, Deliveries
  <2>2. Placed'
    BY <1>5 DEF PostOk, IInv, TypeOK, Placed, LoopHolds, Readable
  <2>3. LoopHolds'
    BY <1>5 DEF PostOk, IInv, TypeOK, Placed, LoopHolds, OneOwner, Readable
  <2>4. OneOwner'
    BY <1>5 DEF PostOk, IInv, TypeOK, Placed, LoopHolds, OneOwner, Readable
  <2>5. Counted'
    BY <1>5 DEF PostOk, IInv, TypeOK, Placed, LoopHolds, OneOwner, Counted, Bounded, Recorded, RetriesExhausted, Readable, Underway
  <2>6. NothingForgotten'
    BY <1>5 DEF PostOk, IInv, TypeOK, Placed, LoopHolds, Counted, Bounded, Unqueued,
       NothingForgotten, PostedOnce, Readable
  <2>7. Unqueued'
    BY <1>5 DEF PostOk, IInv, TypeOK, Placed, LoopHolds, Counted, Bounded, Unqueued, Readable
  <2> QED
    BY <2>1, <2>2, <2>3, <2>4, <2>5, <2>6, <2>7 DEF IInv
<1>6. ASSUME NEW x \in Deliveries, PostFail(x) PROVE IInv'
  <2>1. TypeOK'
    BY <1>6 DEF PostFail, Saved, IInv, TypeOK, LoopHolds, Readable, Deliveries
  <2>2. Placed'
    BY <1>6 DEF PostFail, Saved, IInv, TypeOK, Placed, LoopHolds, Readable
  <2>3. LoopHolds'
    BY <1>6 DEF PostFail, Saved, IInv, TypeOK, Placed, LoopHolds, OneOwner, Readable
  <2>4. OneOwner'
    BY <1>6 DEF PostFail, Saved, IInv, TypeOK, Placed, LoopHolds, OneOwner, Readable
  <2>5. Counted'
    BY <1>6 DEF PostFail, Saved, IInv, TypeOK, Placed, LoopHolds, OneOwner, Counted, Bounded, Recorded, RetriesExhausted, Readable, Underway
  <2>6. NothingForgotten'
    BY <1>6 DEF PostFail, Saved, IInv, TypeOK, Placed, LoopHolds, Counted, Bounded, Unqueued,
       NothingForgotten, PostedOnce, Readable
  <2>7. Unqueued'
    BY <1>6 DEF PostFail, Saved, IInv, TypeOK, Placed, LoopHolds, Counted, Bounded, Unqueued, Readable
  <2> QED
    BY <2>1, <2>2, <2>3, <2>4, <2>5, <2>6, <2>7 DEF IInv
<1> QED
  BY <1>1, <1>2, <1>3, <1>4, <1>5, <1>6

-----------------------------------------------------------------------------
(* The steps of the retry loop.                                            *)

LEMMA LoopStepKeeps == ASSUME IInv, LoopStep PROVE IInv'
<1> USE LimitsAssumption, MessagesAssumption, NoEntryAssumption
<1>1. ASSUME Scan PROVE IInv'
  <2>1. TypeOK'
    BY <1>1 DEF Scan, IInv, TypeOK, LoopHolds, Readable, Deliveries
  <2>2. Placed'
    BY <1>1 DEF Scan, IInv, TypeOK, Placed, LoopHolds, Readable
  <2>3. LoopHolds'
    BY <1>1 DEF Scan, IInv, TypeOK, Placed, LoopHolds, OneOwner, Readable
  <2>4. OneOwner'
    BY <1>1 DEF Scan, IInv, TypeOK, Placed, LoopHolds, OneOwner, Readable
  <2>5. Counted'
    BY <1>1 DEF Scan, IInv, TypeOK, Placed, LoopHolds, OneOwner, Counted, Bounded, Recorded, RetriesExhausted, Readable, Underway
  <2>6. NothingForgotten'
    BY <1>1 DEF Scan, IInv, TypeOK, Placed, LoopHolds, Counted, Bounded, Unqueued,
       NothingForgotten, PostedOnce, Readable
  <2>7. Unqueued'
    BY <1>1 DEF Scan, IInv, TypeOK, Placed, LoopHolds, Counted, Bounded, Unqueued, Readable
  <2> QED
    BY <2>1, <2>2, <2>3, <2>4, <2>5, <2>6, <2>7 DEF IInv
<1>2. ASSUME NEW x \in Deliveries, RetryStart(x) PROVE IInv'
  <2>1. TypeOK'
    BY <1>2 DEF RetryStart, IInv, TypeOK, LoopHolds, Readable, Deliveries
  <2>2. Placed'
    BY <1>2 DEF RetryStart, IInv, TypeOK, Placed, LoopHolds, Readable
  <2>3. LoopHolds'
    BY <1>2 DEF RetryStart, IInv, TypeOK, Placed, LoopHolds, OneOwner, Readable
  <2>4. OneOwner'
    BY <1>2 DEF RetryStart, IInv, TypeOK, Placed, LoopHolds, OneOwner, Readable
  <2>5. Counted'
    BY <1>2 DEF RetryStart, IInv, TypeOK, Placed, LoopHolds, OneOwner, Counted, Bounded, Recorded, RetriesExhausted, Readable, Underway
  <2>6. NothingForgotten'
    BY <1>2 DEF RetryStart, IInv, TypeOK, Placed, LoopHolds, Counted, Bounded, Unqueued,
       NothingForgotten, PostedOnce, Readable
  <2>7. Unqueued'
    BY <1>2 DEF RetryStart, IInv, TypeOK, Placed, LoopHolds, Counted, Bounded, Unqueued, Readable
  <2> QED
    BY <2>1, <2>2, <2>3, <2>4, <2>5, <2>6, <2>7 DEF IInv
<1>3. ASSUME RetryOk PROVE IInv'
  <2>1. TypeOK'
    BY <1>3 DEF RetryOk, RemoveEntry, IInv, TypeOK, LoopHolds, Readable, Deliveries
  <2>2. Placed'
    BY <1>3 DEF RetryOk, RemoveEntry, IInv, TypeOK, Placed, LoopHolds, Readable
  <2>3. LoopHolds'
    BY <1>3 DEF RetryOk, RemoveEntry, IInv, TypeOK, Placed, LoopHolds, OneOwner, Readable
  <2>4. OneOwner'
    BY <1>3 DEF RetryOk, RemoveEntry, IInv, TypeOK, Placed, LoopHolds, OneOwner, Readable
  <2>5. Counted'
    BY <1>3 DEF RetryOk, RemoveEntry, IInv, TypeOK, Placed, LoopHolds, OneOwner, Counted, Bounded, Recorded, RetriesExhausted, Readable, Underway
  <2>6. NothingForgotten'
    BY <1>3 DEF RetryOk, RemoveEntry, IInv, TypeOK, Placed, LoopHolds, Counted, Bounded, Unqueued,
       NothingForgotten, PostedOnce, Readable
  <2>7. Unqueued'
    BY <1>3 DEF RetryOk, RemoveEntry, IInv, TypeOK, Placed, LoopHolds, Counted, Bounded, Unqueued, Readable
  <2> QED
    BY <2>1, <2>2, <2>3, <2>4, <2>5, <2>6, <2>7 DEF IInv
<1>4. ASSUME RetryFail PROVE IInv'
  <2>1. TypeOK'
    BY <1>4 DEF RetryFail, Saved, IsLast, IInv, TypeOK, LoopHolds, Readable, Deliveries
  <2>2. Placed'
    BY <1>4 DEF RetryFail, Saved, IsLast, IInv, TypeOK, Placed, LoopHolds, Readable
  <2>3. LoopHolds'
    BY <1>4 DEF RetryFail, Saved, IsLast, IInv, TypeOK, Placed, LoopHolds, OneOwner, Readable
  <2>4. OneOwner'
    BY <1>4 DEF RetryFail, Saved, IsLast, IInv, TypeOK, Placed, LoopHolds, OneOwner, Readable
  <2>5. Counted'
    BY <1>4 DEF RetryFail, Saved, IsLast, IInv, TypeOK, Placed, LoopHolds, OneOwner, Counted, Bounded, Recorded, RetriesExhausted, Readable, Underway
  <2>6. NothingForgotten'
    BY <1>4 DEF RetryFail, Saved, IsLast, IInv, TypeOK, Placed, LoopHolds, Counted, Bounded, Unqueued,
       NothingForgotten, PostedOnce, Readable
  <2>7. Unqueued'
    BY <1>4 DEF RetryFail, Saved, IsLast, IInv, TypeOK, Placed, LoopHolds, Counted, Bounded, Unqueued, Readable
  <2> QED
    BY <2>1, <2>2, <2>3, <2>4, <2>5, <2>6, <2>7 DEF IInv
<1>5. ASSUME GiveUp PROVE IInv'
  <2>1. TypeOK'
    BY <1>5 DEF GiveUp, RemoveEntry, IsLast, IInv, TypeOK, LoopHolds, Readable, Deliveries
  <2>2. Placed'
    BY <1>5 DEF GiveUp, RemoveEntry, IsLast, IInv, TypeOK, Placed, LoopHolds, Readable
  <2>3. LoopHolds'
    BY <1>5 DEF GiveUp, RemoveEntry, IsLast, IInv, TypeOK, Placed, LoopHolds, OneOwner, Readable
  <2>4. OneOwner'
    BY <1>5 DEF GiveUp, RemoveEntry, IsLast, IInv, TypeOK, Placed, LoopHolds, OneOwner, Readable
  <2>5. Counted'
    BY <1>5 DEF GiveUp, RemoveEntry, IsLast, IInv, TypeOK, Placed, LoopHolds, OneOwner, Counted, Bounded, Recorded, RetriesExhausted, Readable, Underway
  <2>6. NothingForgotten'
    BY <1>5 DEF GiveUp, RemoveEntry, IsLast, IInv, TypeOK, Placed, LoopHolds, Counted, Bounded, Unqueued,
       NothingForgotten, PostedOnce, Readable
  <2>7. Unqueued'
    BY <1>5 DEF GiveUp, RemoveEntry, IsLast, IInv, TypeOK, Placed, LoopHolds, Counted, Bounded, Unqueued, Readable
  <2> QED
    BY <2>1, <2>2, <2>3, <2>4, <2>5, <2>6, <2>7 DEF IInv
<1>6. ASSUME MarkUnhealthy PROVE IInv'
  <2>1. TypeOK'
    BY <1>6 DEF MarkUnhealthy, history, IInv, TypeOK, LoopHolds, Readable, Deliveries
  <2>2. Placed'
    BY <1>6 DEF MarkUnhealthy, history, IInv, TypeOK, Placed, LoopHolds, Readable
  <2>3. LoopHolds'
    BY <1>6 DEF MarkUnhealthy, history, IInv, TypeOK, Placed, LoopHolds, OneOwner, Readable
  <2>4. OneOwner'
    BY <1>6 DEF MarkUnhealthy, history, IInv, TypeOK, Placed, LoopHolds, OneOwner, Readable
  <2>5. Counted'
    BY <1>6 DEF MarkUnhealthy, history, IInv, TypeOK, Placed, LoopHolds, OneOwner, Counted, Bounded, Recorded, RetriesExhausted, Readable, Underway
  <2>6. NothingForgotten'
    BY <1>6 DEF MarkUnhealthy, history, IInv, TypeOK, Placed, LoopHolds, Counted, Bounded, Unqueued,
       NothingForgotten, PostedOnce, Readable
  <2>7. Unqueued'
    BY <1>6 DEF MarkUnhealthy, history, IInv, TypeOK, Placed, LoopHolds, Counted, Bounded, Unqueued, Readable
  <2> QED
    BY <2>1, <2>2, <2>3, <2>4, <2>5, <2>6, <2>7 DEF IInv
<1>7. ASSUME EndPass PROVE IInv'
  <2>1. TypeOK'
    BY <1>7 DEF EndPass, history, IInv, TypeOK, LoopHolds, Readable, Deliveries
  <2>2. Placed'
    BY <1>7 DEF EndPass, history, IInv, TypeOK, Placed, LoopHolds, Readable
  <2>3. LoopHolds'
    BY <1>7 DEF EndPass, history, IInv, TypeOK, Placed, LoopHolds, OneOwner, Readable
  <2>4. OneOwner'
    BY <1>7 DEF EndPass, history, IInv, TypeOK, Placed, LoopHolds, OneOwner, Readable
  <2>5. Counted'
    BY <1>7 DEF EndPass, history, IInv, TypeOK, Placed, LoopHolds, OneOwner, Counted, Bounded, Recorded, RetriesExhausted, Readable, Underway
  <2>6. NothingForgotten'
    BY <1>7 DEF EndPass, history, IInv, TypeOK, Placed, LoopHolds, Counted, Bounded, Unqueued,
       NothingForgotten, PostedOnce, Readable
  <2>7. Unqueued'
    BY <1>7 DEF EndPass, history, IInv, TypeOK, Placed, LoopHolds, Counted, Bounded, Unqueued, Readable
  <2> QED
    BY <2>1, <2>2, <2>3, <2>4, <2>5, <2>6, <2>7 DEF IInv
<1> QED
  BY <1>1, <1>2, <1>3, <1>4, <1>5, <1>6, <1>7 DEF LoopStep

-----------------------------------------------------------------------------
(* A crash, and the invariant.                                             *)

LEMMA CrashKeeps == ASSUME IInv, Crash PROVE IInv'
<1> USE LimitsAssumption, NoEntryAssumption
<1>1. /\ DOMAIN dlq' \subseteq DOMAIN dlq \cup posting \cup {rcur}
      /\ DOMAIN dlq' \subseteq Deliveries
      /\ dlq' \in [DOMAIN dlq' -> 0..MaxRetries]
      /\ \A x \in DOMAIN dlq' : x \in Readable' => x \in Readable /\ dlq'[x] = dlq[x]
      /\ rcur \in DOMAIN dlq' => rcur \in DOMAIN dlq
  <2>1. CASE UNCHANGED dlq
    BY <2>1 DEF IInv, TypeOK, Readable
  <2>2. ASSUME NEW x \in posting, dlq' = Saved(x, 0) PROVE <1>1!:
    BY <2>2 DEF Saved, IInv, TypeOK, OneOwner, Readable
  <2>3. CASE rpc = "posting" /\ dlq' = Saved(rcur, 0)
    BY <2>3 DEF Saved, IInv, TypeOK, LoopHolds, Readable
  <2> QED
    BY <2>1, <2>2, <2>3 DEF Crash
<1>2. TypeOK'
  <2>1. status' \in [Agents -> {"online", "offline", "unhealthy", "none"}]
    BY DEF Crash, Unregistered, IInv, TypeOK
  <2>2. forgot' \subseteq Deliveries
    BY DEF Crash, IInv, TypeOK
  <2> QED
    BY <1>1, <2>1, <2>2 DEF Crash, IInv, TypeOK
<1>3. Placed'
  BY ZenonT(40) DEF Crash, Saved, IsLast, history, IInv, TypeOK, Placed, LoopHolds, Readable
<1>4. LoopHolds'
  BY DEF Crash, Saved, IsLast, history, IInv, TypeOK, Placed, LoopHolds, OneOwner, Readable
<1>5. OneOwner'
  BY DEF Crash, Saved, IsLast, history, IInv, TypeOK, Placed, LoopHolds, OneOwner, Readable
<1>6. Counted'
  <2>1. posts' = posts /\ posts \in [Deliveries -> Nat] /\ crashes \in Nat
        /\ crashes' = crashes + 1 /\ rpc' = "sleeping" /\ waiting' = {}
        /\ posting' = {} /\ targeted' = targeted /\ givenup' = givenup
    BY DEF Crash, history, IInv, TypeOK
  <2>2. Bounded'
    BY <2>1 DEF IInv, Counted, Bounded
  <2>3. Recorded'
    <3> SUFFICES ASSUME NEW x \in Readable'
                 PROVE  /\ dlq'[x] + Underway(x)' <= posts'[x]
                        /\ posts'[x] <= dlq'[x] + Underway(x)' + crashes'
      BY DEF Recorded
    <3>1. x \in Readable /\ dlq'[x] = dlq[x] /\ x \in Deliveries /\ dlq[x] \in Nat
      BY <1>1 DEF Readable, IInv, TypeOK
    <3>2. Underway(x)' = 0 /\ Underway(x) \in {0, 1}
      BY <2>1 DEF Underway
    <3>3. dlq[x] + Underway(x) <= posts[x] /\ posts[x] <= dlq[x] + Underway(x) + crashes
      BY <3>1 DEF IInv, Counted, Recorded
    <3> QED
      BY <2>1, <3>1, <3>2, <3>3
  <2>4. RetriesExhausted'
    BY <2>1 DEF IInv, Counted, RetriesExhausted
  <2> QED
    BY <2>2, <2>3, <2>4 DEF Counted
<1>7. Unqueued'
  <2>1. \A x \in Deliveries : x[1] \in Queueless => x \notin DOMAIN dlq'
    <3>1. CASE UNCHANGED dlq
      BY <3>1 DEF IInv, Unqueued
    <3>2. ASSUME NEW x \in posting, x[1] \notin Queueless, dlq' = Saved(x, 0) PROVE <2>1
      BY <3>2 DEF Saved, IInv, Unqueued
    <3>3. CASE rpc = "posting" /\ dlq' = Saved(rcur, 0)
      BY <3>3 DEF Saved, IInv, LoopHolds, Readable, Unqueued
    <3> QED
      BY <3>1, <3>2, <3>3 DEF Crash
  <2> QED
    BY <2>1 DEF Crash, IInv, Unqueued
<1>8. NothingForgotten'
  <2>1. /\ targeted' = targeted /\ received' = received /\ givenup' = givenup
        /\ posts' = posts /\ forgot \cup waiting \cup posting \subseteq forgot'
    BY DEF Crash
  <2>2. \A x \in Readable : x \in Readable' \/ x \in forgot'
    <3>1. CASE UNCHANGED dlq
      BY <3>1 DEF Readable
    <3>2. ASSUME NEW x \in posting, dlq' = Saved(x, 0) PROVE <2>2
      BY <3>2 DEF Saved, IInv, OneOwner, Readable
    <3>3. CASE rcur \in forgot' /\ dlq' = Saved(rcur, 0)
      BY <3>3 DEF Saved, Readable
    <3> QED
      BY <3>1, <3>2, <3>3 DEF Crash
  <2> QED
    BY <2>1, <2>2 DEF IInv, NothingForgotten, PostedOnce, Readable
<1> QED
  BY <1>2, <1>3, <1>4, <1>5, <1>6, <1>7, <1>8 DEF IInv

LEMMA Inductive == Spec => []IInv
<1>1. IInv /\ [Next]_vars => IInv'
  <2>1. CASE UNCHANGED vars
    BY <2>1 DEF vars, memory, history, IInv, TypeOK, Placed, LoopHolds, OneOwner,
                Counted, Bounded, Recorded, NothingForgotten, PostedOnce, Unqueued,
                RetriesExhausted, Readable, Underway
  <2> QED
    BY <2>1, ServerStep, LoopStepKeeps, CrashKeeps DEF Next
<1> QED
  BY <1>1, InvInit, PTL DEF Spec

\* Type correctness, for any agents, messages, limits and crashes.
THEOREM TypeCorrect == Spec => []TypeOK
<1>1. IInv => TypeOK
  BY DEF IInv
<1> QED
  BY <1>1, Inductive, PTL

\* A delivery is never in the hands of a fan-out and of the retry loop at once.
THEOREM Owner == Spec => []OneOwner
<1>1. IInv => OneOwner
  BY DEF IInv
<1> QED
  BY <1>1, Inductive, PTL

\* No delivery is forgotten, but for those a crash finds in memory, or being
\* written, and failed POSTs to agents whose id the queue refuses.
THEOREM Forgotten == Spec => []NothingForgotten
<1>1. IInv => NothingForgotten
  BY DEF IInv
<1> QED
  BY <1>1, Inductive, PTL

\* The POSTs made of a delivery are bounded, over any number of crashes, and
\* none is given up before all its retries were made.
THEOREM Retries == Spec => []RetriesCounted
<1>1. IInv => RetriesCounted
  BY DEF IInv, Counted, Bounded, AttemptsBounded, RetriesCounted
<1> QED
  BY <1>1, Inductive, PTL

-----------------------------------------------------------------------------
(* The gauge: OneOwner says that an entry is written where there was none,  *)
(* and LoopHolds that the one that goes was there.                         *)

EntriesOf(a) == {x \in DOMAIN dlq : x[1] = a}

LEMMA EntriesFinite ==
    ASSUME TypeOK, NEW a \in Agents
    PROVE  IsFiniteSet(EntriesOf(a)) /\ Cardinality(EntriesOf(a)) \in Nat
<1>1. IsFiniteSet(Deliveries)
  BY AgentsAssumption, FS_Product DEF Deliveries
<1>2. EntriesOf(a) \in SUBSET Deliveries
  BY DEF EntriesOf, TypeOK
<1>3. IsFiniteSet(EntriesOf(a))
  BY <1>1, <1>2, FS_Subset
<1> QED
  BY <1>3, FS_CardinalityType

LEMMA DepthStep ==
    ASSUME IInv, DepthIsEntries, [Next]_vars
    PROVE  DepthIsEntries'
<1> SUFFICES ASSUME crashes' = 0, NEW a \in Agents
             PROVE  depth'[a] = Cardinality(EntriesOf(a)')
  BY DEF DepthIsEntries, EntriesOf
<1>1. ~Crash
  BY LimitsAssumption DEF Crash, IInv, TypeOK
<1>2. crashes = 0
  BY <1>1 DEF Next, LoopStep, Post, Dispatch, Heartbeat, Register, LoseRegistry,
      StartPost, PostOk, PostFail, Scan, RetryStart, RetryOk, RetryFail, GiveUp, MarkUnhealthy, EndPass, vars, memory, history
<1>3. depth[a] = Cardinality(EntriesOf(a)) /\ depth \in [Agents -> Int]
  BY <1>2 DEF DepthIsEntries, EntriesOf, IInv, TypeOK
<1>4. IsFiniteSet(EntriesOf(a)) /\ Cardinality(EntriesOf(a)) \in Nat
  BY EntriesFinite DEF IInv
<1>5. ASSUME NEW x \in Deliveries, PostFail(x), x[1] \notin Queueless
      PROVE  depth'[a] = Cardinality(EntriesOf(a)')
  <2>1. x \notin DOMAIN dlq /\ x \notin EntriesOf(a) /\ x[1] \in Agents
    BY <1>5 DEF PostFail, IInv, OneOwner, EntriesOf, Deliveries
  <2>2. depth' = [depth EXCEPT ![x[1]] = @ + 1] /\ DOMAIN dlq' = DOMAIN dlq \cup {x}
    BY <1>5 DEF PostFail, Saved
  <2>3. CASE x[1] = a
    <3>1. EntriesOf(a)' = EntriesOf(a) \cup {x} /\ depth'[a] = depth[a] + 1
      BY <2>2, <2>3, <1>3 DEF EntriesOf
    <3> QED
      BY <3>1, <2>1, <1>3, <1>4, FS_AddElement
  <2>4. CASE x[1] # a
    <3>1. EntriesOf(a)' = EntriesOf(a) /\ depth'[a] = depth[a]
      BY <2>2, <2>4, <1>3 DEF EntriesOf
    <3> QED
      BY <3>1, <1>3
  <2> QED
    BY <2>3, <2>4
<1>6. ASSUME RemoveEntry(rcur), rpc = "posting" PROVE depth'[a] = Cardinality(EntriesOf(a)')
  <2>1. rcur \in DOMAIN dlq /\ rcur \in Deliveries /\ rcur[1] \in Agents
    BY <1>6 DEF IInv, TypeOK, LoopHolds, Readable, Deliveries
  <2>2. depth' = [depth EXCEPT ![rcur[1]] = @ - 1] /\ DOMAIN dlq' = DOMAIN dlq \ {rcur}
    BY <1>6, <2>1 DEF RemoveEntry
  <2>3. CASE rcur[1] = a
    <3>1. EntriesOf(a)' = EntriesOf(a) \ {rcur} /\ depth'[a] = depth[a] - 1
      BY <2>2, <2>3, <1>3 DEF EntriesOf
    <3>2. rcur \in EntriesOf(a)
      BY <2>1, <2>3 DEF EntriesOf
    <3> QED
      BY <3>1, <3>2, <1>3, <1>4, FS_RemoveElement
  <2>4. CASE rcur[1] # a
    <3>1. EntriesOf(a)' = EntriesOf(a) /\ depth'[a] = depth[a]
      BY <2>2, <2>4, <1>3 DEF EntriesOf
    <3> QED
      BY <3>1, <1>3
  <2> QED
    BY <2>3, <2>4
<1>7. CASE RetryFail
  <2>1. rcur \in DOMAIN dlq
    BY <1>7 DEF RetryFail, IInv, LoopHolds, Readable
  <2>2. DOMAIN dlq' = DOMAIN dlq /\ depth' = depth
    BY <1>7, <2>1 DEF RetryFail, Saved
  <2> QED
    BY <2>2, <1>3 DEF EntriesOf
<1>8. CASE UNCHANGED <<dlq, depth>>
  BY <1>8, <1>3 DEF EntriesOf
<1>9. \/ UNCHANGED <<dlq, depth>> \/ RetryFail
      \/ \E x \in Deliveries : PostFail(x) /\ x[1] \notin Queueless
      \/ RemoveEntry(rcur) /\ rpc = "posting"
  BY <1>1 DEF Next, LoopStep, Post, Dispatch, Heartbeat, Register, LoseRegistry,
      StartPost, PostOk, PostFail, Scan, RetryStart, RetryOk, GiveUp, MarkUnhealthy, EndPass, vars, memory, history
<1> QED
  BY <1>5, <1>6, <1>7, <1>8, <1>9

\* Until the server crashes, the gauge of an agent counts its entries.
THEOREM Gauged == Spec => []DepthIsEntries
<1>1. Init => DepthIsEntries
  <2> SUFFICES ASSUME Init, NEW a \in Agents
               PROVE  depth[a] = Cardinality({x \in DOMAIN dlq : x[1] = a})
    BY DEF DepthIsEntries
  <2>1. {x \in DOMAIN dlq : x[1] = a} = {} /\ depth[a] = 0
    BY DEF Init
  <2> QED
    BY <2>1, FS_EmptySet
<1>2. IInv /\ DepthIsEntries /\ [Next]_vars => DepthIsEntries'
  BY DepthStep
<1> QED
  BY <1>1, <1>2, Inductive, PTL DEF Spec
=============================================================================
