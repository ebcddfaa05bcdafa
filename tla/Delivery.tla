------------------------------ MODULE Delivery -------------------------------
(***************************************************************************)
(* Webhook delivery in the central node: fan-out of each posted message to *)
(* the subscribed agents (agentroom/delivery/webhook.py), the dead-letter  *)
(* queue and its retry loop (delivery/dlq.py), as server.py wires them.    *)
(*                                                                         *)
(* All of it runs on one asyncio event loop, in one thread: an action here *)
(* is what runs between two awaits.  The POST itself runs in a worker      *)
(* thread and may end after the receiver took the message, but too late    *)
(* or with an error.  Registry updates (heartbeats) come from the threads  *)
(* of the HTTP server at any time.  A crash loses what is in memory, and   *)
(* the file that was being written; the server then starts again.          *)
(*                                                                         *)
(* At first all agents have joined the room and registered a webhook.  The *)
(* order in which a pass of the retry loop takes its entries is left open. *)
(***************************************************************************)
EXTENDS Integers, FiniteSets

CONSTANTS
    Agents,        \* agents with a webhook, subscribed to the room
    Messages,      \* messages posted to the room
    SenderOf,      \* who posts each message, with a webhook or without
    Concurrency,   \* permits of the semaphore each fan_out creates
    MaxRetries,    \* MAX_RETRIES of dlq.py
    Queueless,     \* agents whose id the queue refuses ("." and "..")
    TornReads,     \* may an unlocked read find the registry half written?
    MaxCrashes,    \* bound: crashes of the server, and of others at the registry
    MaxSlept,      \* bound: sleeps of the loop that are counted per entry
    NoEntry        \* the retry loop is at no entry

ASSUME AgentsAssumption == IsFiniteSet(Agents) /\ IsFiniteSet(Messages)
ASSUME MessagesAssumption == DOMAIN SenderOf = Messages
ASSUME QueuelessAssumption == Queueless \subseteq Agents
ASSUME LimitsAssumption ==
    /\ Concurrency \in Nat \ {0} /\ MaxRetries \in Nat \ {0}
    /\ MaxCrashes \in Nat /\ MaxSlept \in Nat
    /\ TornReads \in BOOLEAN

Deliveries == Agents \X Messages

ASSUME NoEntryAssumption == NoEntry \notin Deliveries

VARIABLES
    status,     \* agent -> status in the registry, "none": not in it
    queued,     \* messages whose dispatch coroutine has not run yet
    waiting,    \* deliveries that wait for a permit
    posting,    \* deliveries whose POST is under way
    dlq,        \* delivery -> attempts, for the entries on disk; 0: unreadable
    depth,      \* agent -> the gauge dlq_depth
    rpc,        \* where the retry loop is
    rtodo,      \* entries of this pass still to be retried
    rcur,       \* the entry it is at
    posted,     \* messages posted so far
    targeted,   \* deliveries a dispatch decided to make
    received,   \* deliveries the receiver got at least once
    posts,      \* delivery -> POSTs made
    givenup,    \* deliveries dropped after their last retry
    forgot,     \* deliveries a crash of the server found in memory alone
    slept,      \* delivery -> sleeps of the loop since its last POST
    crashes,    \* of the server
    losses      \* of processes in the middle of a rewrite of registry.json

memory  == <<queued, waiting, posting, depth, rpc, rtodo, rcur>>
history == <<posted, targeted, received, posts, givenup, forgot, slept>>
vars    == <<status, dlq, memory, history, crashes, losses>>

Init ==
    /\ status = [a \in Agents |-> "online"]
    /\ queued = {} /\ waiting = {} /\ posting = {}
    /\ dlq = [x \in {} |-> 0] /\ depth = [a \in Agents |-> 0]
    /\ rpc = "sleeping" /\ rtodo = {} /\ rcur = NoEntry
    /\ posted = {} /\ targeted = {} /\ received = {} /\ givenup = {}
    /\ forgot = {}
    /\ posts = [x \in Deliveries |-> 0] /\ slept = [x \in Deliveries |-> 0]
    /\ crashes = 0 /\ losses = 0

-----------------------------------------------------------------------------
(* server.py: the request handlers.                                        *)

\* A message is appended; the handler schedules its dispatch and answers.
Post(m) ==
    /\ m \notin posted
    /\ posted' = posted \cup {m} /\ queued' = queued \cup {m}
    /\ UNCHANGED <<status, waiting, posting, dlq, depth, rpc, rtodo, rcur,
                   targeted, received, posts, givenup, forgot, slept, crashes, losses>>

\* An agent's heartbeat; one of an agent that is not registered is refused.
Heartbeat(a, s) ==
    /\ status[a] \notin {"none", s}
    /\ status' = [status EXCEPT ![a] = s]
    /\ UNCHANGED <<dlq, memory, history, crashes, losses>>

Unregistered == [a \in Agents |-> "none"]

\* A process stops between the truncate and the flush of registry.json.
LoseRegistry ==
    /\ crashes + losses < MaxCrashes
    /\ losses' = losses + 1
    /\ status' = Unregistered
    /\ UNCHANGED <<dlq, memory, history, crashes>>

\* An agent registers again.  That takes it out of its rooms, so until it has
\* joined again it gets no more than one that is offline.
Register(a) ==
    /\ status[a] = "none"
    /\ status' = [status EXCEPT ![a] = "offline"]
    /\ UNCHANGED <<dlq, memory, history, crashes, losses>>

-----------------------------------------------------------------------------
(* webhook.py.                                                             *)

Subscribers(m) == {a \in Agents : a # SenderOf[m] /\ status[a] \in {"online", "busy"}}

\* dispatch_after_append reads the registry and the presence files, none of
\* them locked: an agent whose record it reads torn is not a subscriber.
Dispatch(m) ==
    /\ m \in queued
    /\ queued' = queued \ {m}
    /\ \E torn \in IF TornReads THEN SUBSET Agents ELSE {{}} :
          LET new == (Subscribers(m) \ torn) \X {m}
          IN waiting' = waiting \cup new /\ targeted' = targeted \cup new
    /\ UNCHANGED <<status, posting, dlq, depth, rpc, rtodo, rcur,
                   posted, received, posts, givenup, forgot, slept, crashes, losses>>

\* Slip: the delivery stays with the ones that wait.
StartAgain(x) ==
    /\ x \in waiting
    /\ Cardinality({y \in posting : y[2] = x[2]}) < Concurrency
    /\ posting' = posting \cup {x}
    /\ posts' = [posts EXCEPT ![x] = @ + 1]
    /\ UNCHANGED <<status, queued, waiting, dlq, depth, rpc, rtodo, rcur,
                   posted, targeted, received, givenup, forgot, slept, crashes, losses>>

StartPost(x) ==
    /\ x \in waiting
    /\ Cardinality({y \in posting : y[2] = x[2]}) < Concurrency
    /\ waiting' = waiting \ {x} /\ posting' = posting \cup {x}
    /\ posts' = [posts EXCEPT ![x] = @ + 1]
    /\ UNCHANGED <<status, queued, dlq, depth, rpc, rtodo, rcur,
                   posted, targeted, received, givenup, forgot, slept, crashes, losses>>

PostOk(x) ==
    /\ x \in posting
    /\ posting' = posting \ {x}
    /\ received' = received \cup {x}
    /\ UNCHANGED <<status, queued, waiting, dlq, depth, rpc, rtodo, rcur,
                   posted, targeted, posts, givenup, forgot, slept, crashes, losses>>

\* Slip: the entry is not written.
NotSaved(x, attempts) == dlq

\* The file of entry x, with its attempts.
Saved(x, attempts) ==
    [y \in DOMAIN dlq \cup {x} |-> IF y = x THEN attempts ELSE dlq[y]]

\* The POST raised: enqueue_dlq writes the entry and counts it, unless it raises
\* too, because the agent's id is none for a directory (_safe_agent_dir).
PostFail(x) ==
    /\ x \in posting
    /\ posting' = posting \ {x}
    /\ \E late \in {{}, {x}} : received' = received \cup late
    /\ \/ /\ x[1] \notin Queueless
          /\ dlq' = Saved(x, 1)
          /\ depth' = [depth EXCEPT ![x[1]] = @ + 1]
          /\ slept' = [slept EXCEPT ![x] = 0]
       \/ x[1] \in Queueless /\ UNCHANGED <<dlq, depth, slept>>
    /\ UNCHANGED <<status, queued, waiting, rpc, rtodo, rcur,
                   posted, targeted, posts, givenup, forgot, crashes, losses>>

-----------------------------------------------------------------------------
(* dlq.py.                                                                 *)

\* The sleep of retry_loop is over; retry_dlq reads the entries that parse.
Scan ==
    /\ rpc = "sleeping"
    /\ \E x \in DOMAIN dlq : dlq[x] > 0
    /\ rtodo' = {x \in DOMAIN dlq : dlq[x] > 0}
    /\ rpc' = "scanning"
    /\ slept' = [x \in Deliveries |->
                   IF x \in DOMAIN dlq /\ slept[x] < MaxSlept
                   THEN slept[x] + 1 ELSE slept[x]]
    /\ UNCHANGED <<status, queued, waiting, posting, dlq, depth, rcur,
                   posted, targeted, received, posts, givenup, forgot, crashes, losses>>

\* The next entry.  It carries the webhook of the agent, for the case that the
\* registry has none, and is posted again at once whatever its attempts.
RetryStart(x) ==
    /\ rpc = "scanning" /\ x \in rtodo
    /\ rtodo' = rtodo \ {x} /\ rcur' = x /\ rpc' = "posting"
    /\ posts' = [posts EXCEPT ![x] = @ + 1]
    /\ UNCHANGED <<status, queued, waiting, posting, dlq, depth,
                   posted, targeted, received, givenup, forgot, slept, crashes, losses>>

\* Slip: the gauge is left.
RemoveUncounted(x) ==
    dlq' = [y \in DOMAIN dlq \ {x} |-> dlq[y]] /\ UNCHANGED depth

\* _remove_dlq_entry.
RemoveEntry(x) ==
    /\ dlq' = [y \in DOMAIN dlq \ {x} |-> dlq[y]]
    /\ depth' = IF x \in DOMAIN dlq THEN [depth EXCEPT ![x[1]] = @ - 1] ELSE depth

RetryOk ==
    /\ rpc = "posting"
    /\ received' = received \cup {rcur}
    /\ RemoveEntry(rcur)
    /\ rpc' = "scanning" /\ rcur' = NoEntry
    /\ UNCHANGED <<status, queued, waiting, posting, rtodo,
                   posted, targeted, posts, givenup, forgot, slept, crashes, losses>>

\* Slips: one retry more, or one less.
PastLast(x) == dlq[x] > MaxRetries
NearLast(x) == dlq[x] + 1 >= MaxRetries

IsLast(x) == dlq[x] >= MaxRetries

\* The retry failed, and was not the last.
RetryFail ==
    /\ rpc = "posting" /\ ~IsLast(rcur)
    /\ \E late \in {{}, {rcur}} : received' = received \cup late
    /\ dlq' = Saved(rcur, dlq[rcur] + 1)
    /\ slept' = [slept EXCEPT ![rcur] = 0]
    /\ rpc' = "scanning" /\ rcur' = NoEntry
    /\ UNCHANGED <<status, queued, waiting, posting, depth, rtodo,
                   posted, targeted, posts, givenup, forgot, crashes, losses>>

\* It was the last: the entry goes, then the agent is marked.
GiveUp ==
    /\ rpc = "posting" /\ IsLast(rcur)
    /\ \E late \in {{}, {rcur}} : received' = received \cup late
    /\ RemoveEntry(rcur)
    /\ givenup' = givenup \cup {rcur}
    /\ rpc' = "exhausted"
    /\ UNCHANGED <<status, queued, waiting, posting, rtodo, rcur,
                   posted, targeted, posts, forgot, slept, crashes, losses>>

\* Slip: the exception is not caught, and the loop is over.
MarkOrDie ==
    /\ rpc = "exhausted" /\ status[rcur[1]] # "none"
    /\ status' = [status EXCEPT ![rcur[1]] = "unhealthy"]
    /\ rpc' = "scanning" /\ rcur' = NoEntry
    /\ UNCHANGED <<queued, waiting, posting, dlq, depth, rtodo, history, crashes, losses>>

\* mark_unhealthy_fn is a heartbeat with status "unhealthy".  For an agent that
\* is not registered it raises: the rest of the pass is left, the loop sleeps.
MarkUnhealthy ==
    /\ rpc = "exhausted"
    /\ rcur' = NoEntry
    /\ \/ /\ status[rcur[1]] # "none"
          /\ status' = [status EXCEPT ![rcur[1]] = "unhealthy"]
          /\ rpc' = "scanning" /\ UNCHANGED rtodo
       \/ /\ status[rcur[1]] = "none"
          /\ rpc' = "sleeping" /\ rtodo' = {}
          /\ UNCHANGED status
    /\ UNCHANGED <<queued, waiting, posting, dlq, depth, history, crashes, losses>>

\* The pass is over, the loop sleeps.
EndPass ==
    /\ rpc = "scanning" /\ rtodo = {}
    /\ rpc' = "sleeping"
    /\ UNCHANGED <<status, queued, waiting, posting, dlq, depth, rtodo, rcur,
                   history, crashes, losses>>

-----------------------------------------------------------------------------
\* The server stops and starts again.  If it was writing a DLQ entry, which
\* takes a truncation and a write, the file it leaves does not parse; if it was
\* writing the registry, for a heartbeat or a mark, that is empty.
Crash ==
    /\ crashes + losses < MaxCrashes
    /\ crashes' = crashes + 1
    /\ queued' = {} /\ waiting' = {} /\ posting' = {}
    /\ rpc' = "sleeping" /\ rtodo' = {} /\ rcur' = NoEntry
    /\ depth' = [a \in Agents |-> 0]
    /\ \/ /\ UNCHANGED dlq
          /\ forgot' = forgot \cup waiting \cup posting
       \/ \E x \in posting :
             /\ x[1] \notin Queueless /\ dlq' = Saved(x, 0)
             /\ forgot' = forgot \cup waiting \cup posting
       \/ /\ rpc = "posting" /\ ~IsLast(rcur) /\ dlq' = Saved(rcur, 0)
          /\ forgot' = forgot \cup waiting \cup posting \cup {rcur}
    /\ status' \in {status, Unregistered}
    /\ UNCHANGED <<posted, targeted, received, posts, givenup, slept, losses>>

LoopStep ==
    \/ Scan
    \/ \E x \in Deliveries : RetryStart(x)
    \/ RetryOk
    \/ RetryFail
    \/ GiveUp
    \/ MarkUnhealthy
    \/ EndPass

Next ==
    \/ \E m \in Messages : Post(m) \/ Dispatch(m)
    \/ \E a \in Agents, s \in {"online", "offline"} : Heartbeat(a, s)
    \/ \E a \in Agents : Register(a)
    \/ LoseRegistry
    \/ \E x \in Deliveries : StartPost(x) \/ PostOk(x) \/ PostFail(x)
    \/ LoopStep
    \/ Crash

Spec == Init /\ [][Next]_vars

\* The event loop runs every task that is ready, and a POST ends within its
\* timeout, one way or the other.
FairSpec ==
    /\ Spec
    /\ \A m \in Messages : WF_vars(Dispatch(m))
    /\ \A x \in Deliveries : /\ WF_vars(StartPost(x))
                             /\ WF_vars(PostOk(x) \/ PostFail(x))
    /\ WF_vars(LoopStep)

-----------------------------------------------------------------------------
(* Properties.                                                             *)

TypeOK ==
    /\ status \in [Agents -> {"online", "offline", "unhealthy", "none"}]
    /\ queued \subseteq Messages /\ posted \subseteq Messages
    /\ waiting \subseteq Deliveries /\ posting \subseteq Deliveries
    /\ DOMAIN dlq \subseteq Deliveries /\ dlq \in [DOMAIN dlq -> 0..MaxRetries]
    /\ depth \in [Agents -> Int]
    /\ rpc \in {"sleeping", "scanning", "posting", "exhausted"}
    /\ rtodo \subseteq Deliveries /\ rcur \in Deliveries \cup {NoEntry}
    /\ rpc \in {"posting", "exhausted"} <=> rcur # NoEntry
    /\ targeted \subseteq Deliveries /\ received \subseteq Deliveries
    /\ givenup \subseteq Deliveries /\ forgot \subseteq Deliveries
    /\ posts \in [Deliveries -> Nat] /\ slept \in [Deliveries -> 0..MaxSlept]
    /\ crashes \in Nat /\ losses \in Nat

\* Those who get one POST and no more: a failed one is not queued.
PostedOnce == {x \in Deliveries : x[1] \in Queueless /\ posts[x] = 1}

\* Nothing a dispatch set out to deliver is forgotten: it was received, or is on
\* its way, or has an entry that the retry loop can read, or was dropped after
\* its last retry.  What gets lost is what a crash of the server found in memory
\* or being written, and failed POSTs to agents whose id the queue refuses.
NothingForgotten ==
    targeted \subseteq received \cup waiting \cup posting \cup givenup
                       \cup {x \in DOMAIN dlq : dlq[x] > 0}
                       \cup forgot \cup PostedOnce

\* A delivery is posted once and then retried MAX_RETRIES times at the most; a
\* retry that a crash cut short is not on record, and is made once more.
AttemptsBounded == \A x \in Deliveries : posts[x] <= 1 + MaxRetries + crashes

\* A delivery is only dropped after all its retries.
RetriesExhausted == \A x \in givenup : posts[x] >= 1 + MaxRetries

\* Both: retries are made as often as MAX_RETRIES says.  The architecture
\* document (189-207) has one less: attempt 3 is the final retry, and an entry
\* with MAX_RETRIES attempts is dropped without a POST; see FinalRetry.
RetriesCounted == AttemptsBounded /\ RetriesExhausted

\* The document's count: at most MAX_RETRIES POSTs, the first one among them.
FinalRetry == \A x \in Deliveries : posts[x] <= MaxRetries + crashes

\* A delivery is in one place: it is never posted by a fan-out task while the
\* retry loop has an entry for it.
OneOwner ==
    (waiting \cup posting) \cap (DOMAIN dlq \cup rtodo \cup {rcur} \cup givenup) = {}

\* In the server's first life, the gauge of an agent counts its entries.
DepthIsEntries ==
    crashes = 0 =>
        \A a \in Agents : depth[a] = Cardinality({x \in DOMAIN dlq : x[1] = a})

\* Every delivery settles: it is received, or dropped after all its retries, or
\* a crash found it in memory, or its one POST is over; this although passes end
\* half way, and whatever becomes of the registry.
EveryDeliverySettles ==
    \A x \in Deliveries :
        (x \in targeted) ~> \/ x \in received \cup givenup \cup forgot
                            \/ x \in PostedOnce \ posting

\* Every pass ends and the loop goes on, also when the agent to be marked is not
\* registered any more and the heartbeat raises.
LoopGoesOn == []<>(rpc = "sleeping")

\* RETRY_DELAYS: the wait before the retry of an entry with k attempts, in
\* seconds; retry_loop sleeps 10 seconds between two passes.
Delay(k) == CASE k = 1 -> 0 [] k = 2 -> 1 [] k = 3 -> 5 [] OTHER -> 30

\* An entry is not retried before its delay has passed.
BackoffKept ==
    [][\A x \in rtodo : posts'[x] > posts[x] => slept[x] * 10 >= Delay(dlq[x])]_vars
=============================================================================
