------------------------------- MODULE RoomPush -------------------------------
(***************************************************************************)
(* Whom a post reaches by webhook: the clients of Lifecycle, and the event *)
(* loop of the server (dispatch_after_append of delivery/webhook.py and    *)
(* retry_dlq of delivery/dlq.py) that reads the files they change.         *)
(*                                                                         *)
(* A dispatch runs without an await until it has its subscribers, so the   *)
(* loop does one at a time; the clients are other threads and processes,   *)
(* and change the registry and the presence files between any two of its   *)
(* reads.  The loop is a client too, whose one call is the heartbeat that  *)
(* marks an agent when its retries are exhausted.                          *)
(*                                                                         *)
(* Delivery has the permits, attempts and crashes of what comes after the  *)
(* dispatch: here a delivery is posted, and retried from its DLQ entry     *)
(* any number of times.  No client crashes.                                *)
(***************************************************************************)
EXTENDS Lifecycle

CONSTANTS
    Handlers,     \* the clients that are threads of the server
    Loop,         \* its event loop
    NoMessage     \* the loop is at no dispatch

ASSUME HandlersAssumption == Loop \in Clients /\ Handlers \subseteq Clients \ {Loop}
ASSUME NoMessageAssumption == NoMessage \notin Rooms \X Nat

VARIABLES
    queued,       \* messages whose dispatch has not started
    current,      \* the message it dispatches
    found,        \* agents of the registry, with their webhook, it is to look up
    fanout,       \* deliveries the fan-out has to make
    entries,      \* deliveries in the dead-letter queue
    posts,        \* POSTs made so far
    \* For the properties, from the append of a message on:
    steady,       \* the agents that could be reached all the time until now, or
                  \* until its dispatch was over
    had,          \* agents with each webhook they were registered with
    been,         \* agents that were members of its room
    blind         \* agents whose record its dispatch could not read

push    == <<queued, current, found, fanout, entries, posts>>
history == <<steady, had, been, blind>>
pvars   == <<vars, push, history>>

\* A message is the place of its record in the log of its room, a delivery an
\* agent, a message and the webhook.
Messages == Rooms \X Nat
SenderOf(m) == log[m[1]][m[2]].from

PInit ==
    /\ queued = {} /\ current = NoMessage /\ found = {}
    /\ fanout = {} /\ entries = {} /\ posts = {}
    /\ steady = {} /\ had = {} /\ been = {} /\ blind = {}

-----------------------------------------------------------------------------
(* The files change, or a message is appended and its dispatch scheduled.  *)

\* Does the registry name a webhook for a and call a reachable?
Listed(a) == hook[a] # NoHook /\ registry[a] \in {"online", "busy"}

Pending == queued \cup {m \in {current} : m # NoMessage}
Live    == Pending \cup {x[2] : x \in fanout \cup entries}

Posting(c) == pc[c] = "append" /\ pc'[c] = "idle" /\ log' # log

\* Only the handler of POST /rooms/:id/messages hands a message to the loop:
\* not the command line, and not the records that join_room and others append.
ClientStep(c) ==
    /\ (c # Loop /\ Begin(c)) \/ Step(c)
    /\ LET new == IF c \in Handlers /\ Kind(c) = "post" /\ Posting(c)
                  THEN {<<op[c].room, Len(log'[op[c].room])>>} ELSE {}
       IN /\ queued' = queued \cup new
          /\ steady' = {x \in steady : x[2] \in Pending =>
                                       Listed(x[1])' /\ x[2][1] \in rooms'[x[1]]}
                       \cup {x \in Agents \X new :
                               Listed(x[1]) /\ x[2][1] \in rooms[x[1]] /\ x[1] # op[c].agent}
          /\ had' = had \cup {<<a, m, hook'[a]>> : a \in Agents, m \in Live \cup new}
          /\ been' = been \cup {x \in Agents \X (Live \cup new) : x[2][1] \in rooms'[x[1]]}
    /\ UNCHANGED <<current, found, fanout, entries, posts, blind>>

-----------------------------------------------------------------------------
(* The event loop.                                                         *)

\* It is between two tasks: in no dispatch, and not marking an agent.
LoopFree == current = NoMessage /\ pc[Loop] = "idle"

\* Slip: the status of the presence file decides.
ListedByPresence(m) ==
    {<<a, hook[a]>> : a \in {b \in Agents :
        b # SenderOf(m) /\ hook[b] # NoHook /\ status[b] = "online"}}

\* get_subscribers_for_room: the registry's side of it.
Subscribers(m) == {<<a, hook[a]>> : a \in {b \in Agents : b # SenderOf(m) /\ Listed(b)}}

\* The registry is read without a lock: all agents are lost when it is torn.
ReadRegistry(m) ==
    /\ LoopFree /\ m \in queued
    /\ queued' = queued \ {m}
    /\ \E torn \in RegistryTorn(Loop) :
          /\ found' = IF torn THEN {} ELSE Subscribers(m)
          /\ blind' = IF torn THEN blind \cup (Agents \X {m}) ELSE blind
    /\ current' = IF found' = {} THEN NoMessage ELSE m
    /\ UNCHANGED <<vars, fanout, entries, posts, steady, had, been>>

\* Is a client changing the presence file of a?
PresenceTorn(a) ==
    {FALSE} \cup {TornReads /\ pc[d] \in {"reset", "presence"} /\ op[d].agent = a :
                    d \in Clients}

\* Slip: nobody asks for the room.
MemberOrNot(a, torn) == TRUE

Member(a, torn) == ~torn /\ current[1] \in rooms[a]

\* The presence file of one of them, without a lock either.
ReadPresence(x) ==
    /\ x \in found
    /\ found' = found \ {x}
    /\ \E torn \in PresenceTorn(x[1]) :
          /\ fanout' = IF Member(x[1], torn)
                       THEN fanout \cup {<<x[1], current, x[2]>>} ELSE fanout
          /\ blind' = IF torn THEN blind \cup {<<x[1], current>>} ELSE blind
    /\ current' = IF found' = {} THEN NoMessage ELSE current
    /\ UNCHANGED <<vars, queued, entries, posts, steady, had, been>>

\* deliver: the POST, and an entry if it fails.  The entry has the webhook.
Deliver(x) ==
    /\ LoopFree /\ x \in fanout
    /\ fanout' = fanout \ {x}
    /\ posts' = posts \cup {x}
    /\ entries' \in {entries, entries \cup {x}}
    /\ UNCHANGED <<vars, queued, current, found, history>>

\* _webhook_lookup prefers the webhook of the registry to that of the entry.
Target(x, torn) == IF ~torn /\ hook[x[1]] # NoHook THEN hook[x[1]] ELSE x[3]

RetryPost(x) ==
    \E torn \in RegistryTorn(Loop) :
        posts' = posts \cup {<<x[1], x[2], Target(x, torn)>>}

\* A retry, by retry_dlq: the entry goes, or stays for the next pass.
Retry(x) ==
    /\ LoopFree /\ x \in entries
    /\ RetryPost(x)
    /\ entries' \in {entries, entries \ {x}}
    /\ UNCHANGED <<vars, queued, current, found, fanout, history>>

\* The last retry fails: the entry goes, and the loop calls heartbeat.
RetryLast(x) ==
    /\ LoopFree /\ x \in entries
    /\ RetryPost(x)
    /\ entries' = entries \ {x}
    /\ op' = [op EXCEPT ![Loop] =
                [kind |-> "heartbeat", room |-> x[2][1], agent |-> x[1],
                 status |-> "unhealthy", hook |-> NoHook]]
    /\ Goto(Loop, "registry")
    /\ UNCHANGED <<files, started, crashes, queued, current, found, fanout, history>>

LoopStep ==
    \/ \E m \in queued : ReadRegistry(m)
    \/ \E x \in found : ReadPresence(x)
    \/ \E x \in fanout : Deliver(x)
    \/ \E x \in entries : Retry(x) \/ RetryLast(x)

PNext == (\E c \in Clients : ClientStep(c)) \/ LoopStep

PSpec == Init /\ PInit /\ [][PNext]_pvars

-----------------------------------------------------------------------------
(* Properties.                                                             *)

\* Whoever was a member of the room, registered with a webhook and online from
\* the post on until its dispatch was over, gets it, however the others register,
\* join, leave and beat meanwhile, unless a read met a file being rewritten.
EveryMemberTold ==
    \A x \in steady \ blind :
        x[2] \in Pending \/ \E y \in fanout \cup entries \cup posts : <<y[1], y[2]>> = x

\* A message only goes to webhooks that its agent was registered with, and to
\* agents that were members of the room, at some time since it was posted;
\* retries included.
SentWhereRegistered ==
    \A y \in posts : y \in had /\ <<y[1], y[2]>> \in been
=============================================================================
