---------------------------- MODULE RoomPushProofs ----------------------------
(***************************************************************************)
(* Theorems about RoomPush, for any clients, rooms, agents, webhooks and   *)
(* calls: whom a post reaches, and whom it may not reach.                  *)
(***************************************************************************)
EXTENDS RoomPush, LifecycleProofs

Posted     == {m \in Messages : m[2] \in 1..Len(log[m[1]])}
Webhooks   == Hooks \cup {NoHook}
Deliveries == Agents \X Messages \X Webhooks

PushTypes ==
    /\ queued \subseteq Posted
    /\ current \in Posted \cup {NoMessage}
    /\ found \subseteq Agents \X Webhooks
    /\ found = {} <=> current = NoMessage
    /\ fanout \subseteq Deliveries /\ entries \subseteq Deliveries
    /\ posts \subseteq Deliveries
    /\ steady \subseteq Agents \X Posted

\* The histories are up to date for every message that may still be sent, and
\* what was picked for one, or sent, is in them.
Recorded ==
    /\ \A m \in Live, a \in Agents :
          /\ <<a, m, hook[a]>> \in had
          /\ m[1] \in rooms[a] => <<a, m>> \in been
    /\ \A x \in found : <<x[1], current, x[2]>> \in had
    /\ \A y \in fanout \cup entries \cup posts : y \in had /\ <<y[1], y[2]>> \in been

Told(x) == \E y \in fanout \cup entries \cup posts : <<y[1], y[2]>> = x

\* An agent that could be reached all the time can be reached now, and is told,
\* or is yet to be looked up.
Reachable ==
    \A x \in steady :
        /\ x[2] \in Pending =>
             /\ Listed(x[1]) /\ x[2][1] \in rooms[x[1]] /\ x[1] # SenderOf(x[2])
        /\ \/ x[2] \in queued \/ x \in blind \/ Told(x)
           \/ x[2] = current /\ \E y \in found : y[1] = x[1]

PInv == TypeOK /\ PushTypes /\ Recorded /\ Reachable

-----------------------------------------------------------------------------
(* The steps of clients.                                                   *)

LEMMA PushInit == Init /\ PInit => PInv
<1> SUFFICES ASSUME Init, PInit PROVE PInv
  OBVIOUS
<1>1. TypeOK
  BY InvInit DEF IInv
<1>2. Live = {}
  BY DEF PInit, Live, Pending
<1> QED
  BY <1>1, <1>2 DEF PInit, PInv, PushTypes, Recorded, Reachable

LEMMA PostedTypes ==
    ASSUME TypeOK
    PROVE  /\ \A m \in Messages : /\ m = <<m[1], m[2]>> /\ m[1] \in Rooms /\ m[2] \in Nat
           /\ \A r \in Rooms, n \in Nat : <<r, n>> \in Messages
           /\ \A r \in Rooms : log[r] \in Seq(Records) /\ Len(log[r]) \in Nat
BY DEF TypeOK, Messages

LEMMA LogGrows ==
    ASSUME TypeOK, NEW c \in Clients, Act(c)
    PROVE  \A m \in Posted : m \in Posted' /\ SenderOf(m)' = SenderOf(m)
<1>1. ASSUME NEW r \in Rooms, NEW i \in 1..Len(log[r])
      PROVE  i \in 1..Len(log'[r]) /\ log'[r][i] = log[r][i]
  <2>1. log[r] \in Seq(Records) /\ Len(log[r]) \in Nat
    BY DEF TypeOK
  <2>2. log'[r] = log[r] \/ log'[r] = Append(log[r], RecordOf(c))
    <3>1. log' = log \/ AppendRecord(c)
      BY Frame
    <3>2. AppendRecord(c) => log' = [log EXCEPT ![op[c].room] = Append(@, RecordOf(c))]
      BY DEF AppendRecord
    <3> QED
      BY <3>1, <3>2 DEF TypeOK
  <2> QED
    BY <2>1, <2>2, RecordType
<1>2. \A m \in Posted : m[1] \in Rooms /\ m[2] \in 1..Len(log[m[1]])
  BY DEF Posted, Messages
<1> QED
  BY <1>1, <1>2 DEF Posted, SenderOf, Messages

\* The message that a step of c hands to the loop, if there is one.
Handed(c) ==
    IF c \in Handlers /\ Kind(c) = "post" /\ Posting(c)
    THEN {<<op[c].room, Len(log'[op[c].room])>>} ELSE {}

LEMMA HandedOver ==
    ASSUME TypeOK, NEW c \in Clients, Act(c), NEW m \in Handed(c)
    PROVE  /\ m \in Posted' /\ m \notin Posted
           /\ SenderOf(m)' = op[c].agent
           /\ UNCHANGED <<registry, hook, rooms>>
<1> DEFINE r == op[c].room
<1>1. Kind(c) = "post" /\ log' # log /\ m = <<r, Len(log'[r])>>
  BY DEF Handed, Posting
<1>2. AppendRecord(c)
  BY <1>1, Frame
<1>3. r \in Rooms /\ log[r] \in Seq(Records) /\ Len(log[r]) \in Nat
  BY DEF TypeOK, Ops
<1>4. log'[r] = Append(log[r], RecordOf(c))
  BY <1>2, <1>3 DEF AppendRecord, TypeOK
<1>5. Len(log'[r]) = Len(log[r]) + 1 /\ log'[r][Len(log[r]) + 1] = RecordOf(c)
  BY <1>3, <1>4, RecordType
<1>6. RecordOf(c).from = op[c].agent
  BY <1>1 DEF RecordOf, Kind
<1>7. m[1] = r /\ m[2] = Len(log[r]) + 1 /\ m \in Messages
  BY <1>1, <1>3, <1>5 DEF Messages
<1>8. m \in Posted' /\ m \notin Posted
  BY <1>3, <1>5, <1>7 DEF Posted, Messages
<1>9. SenderOf(m)' = op[c].agent
  BY <1>5, <1>6, <1>7 DEF SenderOf
<1> QED
  BY <1>2, <1>8, <1>9 DEF AppendRecord, docs

LEMMA ClientPush ==
    ASSUME PInv, NEW c \in Clients, ClientStep(c)
    PROVE  PInv'
<1> DEFINE new == Handed(c)
<1>1. TypeOK /\ Act(c)
  BY DEF PInv, ClientStep, Act
<1>2. /\ queued' = queued \cup new
      /\ steady' = {x \in steady : x[2] \in Pending =>
                                   Listed(x[1])' /\ x[2][1] \in rooms'[x[1]]}
                   \cup {x \in Agents \X new :
                           Listed(x[1]) /\ x[2][1] \in rooms[x[1]] /\ x[1] # op[c].agent}
      /\ had' = had \cup {<<a, m, hook'[a]>> : a \in Agents, m \in Live \cup new}
      /\ been' = been \cup {x \in Agents \X (Live \cup new) : x[2][1] \in rooms'[x[1]]}
      /\ UNCHANGED <<current, found, fanout, entries, posts, blind>>
  BY DEF ClientStep, Handed
<1>3. TypeOK'
  BY <1>1, TypeStep
<1>4. \A m \in Posted : m \in Posted' /\ SenderOf(m)' = SenderOf(m)
  BY <1>1, LogGrows
<1>5. \A m \in new : m \in Posted' /\ m \notin Posted /\ SenderOf(m)' = op[c].agent
  BY <1>1, HandedOver
<1>6. new # {} => UNCHANGED <<registry, hook, rooms>>
  BY <1>1, HandedOver
<1> HIDE DEF new
<1>7. Pending' = Pending \cup new /\ Live' = Live \cup new
  BY <1>2 DEF Pending, Live
<1>8. PushTypes'
  <2>1. PushTypes
    BY DEF PInv
  <2>2. queued' \subseteq Posted' /\ current' \in Posted' \cup {NoMessage}
    BY <1>2, <1>4, <1>5, <2>1 DEF PushTypes
  <2>3. steady' \subseteq Agents \X Posted'
    <3>1. steady \subseteq Agents \X Posted'
      BY <1>4, <2>1 DEF PushTypes
    <3> QED
      BY <1>2, <1>5, <3>1
  <2> QED
    BY <1>2, <2>1, <2>2, <2>3 DEF PushTypes, Deliveries, Messages, Webhooks
<1>9. Recorded'
  <2>1. Recorded
    BY DEF PInv
  <2>2. \A m \in Live', a \in Agents :
          /\ <<a, m, hook'[a]>> \in had'
          /\ m[1] \in rooms'[a] => <<a, m>> \in been'
    BY <1>2, <1>7
  <2>3. \A x \in found' : <<x[1], current', x[2]>> \in had'
    BY <1>2, <2>1 DEF Recorded
  <2>4. \A y \in fanout' \cup entries' \cup posts' : y \in had' /\ <<y[1], y[2]>> \in been'
    <3>1. had \subseteq had' /\ been \subseteq been'
      BY <1>2
    <3>2. fanout' \cup entries' \cup posts' = fanout \cup entries \cup posts
      BY <1>2
    <3> QED
      BY <2>1, <3>1, <3>2 DEF Recorded
  <2> QED
    BY <2>2, <2>3, <2>4 DEF Recorded
<1>10. Reachable'
  <2> SUFFICES ASSUME NEW x \in steady'
               PROVE  /\ x[2] \in Pending' =>
                           /\ Listed(x[1])' /\ x[2][1] \in rooms'[x[1]]
                           /\ x[1] # SenderOf(x[2])'
                      /\ \/ x[2] \in queued' \/ x \in blind' \/ Told(x)'
                         \/ x[2] = current' /\ \E y \in found' : y[1] = x[1]
    BY DEF Reachable
  <2>1. CASE x \in steady /\ (x[2] \in Pending =>
                                  Listed(x[1])' /\ x[2][1] \in rooms'[x[1]])
    <3>1. x[2] \in Posted /\ x[2] \notin new
      BY <1>5, <2>1 DEF PInv, PushTypes
    <3>2. x[2] \in Pending' => x[2] \in Pending
      BY <1>7, <3>1
    <3>3. Told(x) => Told(x)'
      BY <1>2 DEF Told
    <3>4. SenderOf(x[2])' = SenderOf(x[2])
      BY <1>4, <3>1
    <3> QED
      BY <1>2, <2>1, <3>2, <3>3, <3>4 DEF PInv, Reachable
  <2>2. CASE /\ x \in Agents \X new /\ Listed(x[1]) /\ x[2][1] \in rooms[x[1]]
             /\ x[1] # op[c].agent
    <3>1. /\ x[2] \in new /\ Listed(x[1]) /\ x[2][1] \in rooms[x[1]]
          /\ x[1] # op[c].agent
      BY <2>2
    <3>2. Listed(x[1])' /\ x[2][1] \in rooms'[x[1]]
      BY <1>6, <3>1 DEF Listed
    <3>3. SenderOf(x[2])' = op[c].agent
      BY <1>5, <3>1
    <3> QED
      BY <1>2, <3>1, <3>2, <3>3
  <2> QED
    BY <1>2, <2>1, <2>2
<1> QED
  BY <1>3, <1>8, <1>9, <1>10 DEF PInv

-----------------------------------------------------------------------------
(* The steps of the event loop.                                            *)

\* It leaves the files alone; what it may still send only gets less.
LEMMA LoopTypes ==
    ASSUME PInv, LoopStep
    PROVE  /\ TypeOK' /\ UNCHANGED <<files, had, been, steady>>
           /\ Posted' = Posted
           /\ \A m \in Posted : SenderOf(m)' = SenderOf(m)
           /\ \A a \in Agents : Listed(a)' = Listed(a)
<1>1. UNCHANGED <<files, had, been, steady>>
  BY DEF LoopStep, ReadRegistry, ReadPresence, Deliver, Retry, RetryLast, vars, history
<1>2. TypeOK'
  <2>1. CASE UNCHANGED vars
    BY <2>1 DEF PInv, TypeOK, vars, files, docs
  <2>2. ASSUME NEW x \in entries, RetryLast(x)
        PROVE  TypeOK'
    <3>1. x[1] \in Agents /\ x[2][1] \in Rooms
      BY <2>2 DEF PInv, PushTypes, Deliveries, Messages
    <3>2. op' \in [Clients -> Ops] /\ Loop \in Clients
      BY <2>2, <3>1, HandlersAssumption DEF RetryLast, PInv, TypeOK, Ops, Kinds
    <3> QED
      BY <2>2, <3>2, <1>1 DEF RetryLast, Goto, PInv, TypeOK, files, docs
  <2> QED
    BY <2>1, <2>2 DEF LoopStep, ReadRegistry, ReadPresence, Deliver, Retry
<1> QED
  BY <1>1, <1>2 DEF files, docs, Posted, SenderOf, Listed

LEMMA ReadRegistryPush ==
    ASSUME PInv, NEW m \in queued, ReadRegistry(m)
    PROVE  PInv'
<1> DEFINE Pick(torn) == /\ found' = IF torn THEN {} ELSE Subscribers(m)
                         /\ blind' = IF torn THEN blind \cup (Agents \X {m}) ELSE blind
<1>1. PICK torn \in RegistryTorn(Loop) : Pick(torn)
  BY DEF ReadRegistry
<1>2. /\ current = NoMessage /\ queued' = queued \ {m}
      /\ current' = IF found' = {} THEN NoMessage ELSE m
      /\ UNCHANGED <<fanout, entries, posts, steady, had, been>>
  BY DEF ReadRegistry, LoopFree
<1>3. PushTypes /\ Recorded /\ Reachable
  BY DEF PInv
<1>4. /\ TypeOK' /\ UNCHANGED files /\ Posted' = Posted
      /\ \A n \in Posted : SenderOf(n)' = SenderOf(n)
      /\ \A a \in Agents : Listed(a)' = Listed(a)
  BY LoopTypes DEF LoopStep
<1>5. m \in Posted /\ m # NoMessage /\ m \in Pending /\ NoMessage \notin Posted
  BY <1>3, NoMessageAssumption DEF PushTypes, Posted, Messages, Pending
<1>6. Pending' \subseteq Pending /\ Live' \subseteq Live /\ m \in Live
  BY <1>2, <1>5 DEF Pending, Live
<1>7. Subscribers(m) = {<<a, hook[a]>> : a \in {b \in Agents : b # SenderOf(m) /\ Listed(b)}}
  BY DEF Subscribers
<1>8. found' \subseteq {<<a, hook[a]>> : a \in Agents}
  BY <1>1, <1>7
<1>9. PushTypes'
  <2>1. found' \subseteq Agents \X Webhooks
    BY <1>8 DEF PInv, TypeOK, Webhooks
  <2> QED
    BY <1>2, <1>3, <1>4, <1>5, <2>1 DEF PushTypes
<1>10. Recorded'
  <2>1. \A x \in found' : <<x[1], current', x[2]>> \in had'
    <3> SUFFICES ASSUME NEW x \in found'
                 PROVE  <<x[1], m, x[2]>> \in had
      BY <1>2
    <3>1. PICK a \in Agents : x = <<a, hook[a]>>
      BY <1>8
    <3>2. <<a, m, hook[a]>> \in had
      BY <1>3, <1>6 DEF Recorded
    <3> QED
      BY <3>1, <3>2
  <2> QED
    BY <1>2, <1>3, <1>4, <1>6, <2>1 DEF Recorded, files, docs
<1>11. Reachable'
  <2> SUFFICES ASSUME NEW x \in steady
               PROVE  /\ x[2] \in Pending' =>
                           /\ Listed(x[1])' /\ x[2][1] \in rooms'[x[1]]
                           /\ x[1] # SenderOf(x[2])'
                      /\ \/ x[2] \in queued' \/ x \in blind' \/ Told(x)'
                         \/ x[2] = current' /\ \E y \in found' : y[1] = x[1]
    BY <1>2 DEF Reachable
  <2>1. x = <<x[1], x[2]>> /\ x[1] \in Agents /\ x[2] \in Posted
    BY <1>3 DEF PushTypes
  <2>2. x[2] \in Pending => /\ Listed(x[1]) /\ x[2][1] \in rooms[x[1]]
                            /\ x[1] # SenderOf(x[2])
    BY <1>3 DEF Reachable
  <2>3. x[2] \in Pending' => /\ Listed(x[1])' /\ x[2][1] \in rooms'[x[1]]
                             /\ x[1] # SenderOf(x[2])'
    BY <1>4, <1>6, <2>1, <2>2 DEF files, docs
  <2>4. CASE x[2] # m
    <3>1. x[2] # current
      BY <1>2, <1>5, <2>1
    <3>2. Told(x) => Told(x)'
      BY <1>2 DEF Told
    <3>3. x \in blind => x \in blind'
      BY <1>1
    <3> QED
      BY <1>2, <1>3, <2>3, <2>4, <3>1, <3>2, <3>3 DEF Reachable
  <2>5. CASE x[2] = m /\ torn
    BY <1>1, <2>1, <2>3, <2>5
  <2>6. CASE x[2] = m /\ ~torn
    <3>1. <<x[1], hook[x[1]]>> \in found'
      BY <1>1, <1>5, <1>7, <2>1, <2>2, <2>6
    <3> QED
      BY <1>2, <2>3, <2>6, <3>1
  <2> QED
    BY <2>4, <2>5, <2>6
<1> QED
  BY <1>4, <1>9, <1>10, <1>11 DEF PInv

LEMMA ReadPresencePush ==
    ASSUME PInv, NEW z \in found, ReadPresence(z)
    PROVE  PInv'
<1> DEFINE Pick(torn) ==
        /\ fanout' = IF Member(z[1], torn) THEN fanout \cup {<<z[1], current, z[2]>>}
                                           ELSE fanout
        /\ blind' = IF torn THEN blind \cup {<<z[1], current>>} ELSE blind
<1>1. PICK torn \in PresenceTorn(z[1]) : Pick(torn)
  BY DEF ReadPresence
<1>2. /\ found' = found \ {z}
      /\ current' = IF found' = {} THEN NoMessage ELSE current
      /\ UNCHANGED <<queued, entries, posts, steady, had, been>>
  BY DEF ReadPresence
<1>3. PushTypes /\ Recorded /\ Reachable
  BY DEF PInv
<1>4. /\ TypeOK' /\ UNCHANGED files /\ Posted' = Posted
      /\ \A n \in Posted : SenderOf(n)' = SenderOf(n)
      /\ \A a \in Agents : Listed(a)' = Listed(a)
  BY LoopTypes DEF LoopStep
<1>5. /\ current \in Posted /\ current # NoMessage /\ current \in Pending
      /\ NoMessage \notin Posted /\ z[1] \in Agents /\ z[2] \in Webhooks
  BY <1>3, NoMessageAssumption DEF PushTypes, Posted, Messages, Pending
<1>6. current \in Live /\ Pending' \subseteq Pending /\ Live' \subseteq Live
  <2>1. current \in Live /\ Pending' \subseteq Pending
    BY <1>2, <1>5 DEF Pending, Live
  <2>2. \A y \in fanout' \cup entries' : y \in fanout \cup entries \/ y[2] = current
    BY <1>1, <1>2
  <2> QED
    BY <2>1, <2>2 DEF Live
<1>7. PushTypes'
  <2>1. fanout' \subseteq Deliveries
    BY <1>1, <1>3, <1>5 DEF PushTypes, Deliveries, Posted
  <2> QED
    BY <1>2, <1>3, <1>4, <1>5, <2>1 DEF PushTypes
<1>8. Recorded'
  <2>1. \A y \in fanout' : y \in had /\ <<y[1], y[2]>> \in been
    <3>1. <<z[1], current, z[2]>> \in had
      BY <1>3 DEF Recorded
    <3>2. Member(z[1], torn) => <<z[1], current>> \in been
      BY <1>3, <1>5, <1>6 DEF Recorded, Member
    <3> DEFINE q == <<z[1], current, z[2]>>
    <3>3. \A y \in fanout : y \in had /\ <<y[1], y[2]>> \in been
      BY <1>3 DEF Recorded
    <3>4. \A y \in fanout' : y \in fanout \/ (y = q /\ Member(z[1], torn))
      BY <1>1
    <3>5. <<q[1], q[2]>> = <<z[1], current>>
      OBVIOUS
    <3> QED
      BY <3>1, <3>2, <3>3, <3>4, <3>5
  <2>2. \A x \in found' : <<x[1], current', x[2]>> \in had
    BY <1>2, <1>3 DEF Recorded
  <2> QED
    BY <1>2, <1>3, <1>4, <1>6, <2>1, <2>2 DEF Recorded, files, docs
<1>9. Reachable'
  <2> SUFFICES ASSUME NEW x \in steady
               PROVE  /\ x[2] \in Pending' =>
                           /\ Listed(x[1])' /\ x[2][1] \in rooms'[x[1]]
                           /\ x[1] # SenderOf(x[2])'
                      /\ \/ x[2] \in queued' \/ x \in blind' \/ Told(x)'
                         \/ x[2] = current' /\ \E y \in found' : y[1] = x[1]
    BY <1>2 DEF Reachable
  <2>1. x = <<x[1], x[2]>> /\ x[1] \in Agents /\ x[2] \in Posted
    BY <1>3 DEF PushTypes
  <2>2. x[2] \in Pending => /\ Listed(x[1]) /\ x[2][1] \in rooms[x[1]]
                            /\ x[1] # SenderOf(x[2])
    BY <1>3 DEF Reachable
  <2>3. x[2] \in Pending' => /\ Listed(x[1])' /\ x[2][1] \in rooms'[x[1]]
                             /\ x[1] # SenderOf(x[2])'
    BY <1>4, <1>6, <2>1, <2>2 DEF files, docs
  <2>4. CASE x[2] \in queued \/ x \in blind
    BY <1>1, <1>2, <2>3, <2>4
  <2>5. CASE Told(x)
    <3>1. Told(x)'
      BY <1>1, <1>2, <2>5 DEF Told
    <3> QED
      BY <2>3, <3>1
  <2>6. ASSUME x[2] = current, NEW y \in found, y[1] = x[1]
        PROVE  \/ x \in blind' \/ Told(x)'
               \/ x[2] = current' /\ \E w \in found' : w[1] = x[1]
    <3>1. CASE y # z
      BY <1>2, <2>6, <3>1
    <3>2. CASE y = z /\ torn
      BY <1>1, <2>1, <2>6, <3>2
    <3>3. CASE y = z /\ ~torn
      <4>1. Member(z[1], torn)
        BY <1>5, <2>2, <2>6, <3>3 DEF Member
      <4>2. <<z[1], current, z[2]>> \in fanout'
        BY <1>1, <4>1
      <4>3. Told(x)'
        BY <2>1, <2>6, <3>3, <4>2 DEF Told
      <4> QED
        BY <4>3
    <3> QED
      BY <3>1, <3>2, <3>3
  <2> QED
    BY <1>3, <2>3, <2>4, <2>5, <2>6 DEF Reachable
<1> QED
  BY <1>4, <1>7, <1>8, <1>9 DEF PInv

\* Deliver, Retry and RetryLast: a delivery is posted, and stays an entry or goes.
LEMMA SendPush ==
    ASSUME PInv, NEW x \in fanout \cup entries, NEW h \in Webhooks,
           h = x[3] \/ h = hook[x[1]], LoopStep,
           posts' = posts \cup {<<x[1], x[2], h>>},
           fanout' \in {fanout, fanout \ {x}},
           entries' \in {entries, entries \ {x}, entries \cup {x}},
           UNCHANGED <<queued, current, found, history>>
    PROVE  PInv'
<1> DEFINE p == <<x[1], x[2], h>>
<1>1. PushTypes /\ Recorded /\ Reachable
  BY DEF PInv
<1>2. /\ TypeOK' /\ UNCHANGED files /\ Posted' = Posted
      /\ \A n \in Posted : SenderOf(n)' = SenderOf(n)
      /\ \A a \in Agents : Listed(a)' = Listed(a)
  BY LoopTypes
<1>3. /\ x = <<x[1], x[2], x[3]>> /\ x[1] \in Agents /\ x[2] \in Messages
      /\ x \in Deliveries /\ p \in Deliveries
  BY <1>1 DEF PushTypes, Deliveries
<1>4. x[2] \in Live /\ Pending' = Pending /\ Live' \subseteq Live
  BY DEF Pending, Live
<1>5. UNCHANGED <<steady, had, been, blind>>
  BY DEF history
<1>6. PushTypes'
  <2>1. fanout' \subseteq Deliveries /\ entries' \subseteq Deliveries
    BY <1>1, <1>3 DEF PushTypes
  <2>2. posts' \subseteq Deliveries
    BY <1>1, <1>3 DEF PushTypes
  <2> QED
    BY <1>1, <1>2, <1>5, <2>1, <2>2 DEF PushTypes
<1>7. Recorded'
  <2>1. p \in had
    BY <1>1, <1>3, <1>4 DEF Recorded
  <2>2. <<x[1], x[2]>> \in been
    BY <1>1 DEF Recorded
  <2>3. \A y \in fanout' \cup entries' \cup posts' : y \in had /\ <<y[1], y[2]>> \in been
    <3>1. \A y \in fanout \cup entries \cup posts : y \in had /\ <<y[1], y[2]>> \in been
      BY <1>1 DEF Recorded
    <3>2. \A y \in fanout' \cup entries' \cup posts' :
             y \in fanout \cup entries \cup posts \/ y = p
      OBVIOUS
    <3>3. <<p[1], p[2]>> = <<x[1], x[2]>>
      OBVIOUS
    <3> QED
      BY <2>1, <2>2, <3>1, <3>2, <3>3
  <2> QED
    BY <1>1, <1>2, <1>4, <1>5, <2>3 DEF Recorded, files, docs
<1>8. Reachable'
  <2>1. \A w : Told(w) => Told(w)'
    <3> SUFFICES ASSUME NEW w, NEW y \in fanout \cup entries \cup posts, <<y[1], y[2]>> = w
                 PROVE  Told(w)'
      BY DEF Told
    <3>1. CASE y = x
      <4>1. p \in posts' /\ <<p[1], p[2]>> = w
        BY <3>1
      <4> QED
        BY <4>1 DEF Told
    <3>2. CASE y # x
      BY <3>2 DEF Told
    <3> QED
      BY <3>1, <3>2
  <2>2. \A w \in steady : w[1] \in Agents /\ w[2] \in Posted
    BY <1>1 DEF PushTypes
  <2> QED
    BY <1>1, <1>2, <1>4, <1>5, <2>1, <2>2 DEF Reachable, files, docs
<1> QED
  BY <1>2, <1>6, <1>7, <1>8 DEF PInv

LEMMA LoopPush ==
    ASSUME PInv, LoopStep
    PROVE  PInv'
<1>1. ASSUME NEW m \in queued, ReadRegistry(m) PROVE PInv'
  BY <1>1, ReadRegistryPush
<1>2. ASSUME NEW x \in found, ReadPresence(x) PROVE PInv'
  BY <1>2, ReadPresencePush
<1>3. \A x \in fanout \cup entries :
         /\ x[1] \in Agents /\ x[3] \in Webhooks /\ x = <<x[1], x[2], x[3]>>
         /\ hook[x[1]] \in Webhooks
  BY DEF PInv, PushTypes, Deliveries, TypeOK, Webhooks
<1>4. ASSUME NEW x \in fanout, Deliver(x) PROVE PInv'
  <2>1. posts' = posts \cup {<<x[1], x[2], x[3]>>}
    BY <1>3, <1>4 DEF Deliver
  <2> QED
    BY <1>3, <1>4, <2>1, SendPush DEF Deliver
<1>5. ASSUME NEW x \in entries, Retry(x) \/ RetryLast(x) PROVE PInv'
  <2>1. PICK torn \in RegistryTorn(Loop) : posts' = posts \cup {<<x[1], x[2], Target(x, torn)>>}
    BY <1>5 DEF Retry, RetryLast, RetryPost
  <2>2. /\ Target(x, torn) \in Webhooks
        /\ Target(x, torn) = x[3] \/ Target(x, torn) = hook[x[1]]
    BY <1>3 DEF Target
  <2>3. /\ fanout' = fanout /\ entries' \in {entries, entries \ {x}}
        /\ UNCHANGED <<queued, current, found, history>>
    BY <1>5 DEF Retry, RetryLast
  <2> QED
    BY <2>1, <2>2, <2>3, SendPush
<1> QED
  BY <1>1, <1>2, <1>4, <1>5 DEF LoopStep

-----------------------------------------------------------------------------
(* The theorems.                                                           *)

LEMMA PushInvariance == PSpec => []PInv
<1>1. PInv /\ [PNext]_pvars => PInv'
  <2> SUFFICES ASSUME PInv, [PNext]_pvars
               PROVE  PInv'
    OBVIOUS
  <2>1. CASE UNCHANGED pvars
    <3> USE <2>1 DEF PInv, pvars, vars, files, docs, push, history
    <3>1. TypeOK' /\ Pending' = Pending /\ Live' = Live /\ Posted' = Posted
      BY DEF TypeOK, Pending, Live, Posted
    <3>2. \A a : Listed(a)' = Listed(a) /\ SenderOf(a)' = SenderOf(a) /\ Told(a)' = Told(a)
      BY DEF Listed, SenderOf, Told
    <3>3. PushTypes' /\ Recorded'
      BY <3>1 DEF PushTypes, Recorded
    <3>4. Reachable'
      BY <3>1, <3>2 DEF Reachable
    <3> QED
      BY <3>1, <3>3, <3>4
  <2>2. CASE PNext
    BY <2>2, ClientPush, LoopPush DEF PNext
  <2> QED
    BY <2>1, <2>2
<1> QED
  BY PushInit, <1>1, PTL DEF PSpec

\* Every agent that stays a member, registered and online from the post until its
\* dispatch is over is told, whatever the other clients and the loop do, unless a
\* read met a file that was being rewritten.
THEOREM MembersTold == PSpec => []EveryMemberTold
<1>1. PInv => EveryMemberTold
  <2> SUFFICES ASSUME PInv, NEW x \in steady \ blind, x[2] \notin Pending
               PROVE  Told(x)
    BY DEF EveryMemberTold, Told
  <2>1. x[2] \in Posted /\ NoMessage \notin Posted
    BY NoMessageAssumption DEF PInv, PushTypes, Posted, Messages
  <2>2. x[2] \notin queued /\ x[2] # current
    BY <2>1 DEF Pending
  <2> QED
    BY <2>2 DEF PInv, Reachable
<1> QED
  BY PushInvariance, <1>1, PTL

\* Every POST, retries included, goes to a webhook its agent was registered with,
\* and to an agent that was a member of the room, at some time since the post.
THEOREM OnlyRegistered == PSpec => []SentWhereRegistered
<1>1. PInv => SentWhereRegistered
  BY DEF PInv, Recorded, SentWhereRegistered
<1> QED
  BY PushInvariance, <1>1, PTL
=============================================================================
