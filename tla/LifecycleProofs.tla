---------------------------- MODULE LifecycleProofs ----------------------------
(***************************************************************************)
(* Theorems about Lifecycle, for any clients, rooms, agents and calls, and *)
(* any number of operations and crashes.                                   *)
(***************************************************************************)
EXTENDS Lifecycle, FiniteSetTheorems, TLAPS

\* Which operations a client may be in, by where it is.
Places ==
    \A c \in Clients :
        /\ pc[c] = "check" => Kind(c) \in {"join", "leave", "post"}
        /\ pc[c] = "lookup" => Kind(c) = "join"
        /\ pc[c] = "registry" => Kind(c) \in {"register", "heartbeat", "join"}
        /\ pc[c] = "reset" => Kind(c) \in {"register", "join"}
        /\ pc[c] = "presence" => Kind(c) \in {"heartbeat", "join", "leave"}
        /\ pc[c] = "append" => Kind(c) \notin {"register", "heartbeat"}

\* A room is in the index, and an agent in the registry, unless a crash cut off
\* the file.
RoomKnown(r)  == index[r] # "none" \/ cuts["index"] > 0
AgentKnown(a) == registry[a] # "none" \/ cuts["registry"] > 0

\* Who joins has seen the room, and then its agent in the registry.
JoinsKnown ==
    \A c \in Clients : Kind(c) = "join" =>
        /\ pc[c] \in {"lookup", "registry", "reset", "presence"} => RoomKnown(op[c].room)
        /\ pc[c] \in {"reset", "presence"} => AgentKnown(op[c].agent)

\* A room's creation or archiving is said in the log, about to be said by a client,
\* or open by the index, and all of it once; but for one time more when a crash
\* cut off the index, which opens it again.
Announcing(c, kind, r) == pc[c] = "append" /\ Kind(c) = kind /\ op[c].room = r

Announcers(r, k) == {c \in Clients : Announcing(c, k, r)}
Said(r, k) == Positions(r, {IF k = "create" THEN "created" ELSE "archived"})
IsOpen(r, k) == IF k = "create" THEN index[r] = "none" ELSE index[r] # "archived"
Open(r, k) == IF IsOpen(r, k) THEN 1 ELSE 0

Balanced ==
    \A r \in Rooms, k \in {"create", "archive"} :
        Cardinality(Said(r, k)) + Cardinality(Announcers(r, k)) + Open(r, k)
            <= 1 + cuts["index"]

\* A copy is made after the record of the archiving.
CopiesLater ==
    \A c \in Clients : pc[c] = "copy" => Positions(op[c].room, {"archived"}) # {}

\* Posts and joins that passed their check, and those after the i-th record.
InFlight(r) ==
    {c \in Clients : /\ op[c].room = r /\ Kind(c) \in {"post", "join"}
                     /\ pc[c] \in {"lookup", "registry", "reset", "presence", "append"}}
Late(r, i) == {j \in Positions(r, {"posted", "joined"}) : i < j}

LateOrInFlight ==
    cuts["index"] = 0 =>
        \A r \in Rooms : \A i \in Positions(r, {"archived"}) :
            Cardinality(Late(r, i)) + Cardinality(InFlight(r)) <= Cardinality(Clients) - 1

IInv ==
    /\ TypeOK /\ Places /\ JoinsKnown /\ MembersKnown /\ Balanced
    /\ CopiesLater /\ CopyHasMarker /\ LateOrInFlight

Act(c) == Begin(c) \/ Step(c) \/ Crash(c)

-----------------------------------------------------------------------------
LEMMA CallsOps == Calls \subseteq Ops
BY CallsAssumption DEF AllCalls

LEMMA InvInit == Init => IInv
<1> SUFFICES ASSUME Init PROVE IInv
  OBVIOUS
<1>1. \A c \in Clients : op[c] \in Ops /\ pc[c] = "idle"
  BY CallsAssumption, CallsOps DEF Init
<1>2. TypeOK
  BY <1>1, LimitsAssumption DEF Init, TypeOK, Documents
<1>3. \A T : \A r \in Rooms : Positions(r, T) = {}
  BY DEF Init, Positions
<1>4. Balanced
  <2> SUFFICES ASSUME NEW r \in Rooms, NEW k \in {"create", "archive"}
               PROVE  Cardinality(Said(r, k)) + Cardinality(Announcers(r, k)) + Open(r, k)
                          <= 1 + cuts["index"]
    BY DEF Balanced
  <2>1. Said(r, k) = {} /\ Announcers(r, k) = {}
    BY <1>1, <1>3 DEF Said, Announcers, Announcing
  <2>2. cuts["index"] = 0
    BY DEF Init, Documents
  <2> QED
    BY <2>1, <2>2, FS_EmptySet DEF Open
<1> QED
  BY <1>1, <1>2, <1>3, <1>4
     DEF Init, IInv, Places, JoinsKnown, MembersKnown, CopiesLater, CopyHasMarker,
         LateOrInFlight

LEMMA RecordType ==
    ASSUME TypeOK, NEW c \in Clients
    PROVE  RecordOf(c) \in Records
BY DEF TypeOK, RecordOf, Records, Ops, Kinds, Kind

\* Every step keeps the types.
LEMMA TypeStep ==
    ASSUME TypeOK, NEW c \in Clients, Act(c)
    PROVE  TypeOK'
<1> USE DEF TypeOK, Goto, files, docs
<1>1. CASE Begin(c)
  <2>1. PICK o \in Calls :
           /\ op' = [op EXCEPT ![c] = o]
           /\ Goto(c, CASE o.kind \in {"create", "archive"} -> "index"
                       [] o.kind \in {"register", "heartbeat"} -> "registry"
                       [] OTHER -> "check")
    BY <1>1 DEF Begin
  <2>2. op' \in [Clients -> Ops]
    BY <2>1, CallsOps
  <2>3. pc' \in [Clients -> {"idle", "index", "check", "lookup", "registry", "reset",
                             "presence", "append", "copy"}]
    BY <2>1
  <2> QED
    BY <1>1, <2>2, <2>3, LimitsAssumption DEF Begin
<1>2. CASE Refuse(c)
  BY <1>2 DEF Refuse
<1>3. CASE CreateIndex(c)
  BY <1>3 DEF CreateIndex
<1>4. CASE ArchiveIndex(c)
  BY <1>4 DEF ArchiveIndex
<1>5. CASE Check(c)
  BY <1>5 DEF Check
<1>6. CASE Lookup(c)
  BY <1>6 DEF Lookup
<1>7. CASE Register(c)
  BY <1>7 DEF Register, Ops, Kind
<1>8. CASE Reset(c)
  BY <1>8 DEF Reset, Ops
<1>9. CASE Heartbeat(c)
  <2>1. op[c].agent \in Agents /\ op[c].status \in {"online", "unhealthy"}
    BY DEF Ops
  <2>2. /\ registry[op[c].agent] # "none"
        /\ registry' = [registry EXCEPT ![op[c].agent] = op[c].status]
    BY <1>9 DEF Heartbeat, Unknown
  <2>3. registry' \in [Agents -> {"none", "online", "unhealthy"}]
    BY <2>1, <2>2
  <2>4. \A a \in Agents : hook'[a] # NoHook => registry'[a] # "none"
    BY <1>9, <2>1, <2>2 DEF Heartbeat
  <2> QED
    BY <1>9, <2>3, <2>4 DEF Heartbeat
<1>10. CASE SavePresence(c)
  BY <1>10 DEF SavePresence, Ops
<1>11. CASE AppendRecord(c)
  <2>1. op[c].room \in Rooms
    BY DEF Ops
  <2>2. log' \in [Rooms -> Seq(Records)]
    BY <1>11, <2>1, RecordType DEF AppendRecord
  <2>3. \A r \in Rooms : copy[r] <= Len(log'[r])
    BY <1>11, <2>1, RecordType DEF AppendRecord
  <2> QED
    BY <1>11, <2>2, <2>3 DEF AppendRecord
<1>12. CASE Reject(c)
  BY <1>12 DEF Reject
<1>13. CASE Compress(c)
  BY <1>13 DEF Compress, Ops
<1>14. CASE Crash(c)
  <2>1. /\ UNCHANGED <<log, op, started>> /\ crashes' = crashes + 1
        /\ crashes < MaxCrashes /\ Goto(c, "idle")
        /\ \/ UNCHANGED <<docs, copy>>
           \/ CutIndex /\ UNCHANGED copy
           \/ CutRegistry /\ UNCHANGED copy
           \/ CutPresence(op[c].agent) /\ UNCHANGED copy
           \/ CutCopy(op[c].room) /\ UNCHANGED docs
    BY <1>14 DEF Crash
  <2>2. pc' \in [Clients -> {"idle", "index", "check", "lookup", "registry", "reset",
                             "presence", "append", "copy"}]
        /\ crashes' \in 0..MaxCrashes
    BY <2>1, LimitsAssumption
  <2>3. op[c].room \in Rooms /\ op[c].agent \in Agents
    BY DEF Ops
  <2>4. CASE UNCHANGED <<docs, copy>>
    BY <2>1, <2>2, <2>4
  <2>5. CASE CutIndex /\ UNCHANGED copy
    BY <2>1, <2>2, <2>5 DEF CutIndex, CutOff, Documents
  <2>6. CASE CutRegistry /\ UNCHANGED copy
    BY <2>1, <2>2, <2>6 DEF CutRegistry, CutOff, Documents
  <2>7. CASE CutPresence(op[c].agent) /\ UNCHANGED copy
    BY <2>1, <2>2, <2>3, <2>7 DEF CutPresence
  <2>8. CASE CutCopy(op[c].room) /\ UNCHANGED docs
    <3>1. PICK n \in 1..(Len(log[op[c].room]) - 1) :
                 copy' = [copy EXCEPT ![op[c].room] = n]
      BY <2>8 DEF CutCopy
    <3>2. Len(log[op[c].room]) \in Nat /\ n \in Nat /\ n <= Len(log[op[c].room])
      BY <2>3
    <3>3. copy' \in [Rooms -> Nat] /\ \A r \in Rooms : copy'[r] <= Len(log[r])
      BY <2>3, <3>1, <3>2
    <3> QED
      BY <2>1, <2>2, <2>8, <3>3
  <2> QED
    BY <2>1, <2>4, <2>5, <2>6, <2>7, <2>8
<1>15. CASE RefuseAgent(c)
  BY <1>15 DEF RefuseAgent
<1> QED
  BY <1>1, <1>2, <1>3, <1>4, <1>5, <1>6, <1>7, <1>8, <1>9, <1>10, <1>11, <1>12,
     <1>13, <1>14, <1>15 DEF Act, Step

\* What a step of one client leaves alone: the other clients; its own operation,
\* unless it begins one; and what rooms and agents there are, unless it crashes in
\* a change of the file.
LEMMA Frame ==
    ASSUME TypeOK, NEW c \in Clients, Act(c)
    PROVE  /\ \A d \in Clients \ {c} : pc'[d] = pc[d] /\ op'[d] = op[d]
           /\ Begin(c) \/ op' = op
           /\ AppendRecord(c) \/ log' = log
           /\ \/ cuts'["index"] = cuts["index"]
              \/ cuts'["index"] = cuts["index"] + 1 /\ Crash(c)
           /\ \/ cuts'["registry"] = cuts["registry"]
              \/ cuts'["registry"] = cuts["registry"] + 1 /\ Crash(c)
           /\ cuts'["index"] = cuts["index"] =>
                 \A r \in Rooms : /\ index[r] # "none" => index'[r] # "none"
                                  /\ index[r] = "archived" => index'[r] = "archived"
           /\ cuts'["registry"] = cuts["registry"] =>
                 \A a \in Agents : registry[a] # "none" => registry'[a] # "none"
           /\ cuts["index"] \in Nat /\ cuts["registry"] \in Nat
<1> USE DEF TypeOK, Goto, files, docs
<1>0. op[c] \in Ops /\ op[c].room \in Rooms /\ op[c].agent \in Agents
  BY DEF Ops
<1>a. cuts["index"] \in Nat /\ cuts["registry"] \in Nat
  BY DEF Documents
<1>1. CASE Begin(c)
  BY <1>a, <1>1 DEF Begin
<1>2. CASE Refuse(c) \/ RefuseAgent(c) \/ Check(c) \/ Lookup(c) \/ Reject(c)
  BY <1>a, <1>2 DEF Refuse, RefuseAgent, Check, Lookup, Reject
<1>3. CASE CreateIndex(c)
  BY <1>0, <1>a, <1>3 DEF CreateIndex, Refused
<1>4. CASE ArchiveIndex(c)
  BY <1>0, <1>a, <1>4 DEF ArchiveIndex
<1>5. CASE Register(c)
  BY <1>0, <1>a, <1>5 DEF Register
<1>6. CASE Heartbeat(c)
  <2>1. op[c].status # "none"
    BY <1>0 DEF Ops
  <2>2. registry' = [registry EXCEPT ![op[c].agent] = op[c].status]
    BY <1>6 DEF Heartbeat
  <2>3. \A a \in Agents : registry[a] # "none" => registry'[a] # "none"
    BY <1>0, <2>1, <2>2
  <2> QED
    BY <1>6, <1>a, <2>3 DEF Heartbeat
<1>7. CASE Reset(c) \/ SavePresence(c) \/ AppendRecord(c) \/ Compress(c)
  BY <1>7, <1>a DEF Reset, SavePresence, AppendRecord, Compress
<1>8. CASE Crash(c)
  <2>1. /\ UNCHANGED <<log, op>> /\ Goto(c, "idle")
        /\ \/ UNCHANGED docs
           \/ CutIndex
           \/ CutRegistry
           \/ CutPresence(op[c].agent)
    BY <1>8 DEF Crash
  <2>2. CASE UNCHANGED docs \/ CutPresence(op[c].agent)
    BY <1>a, <2>1, <2>2 DEF CutPresence
  <2>3. CASE CutIndex
    <3>1. /\ cuts'["index"] = cuts["index"] + 1 /\ cuts'["registry"] = cuts["registry"]
          /\ registry' = registry
      BY <2>3 DEF CutIndex, CutOff, Documents
    <3> QED
      BY <1>8, <1>a, <2>1, <3>1
  <2>4. CASE CutRegistry
    <3>1. /\ cuts'["registry"] = cuts["registry"] + 1 /\ cuts'["index"] = cuts["index"]
          /\ index' = index
      BY <2>4 DEF CutRegistry, CutOff, Documents
    <3> QED
      BY <1>8, <1>a, <2>1, <3>1
  <2> QED
    BY <2>1, <2>2, <2>3, <2>4
<1> QED
  BY <1>1, <1>2, <1>3, <1>4, <1>5, <1>6, <1>7, <1>8 DEF Act, Step

\* So what is known stays so.
LEMMA KnownStep ==
    ASSUME TypeOK, NEW c \in Clients, Act(c)
    PROVE  /\ \A r \in Rooms : RoomKnown(r) =>
                 index'[r] # "none" \/ cuts'["index"] > 0
           /\ \A a \in Agents : AgentKnown(a) =>
                 registry'[a] # "none" \/ cuts'["registry"] > 0
BY Frame DEF RoomKnown, AgentKnown

-----------------------------------------------------------------------------
(* Where clients are, and the members of rooms.                            *)

LEMMA PlacesStep ==
    ASSUME TypeOK, Places, NEW c \in Clients, Act(c)
    PROVE  Places'
<1> DEFINE P(k, l) == /\ l = "check" => k \in {"join", "leave", "post"}
                      /\ l = "lookup" => k = "join"
                      /\ l = "registry" => k \in {"register", "heartbeat", "join"}
                      /\ l = "reset" => k \in {"register", "join"}
                      /\ l = "presence" => k \in {"heartbeat", "join", "leave"}
                      /\ l = "append" => k \notin {"register", "heartbeat"}
<1>1. Places <=> \A d \in Clients : P(op[d].kind, pc[d])
  BY DEF Places, Kind
<1>2. Places' <=> \A d \in Clients : P(op'[d].kind, pc'[d])
  BY DEF Places, Kind
<1>3. P(op'[c].kind, pc'[c])
  <2> USE DEF TypeOK, Goto
  <2>1. CASE Begin(c)
    <3>1. PICK o \in Calls :
             /\ op' = [op EXCEPT ![c] = o]
             /\ Goto(c, CASE o.kind \in {"create", "archive"} -> "index"
                         [] o.kind \in {"register", "heartbeat"} -> "registry"
                         [] OTHER -> "check")
      BY <2>1 DEF Begin
    <3>2. o.kind \in Kinds
      BY CallsOps DEF Ops
    <3>3. op'[c].kind = o.kind
      BY <3>1
    <3>4. CASE o.kind \in {"create", "archive"}
      BY <3>1, <3>3, <3>4
    <3>5. CASE o.kind \in {"register", "heartbeat"}
      BY <3>1, <3>3, <3>5
    <3>6. CASE o.kind \in {"join", "leave", "post"}
      BY <3>1, <3>3, <3>6
    <3> QED
      BY <3>2, <3>4, <3>5, <3>6 DEF Kinds
  <2>2. CASE ~Begin(c)
    <3> HIDE DEF P
    <3>1. op'[c].kind = op[c].kind /\ P(op[c].kind, pc[c])
      BY <1>1, <2>2, Frame
    <3> USE DEF P
    <3>2. CASE Check(c)
      BY <3>1, <3>2 DEF Check, Kind
    <3>3. CASE Lookup(c)
      BY <3>1, <3>3 DEF Lookup, Kind
    <3>4. CASE Register(c)
      BY <3>1, <3>4 DEF Register, Kind
    <3>5. CASE Reset(c)
      BY <3>1, <3>5 DEF Reset, Kind
    <3>6. CASE Heartbeat(c)
      BY <3>1, <3>6 DEF Heartbeat, Kind
    <3>7. CASE CreateIndex(c) \/ ArchiveIndex(c) \/ SavePresence(c)
      BY <3>1, <3>7 DEF CreateIndex, ArchiveIndex, SavePresence, Kind
    <3>8. CASE \/ Refuse(c) \/ RefuseAgent(c) \/ AppendRecord(c) \/ Reject(c)
               \/ Compress(c) \/ Crash(c)
      <4>1. pc'[c] \in {"idle", "copy"}
        BY <3>8 DEF Refuse, RefuseAgent, AppendRecord, Reject, Compress, Crash
      <4> QED
        BY <4>1
    <3> QED
      BY <2>2, <3>2, <3>3, <3>4, <3>5, <3>6, <3>7, <3>8 DEF Act, Step
  <2> QED
    BY <2>1, <2>2
<1> HIDE DEF P
<1>4. ASSUME NEW d \in Clients \ {c}
      PROVE  P(op'[d].kind, pc'[d])
  BY <1>1, Frame
<1> QED
  BY <1>2, <1>3, <1>4

LEMMA JoinsStep ==
    ASSUME TypeOK, Places, JoinsKnown, MembersKnown, NEW c \in Clients, Act(c)
    PROVE  JoinsKnown' /\ MembersKnown'
<1> USE DEF TypeOK, Goto, files, docs
<1> DEFINE InIndex(r) == index'[r] # "none" \/ cuts'["index"] > 0
           InRegistry(a) == registry'[a] # "none" \/ cuts'["registry"] > 0
<1>0. op[c].room \in Rooms /\ op[c].agent \in Agents
  BY DEF Ops
<1>a. /\ \A r \in Rooms : RoomKnown(r) => InIndex(r)
      /\ \A a \in Agents : AgentKnown(a) => InRegistry(a)
  BY KnownStep
<1> HIDE DEF InIndex, InRegistry
<1>1. ASSUME NEW d \in Clients, d # c, Kind(d)' = "join"
      PROVE  /\ pc'[d] \in {"lookup", "registry", "reset", "presence"} => InIndex(op'[d].room)
             /\ pc'[d] \in {"reset", "presence"} => InRegistry(op'[d].agent)
  <2>1. pc'[d] = pc[d] /\ op'[d] = op[d] /\ Kind(d) = "join"
    BY <1>1, Frame DEF Kind
  <2>2. op[d].room \in Rooms /\ op[d].agent \in Agents
    BY DEF Ops
  <2> QED
    BY <1>a, <2>1, <2>2 DEF JoinsKnown
<1>2. ASSUME Kind(c)' = "join"
      PROVE  /\ pc'[c] \in {"lookup", "registry", "reset", "presence"} => InIndex(op'[c].room)
             /\ pc'[c] \in {"reset", "presence"} => InRegistry(op'[c].agent)
  <2>1. CASE Begin(c)
    BY <1>2, <2>1 DEF Begin, Kind
  <2>2. CASE Check(c)
    <3>1. /\ op' = op /\ Kind(c) = "join" /\ pc'[c] \in {"lookup", "idle"}
          /\ pc'[c] = "lookup" => index[op[c].room] = "active"
      BY <1>2, <2>2 DEF Check, Kind, Allowed
    <3> QED
      BY <1>0, <1>a, <3>1 DEF RoomKnown
  <2>3. CASE Lookup(c)
    <3>1. RoomKnown(op[c].room) /\ op' = op /\ Kind(c) = "join"
      BY <1>2, <2>3 DEF Lookup, Kind, JoinsKnown
    <3>2. pc'[c] \in {"reset", "presence"} => registry[op[c].agent] # "none"
      BY <2>3 DEF Lookup
    <3> QED
      BY <1>0, <1>a, <3>1, <3>2 DEF AgentKnown
  <2>4. CASE Register(c)
    <3>1. RoomKnown(op[c].room) /\ op' = op
      BY <1>2, <2>4 DEF Register, Kind, JoinsKnown
    <3>2. InRegistry(op[c].agent)
      BY <1>0, <2>4 DEF Register, InRegistry
    <3> QED
      BY <1>0, <1>a, <3>1, <3>2
  <2>5. CASE Reset(c)
    <3>1. RoomKnown(op[c].room) /\ AgentKnown(op[c].agent) /\ op' = op
      BY <1>2, <2>5 DEF Reset, Kind, JoinsKnown
    <3> QED
      BY <1>0, <1>a, <3>1
  <2>6. CASE Heartbeat(c)
    BY <1>2, <2>6 DEF Heartbeat, Kind
  <2>7. CASE \/ Refuse(c) \/ RefuseAgent(c) \/ CreateIndex(c) \/ ArchiveIndex(c)
             \/ SavePresence(c) \/ AppendRecord(c) \/ Reject(c) \/ Compress(c) \/ Crash(c)
    <3>1. pc'[c] \notin {"lookup", "registry", "reset", "presence"}
      BY <2>7 DEF Refuse, RefuseAgent, CreateIndex, ArchiveIndex, SavePresence, AppendRecord,
                  Reject, Compress, Crash
    <3> QED
      BY <3>1
  <2> QED
    BY <2>1, <2>2, <2>3, <2>4, <2>5, <2>6, <2>7 DEF Act, Step
<1>3. JoinsKnown'
  BY <1>1, <1>2 DEF JoinsKnown, RoomKnown, AgentKnown, InIndex, InRegistry
<1>4. ASSUME NEW a \in Agents, NEW r \in rooms'[a], r \notin rooms[a]
      PROVE  AgentKnown(a) /\ RoomKnown(r)
  <2>1. SavePresence(c) /\ Kind(c) = "join" /\ a = op[c].agent /\ r = op[c].room
    <3>1. CASE Reset(c)
      BY <1>0, <1>4, <3>1 DEF Reset
    <3>2. CASE SavePresence(c)
      BY <1>0, <1>4, <3>2 DEF SavePresence
    <3>3. CASE Crash(c)
      <4>1. UNCHANGED rooms \/ rooms' = [rooms EXCEPT ![op[c].agent] = {}]
        BY <3>3 DEF Crash, CutIndex, CutRegistry, CutPresence
      <4> QED
        BY <1>0, <1>4, <4>1
    <3>4. CASE ~Reset(c) /\ ~SavePresence(c) /\ ~Crash(c)
      <4>1. UNCHANGED rooms
        BY <3>4 DEF Act, Step, Begin, Refuse, CreateIndex, ArchiveIndex, Check, Lookup,
                    RefuseAgent, Register, Heartbeat, AppendRecord, Reject, Compress
      <4> QED
        BY <1>4, <4>1
    <3> QED
      BY <3>1, <3>2, <3>3, <3>4
  <2> QED
    BY <2>1 DEF SavePresence, JoinsKnown
<1>5. MembersKnown'
  <2> SUFFICES ASSUME NEW a \in Agents, NEW r \in rooms'[a]
               PROVE  InRegistry(a) /\ InIndex(r)
    BY DEF MembersKnown, InRegistry, InIndex
  <2>1. r \in Rooms
    BY TypeStep
  <2>2. AgentKnown(a) /\ RoomKnown(r)
    BY <1>4 DEF MembersKnown, AgentKnown, RoomKnown
  <2> QED
    BY <1>a, <2>1, <2>2
<1> QED
  BY <1>3, <1>5

-----------------------------------------------------------------------------
(* Announcements.                                                          *)

\* A step adds at most the place after the last.
LEMMA PositionsStep ==
    ASSUME TypeOK, NEW c \in Clients, Act(c), NEW r \in Rooms, NEW T
    PROVE  /\ Positions(r, T) \subseteq 1..Len(log[r]) /\ Len(log[r]) \in Nat
           /\ Positions(r, T)' =
                  IF AppendRecord(c) /\ op[c].room = r /\ RecordOf(c).type \in T
                  THEN Positions(r, T) \cup {Len(log[r]) + 1} ELSE Positions(r, T)
<1>1. log[r] \in Seq(Records) /\ Len(log[r]) \in Nat
  BY DEF TypeOK
<1>2. CASE AppendRecord(c) /\ op[c].room = r
  <2>1. log'[r] = Append(log[r], RecordOf(c))
    BY <1>2 DEF AppendRecord, TypeOK
  <2>2. /\ Len(log'[r]) = Len(log[r]) + 1
        /\ \A i \in 1..Len(log[r]) : log'[r][i] = log[r][i]
        /\ log'[r][Len(log[r]) + 1] = RecordOf(c)
    BY <1>1, <2>1, RecordType
  <2>3. 1..Len(log'[r]) = 1..Len(log[r]) \cup {Len(log[r]) + 1}
    BY <1>1, <2>2
  <2> QED
    BY <1>1, <1>2, <2>2, <2>3 DEF Positions
<1>3. CASE ~(AppendRecord(c) /\ op[c].room = r)
  <2>1. log'[r] = log[r]
    BY <1>3, Frame DEF AppendRecord, TypeOK
  <2> QED
    BY <1>1, <1>3, <2>1 DEF Positions
<1> QED
  BY <1>2, <1>3

\* What create_room and archive_room have to announce, they announce as such.
LEMMA RecordKind ==
    ASSUME TypeOK, NEW c \in Clients
    PROVE  /\ RecordOf(c).type = "created" <=> Kind(c) = "create"
           /\ RecordOf(c).type = "archived" <=> Kind(c) = "archive"
           /\ RecordOf(c).type \in {"posted", "joined"} <=>
                  Kind(c) \notin {"create", "archive", "leave"}
BY DEF TypeOK, RecordOf, Kind, Ops, Kinds

\* Only a change of the index makes a client announce it.
LEMMA AnnouncersStep ==
    ASSUME TypeOK, Places, NEW c \in Clients, Act(c), NEW d \in Clients,
           NEW r \in Rooms, NEW k \in {"create", "archive"}, Announcing(d, k, r)'
    PROVE  \/ Announcing(d, k, r) /\ ~(d = c /\ AppendRecord(c))
           \/ /\ d = c /\ op[c].room = r
              /\ \/ k = "create" /\ CreateIndex(c)
                 \/ k = "archive" /\ ArchiveIndex(c) /\ index[r] # "archived"
<1> USE DEF TypeOK, Goto
<1>1. CASE d # c
  BY <1>1, Frame DEF Announcing, Kind
<1>2. CASE d = c
  <2>1. pc'[c] = "append" /\ op'[c].kind = k /\ op'[c].room = r
    BY <1>2 DEF Announcing, Kind
  <2>2. ~Begin(c)
    BY <2>1 DEF Begin
  <2>3. Kind(c) = k /\ op[c].room = r
    BY <2>1, <2>2, Frame DEF Kind
  <2>4. ~(\/ Refuse(c) \/ RefuseAgent(c) \/ Lookup(c) \/ Register(c) \/ Reset(c) \/ Heartbeat(c)
          \/ AppendRecord(c) \/ Reject(c) \/ Compress(c) \/ Crash(c))
    BY <2>1 DEF Refuse, RefuseAgent, Lookup, Register, Reset, Heartbeat, AppendRecord,
                Reject, Compress, Crash
  <2>5. ~Check(c) /\ ~SavePresence(c)
    BY <2>3 DEF Check, SavePresence, Places
  <2>6. CreateIndex(c) => k = "create"
    BY <2>3 DEF CreateIndex
  <2>7. ArchiveIndex(c) => k = "archive" /\ index[r] # "archived"
    BY <2>1, <2>3 DEF ArchiveIndex
  <2> QED
    BY <1>2, <2>2, <2>3, <2>4, <2>5, <2>6, <2>7 DEF Act, Step
<1> QED
  BY <1>1, <1>2

LEMMA FiniteTurns ==
    ASSUME TypeOK, NEW r \in Rooms, NEW k
    PROVE  /\ IsFiniteSet(Said(r, k)) /\ Cardinality(Said(r, k)) \in Nat
           /\ IsFiniteSet(Announcers(r, k)) /\ Cardinality(Announcers(r, k)) \in Nat
           /\ Open(r, k) \in Nat /\ cuts["index"] \in Nat
<1>1. Said(r, k) \subseteq 1..Len(log[r]) /\ Len(log[r]) \in Nat
  BY DEF Said, Positions, TypeOK
<1>2. IsFiniteSet(1..Len(log[r]))
  BY <1>1, FS_Interval
<1>3. Announcers(r, k) \subseteq Clients
  BY DEF Announcers
<1>4. IsFiniteSet(Said(r, k)) /\ IsFiniteSet(Announcers(r, k))
  <2>1. IsFiniteSet(Said(r, k))
    BY <1>1, <1>2, FS_Subset
  <2>2. IsFiniteSet(Announcers(r, k))
    BY <1>3, ClientsAssumption, FS_Subset
  <2> QED
    BY <2>1, <2>2
<1>5. Open(r, k) \in Nat /\ cuts["index"] \in Nat
  BY DEF Open, TypeOK, Documents
<1> QED
  BY <1>4, <1>5, FS_CardinalityType

\* Only a crash in a change of the index opens what was not open.
LEMMA OpenStep ==
    ASSUME TypeOK, NEW c \in Clients, Act(c), NEW r \in Rooms, NEW k \in {"create", "archive"}
    PROVE  Open(r, k)' - cuts'["index"] <= Open(r, k) - cuts["index"]
<1>1. cuts["index"] \in Nat
  BY DEF TypeOK, Documents
<1>2. CASE cuts'["index"] = cuts["index"]
  <2>1. IsOpen(r, k)' => IsOpen(r, k)
    BY <1>2, Frame, TypeStep DEF IsOpen
  <2> QED
    BY <1>1, <1>2, <2>1 DEF Open
<1>3. CASE cuts'["index"] = cuts["index"] + 1
  BY <1>1, <1>3 DEF Open
<1> QED
  BY <1>2, <1>3, Frame

LEMMA BalancedStep ==
    ASSUME TypeOK, Places, Balanced, NEW c \in Clients, Act(c)
    PROVE  Balanced'
<1> SUFFICES ASSUME NEW r \in Rooms, NEW k \in {"create", "archive"}
             PROVE  Cardinality(Said(r, k)') + Cardinality(Announcers(r, k)') + Open(r, k)'
                        <= 1 + cuts'["index"]
  BY DEF Balanced
<1> DEFINE P == Said(r, k)
           Q == Said(r, k)'
           A == Announcers(r, k)
           B == Announcers(r, k)'
           Says  == AppendRecord(c) /\ op[c].room = r /\ Kind(c) = k
           Turns == /\ op[c].room = r
                    /\ \/ k = "create" /\ CreateIndex(c)
                       \/ k = "archive" /\ ArchiveIndex(c) /\ index[r] # "archived"
<1>0. TypeOK'
  BY TypeStep
<1>1. Cardinality(P) + Cardinality(A) + Open(r, k) <= 1 + cuts["index"]
  BY DEF Balanced
<1>2. /\ IsFiniteSet(P) /\ Cardinality(P) \in Nat /\ IsFiniteSet(A) /\ Cardinality(A) \in Nat
      /\ Open(r, k) \in Nat /\ cuts["index"] \in Nat
  BY FiniteTurns
<1>3. Open(r, k)' \in Nat /\ cuts'["index"] \in Nat
  BY <1>0 DEF Open, TypeOK, Documents
<1>4. /\ P \subseteq 1..Len(log[r]) /\ Len(log[r]) \in Nat
      /\ Q = IF Says THEN P \cup {Len(log[r]) + 1} ELSE P
  <2> DEFINE t == IF k = "create" THEN "created" ELSE "archived"
  <2>1. RecordOf(c).type = t <=> Kind(c) = k
    BY RecordKind
  <2>2. P = Positions(r, {t}) /\ Q = Positions(r, {t})'
    BY DEF Said
  <2> HIDE DEF t
  <2> QED
    BY <2>1, <2>2, PositionsStep
<1>5. \A d \in B : (d \in A /\ ~(d = c /\ AppendRecord(c))) \/ (d = c /\ Turns)
  BY AnnouncersStep DEF Announcers
<1>6. Open(r, k)' - cuts'["index"] <= Open(r, k) - cuts["index"]
  BY OpenStep
<1>7. CASE Says
  <2>1. c \in A
    BY <1>7 DEF Announcers, Announcing, AppendRecord
  <2>2. ~Turns
    BY <1>7 DEF AppendRecord, CreateIndex, ArchiveIndex
  <2>3. B \subseteq A \ {c}
    BY <1>5, <1>7, <2>2
  <2>4. Len(log[r]) + 1 \notin P /\ Q = P \cup {Len(log[r]) + 1}
    BY <1>4, <1>7
  <2> HIDE DEF P, Q, A, B, Says, Turns
  <2>5. Cardinality(Q) = Cardinality(P) + 1
    BY <1>2, <2>4, FS_AddElement
  <2>6. IsFiniteSet(A \ {c}) /\ Cardinality(A \ {c}) = Cardinality(A) - 1
    BY <1>2, <2>1, FS_RemoveElement
  <2>7. IsFiniteSet(B) /\ Cardinality(B) <= Cardinality(A \ {c})
    BY <2>3, <2>6, FS_Subset
  <2>8. Cardinality(B) \in Nat
    BY <2>7, FS_CardinalityType
  <2>9. Cardinality(Q) + Cardinality(B) + Open(r, k)' <= 1 + cuts'["index"]
    BY <1>1, <1>2, <1>3, <1>6, <2>5, <2>6, <2>7, <2>8
  <2> QED
    BY <2>9 DEF Q, B
<1>8. CASE Turns
  <2>1. Q = P /\ B \subseteq A \cup {c}
    BY <1>4, <1>5, <1>8 DEF AppendRecord, CreateIndex, ArchiveIndex
  <2>2. /\ Open(r, k) = 1 /\ Open(r, k)' = 0 /\ cuts' = cuts
    BY <1>8 DEF Open, IsOpen, CreateIndex, ArchiveIndex, Refused, TypeOK
  <2> HIDE DEF P, Q, A, B, Says, Turns
  <2>3. IsFiniteSet(A \cup {c}) /\ Cardinality(A \cup {c}) <= Cardinality(A) + 1
    <3>1. IsFiniteSet(A \cup {c}) /\ Cardinality(A \cup {c}) =
             IF c \in A THEN Cardinality(A) ELSE Cardinality(A) + 1
      BY <1>2, FS_AddElement
    <3> QED
      BY <1>2, <3>1
  <2>4. IsFiniteSet(B) /\ Cardinality(B) <= Cardinality(A \cup {c})
    BY <2>1, <2>3, FS_Subset
  <2>5. Cardinality(B) \in Nat /\ Cardinality(A \cup {c}) \in Nat
    BY <2>3, <2>4, FS_CardinalityType
  <2>6. Cardinality(Q) + Cardinality(B) + Open(r, k)' <= 1 + cuts'["index"]
    BY <1>1, <1>2, <2>1, <2>2, <2>3, <2>4, <2>5
  <2> QED
    BY <2>6 DEF Q, B
<1>9. CASE ~Says /\ ~Turns
  <2>1. Q = P /\ B \subseteq A
    BY <1>4, <1>5, <1>9
  <2> HIDE DEF P, Q, A, B, Says, Turns
  <2>2. IsFiniteSet(B) /\ Cardinality(B) <= Cardinality(A)
    BY <1>2, <2>1, FS_Subset
  <2>3. Cardinality(B) \in Nat
    BY <2>2, FS_CardinalityType
  <2>4. Cardinality(Q) + Cardinality(B) + Open(r, k)' <= 1 + cuts'["index"]
    BY <1>1, <1>2, <1>3, <1>6, <2>1, <2>2, <2>3
  <2> QED
    BY <2>4 DEF Q, B
<1> QED
  BY <1>7, <1>8, <1>9

\* While no crash cuts off the index, who is announced as archived is archived.
LEMMA ArchivedStays ==
    ASSUME TypeOK, Balanced, cuts["index"] = 0, NEW r \in Rooms,
           NEW i \in Positions(r, {"archived"})
    PROVE  index[r] = "archived"
<1> DEFINE P == Said(r, "archive")
           A == Announcers(r, "archive")
<1>1. Cardinality(P) + Cardinality(A) + Open(r, "archive") <= 1
  BY DEF Balanced
<1>2. IsFiniteSet(P) /\ Cardinality(P) \in Nat /\ Cardinality(A) \in Nat
  BY FiniteTurns
<1>3. i \in P
  BY DEF Said
<1> HIDE DEF P, A
<1>4. Cardinality(P) # 0
  BY <1>2, <1>3, FS_EmptySet
<1>5. Open(r, "archive") \in {0, 1}
  BY DEF Open
<1>6. Open(r, "archive") = 0
  BY <1>1, <1>2, <1>4, <1>5
<1> QED
  BY <1>6 DEF Open, IsOpen

-----------------------------------------------------------------------------
(* Copies.                                                                 *)

LEMMA CopiesStep ==
    ASSUME TypeOK, CopiesLater, CopyHasMarker, NEW c \in Clients, Act(c)
    PROVE  CopiesLater' /\ CopyHasMarker'
<1>0. \A d \in Clients : op[d].room \in Rooms
  BY DEF TypeOK, Ops
<1>1. \A r \in Rooms : Positions(r, {"archived"}) \subseteq Positions(r, {"archived"})'
  BY PositionsStep
<1>2. ASSUME NEW d \in Clients, pc'[d] = "copy", NEW r \in Rooms, op'[d].room = r
      PROVE  Positions(r, {"archived"})' # {}
  <2>1. CASE pc[d] = "copy" /\ op'[d] = op[d]
    BY <1>1, <1>2, <2>1 DEF CopiesLater
  <2>2. CASE d = c /\ AppendRecord(c)
    <3>1. Kind(c) = "archive" /\ op[c].room = r
      BY <1>2, <2>2 DEF AppendRecord, Goto, TypeOK
    <3>2. Len(log[r]) + 1 \in Positions(r, {"archived"})'
      BY <2>2, <3>1, PositionsStep, RecordKind
    <3> QED
      BY <3>2
  <2>3. CASE d = c /\ ~AppendRecord(c)
    BY <1>2, <2>3 DEF Act, Step, Begin, Refuse, CreateIndex, ArchiveIndex, Check, Lookup,
         RefuseAgent, Register, Reset, Heartbeat, SavePresence, Reject, Compress, Crash,
         Goto, TypeOK
  <2>4. CASE d # c
    BY <1>2, <2>1, <2>4, Frame
  <2> QED
    BY <2>2, <2>3, <2>4
<1>3. CopiesLater'
  <2>1. \A d \in Clients : op'[d].room \in Rooms
    BY TypeStep DEF TypeOK, Ops
  <2> QED
    BY <1>2, <2>1 DEF CopiesLater
<1>4. ASSUME NEW r \in Rooms, copy'[r] > 0, crashes' = 0
      PROVE  \E i \in Positions(r, {"archived"})' : i <= copy'[r]
  <2>1. crashes = 0
    BY <1>4 DEF Act, Step, Begin, Refuse, CreateIndex, ArchiveIndex, Check, Lookup,
         RefuseAgent, Register, Reset, Heartbeat, SavePresence, AppendRecord, Reject,
         Compress, Crash, TypeOK
  <2>2. CASE copy'[r] = copy[r]
    <3>1. PICK i \in Positions(r, {"archived"}) : i <= copy[r]
      BY <1>4, <2>1, <2>2 DEF CopyHasMarker
    <3> QED
      BY <1>1, <2>2, <3>1
  <2>3. CASE copy'[r] # copy[r]
    <3>1. Compress(c)
      BY <1>4, <2>1, <2>3 DEF Act, Step, Begin, Refuse, CreateIndex, ArchiveIndex, Check,
           Lookup, RefuseAgent, Register, Reset, Heartbeat, SavePresence, AppendRecord,
           Reject, Crash, files, TypeOK
    <3>2. op[c].room = r /\ copy'[r] = Len(log[r]) /\ pc[c] = "copy"
      BY <1>0, <2>3, <3>1 DEF Compress, TypeOK
    <3>3. PICK i \in Positions(r, {"archived"}) : TRUE
      BY <3>2 DEF CopiesLater
    <3>4. i <= Len(log[r])
      BY <3>3, PositionsStep
    <3> QED
      BY <1>1, <3>2, <3>3, <3>4
  <2> QED
    BY <2>2, <2>3
<1>5. CopyHasMarker'
  BY <1>4 DEF CopyHasMarker
<1> QED
  BY <1>3, <1>5

-----------------------------------------------------------------------------
(* Posts after the archiving.                                              *)

LEMMA FlightsFinite ==
    ASSUME NEW r, NEW i, TypeOK, r \in Rooms
    PROVE  /\ IsFiniteSet(InFlight(r)) /\ Cardinality(InFlight(r)) \in Nat
           /\ IsFiniteSet(Late(r, i)) /\ Cardinality(Late(r, i)) \in Nat
           /\ Cardinality(Clients) \in Nat
<1>1. InFlight(r) \subseteq Clients
  BY DEF InFlight
<1>2. Late(r, i) \subseteq 1..Len(log[r]) /\ Len(log[r]) \in Nat
  BY DEF Late, Positions, TypeOK
<1>3. IsFiniteSet(1..Len(log[r]))
  BY <1>2, FS_Interval
<1> QED
  BY <1>1, <1>2, <1>3, ClientsAssumption, FS_Subset, FS_CardinalityType

\* Nobody passes the check of an archived room.
LEMMA NoNewFlights ==
    ASSUME TypeOK, Places, NEW c \in Clients, Act(c), NEW r \in Rooms,
           index[r] = "archived"
    PROVE  InFlight(r)' \subseteq InFlight(r) \ {d \in {c} : AppendRecord(c)}
<1> SUFFICES ASSUME NEW d \in InFlight(r)'
             PROVE  d \in InFlight(r) /\ (d = c => ~AppendRecord(c))
  OBVIOUS
<1>1. /\ d \in Clients /\ op'[d].room = r /\ op'[d].kind \in {"post", "join"}
      /\ pc'[d] \in {"lookup", "registry", "reset", "presence", "append"}
  BY DEF InFlight, Kind
<1>2. CASE d # c
  BY <1>1, <1>2, Frame DEF InFlight, Kind
<1>3. CASE d = c
  <2>1. ~Begin(c)
    <3> SUFFICES ASSUME Begin(c) PROVE FALSE
      OBVIOUS
    <3>1. PICK o \in Calls :
             /\ op' = [op EXCEPT ![c] = o]
             /\ Goto(c, CASE o.kind \in {"create", "archive"} -> "index"
                         [] o.kind \in {"register", "heartbeat"} -> "registry"
                         [] OTHER -> "check")
      BY DEF Begin
    <3>2. o.kind \in {"post", "join"}
      BY <1>1, <1>3, <3>1 DEF TypeOK
    <3>3. pc'[c] = "check"
      BY <3>1, <3>2 DEF Goto, TypeOK
    <3> QED
      BY <1>1, <1>3, <3>3
  <2>2. Kind(c) \in {"post", "join"} /\ op[c].room = r
    BY <1>1, <1>3, <2>1, Frame DEF Kind
  <2>3. ~Check(c)
    BY <1>1, <1>3, <2>2 DEF Check, Allowed, Goto, TypeOK
  <2>4. /\ ~(Refuse(c) \/ RefuseAgent(c) \/ AppendRecord(c) \/ Reject(c) \/ Compress(c))
        /\ ~(CreateIndex(c) \/ ArchiveIndex(c) \/ Crash(c))
    BY <1>1, <1>3, <2>2
       DEF Refuse, RefuseAgent, AppendRecord, Reject, Compress, Crash, CreateIndex, ArchiveIndex, Goto,
           TypeOK
  <2>5. Lookup(c) \/ Register(c) \/ Reset(c) \/ Heartbeat(c) \/ SavePresence(c)
    BY <2>1, <2>3, <2>4 DEF Act, Step
  <2>6. pc[c] \in {"lookup", "registry", "reset", "presence"}
    BY <2>5 DEF Lookup, Register, Reset, Heartbeat, SavePresence
  <2> QED
    BY <1>3, <2>2, <2>4, <2>6 DEF InFlight
<1> QED
  BY <1>2, <1>3

LEMMA LateStep ==
    ASSUME TypeOK, Places, Balanced, LateOrInFlight, NEW c \in Clients, Act(c)
    PROVE  LateOrInFlight'
<1> SUFFICES ASSUME cuts'["index"] = 0,
                    NEW r \in Rooms, NEW i \in Positions(r, {"archived"})'
             PROVE  Cardinality(Late(r, i)') + Cardinality(InFlight(r)')
                        <= Cardinality(Clients) - 1
  BY DEF LateOrInFlight
<1> DEFINE P == Positions(r, {"posted", "joined"})
<1>0. TypeOK' /\ cuts["index"] = 0
  BY TypeStep, Frame
<1>1. /\ IsFiniteSet(InFlight(r)) /\ Cardinality(InFlight(r)) \in Nat
      /\ IsFiniteSet(Late(r, i)) /\ Cardinality(Late(r, i)) \in Nat
      /\ Cardinality(Clients) \in Nat
  BY FlightsFinite
<1>2. P \subseteq 1..Len(log[r]) /\ Len(log[r]) \in Nat
  BY PositionsStep
<1>3. Late(r, i) = {j \in P : i < j} /\ Late(r, i)' = {j \in P' : i < j}
  BY DEF Late
<1>4. CASE i \notin Positions(r, {"archived"})
  <2>1. /\ AppendRecord(c) /\ op[c].room = r /\ Kind(c) = "archive"
        /\ i = Len(log[r]) + 1
    BY <1>4, PositionsStep, RecordKind
  <2>2. P' = P
    BY <2>1, PositionsStep, RecordKind
  <2>3. Late(r, i)' = {}
    BY <1>2, <1>3, <2>1, <2>2
  <2>4. InFlight(r)' \subseteq Clients \ {c}
    BY <2>1 DEF InFlight, AppendRecord, Goto, TypeOK
  <2>5. /\ IsFiniteSet(Clients \ {c})
        /\ Cardinality(Clients \ {c}) = Cardinality(Clients) - 1
    BY ClientsAssumption, FS_RemoveElement
  <2>6. IsFiniteSet(InFlight(r)') /\ Cardinality(InFlight(r)') <= Cardinality(Clients) - 1
    BY <2>4, <2>5, FS_Subset
  <2>7. Cardinality(InFlight(r)') \in Nat /\ Cardinality(Late(r, i)') = 0
    BY <2>3, <2>6, FS_CardinalityType, FS_EmptySet
  <2> QED
    BY <1>1, <2>6, <2>7
<1>5. CASE i \in Positions(r, {"archived"})
  <2>1. index[r] = "archived"
    BY <1>0, <1>5, ArchivedStays
  <2>2. Cardinality(Late(r, i)) + Cardinality(InFlight(r)) <= Cardinality(Clients) - 1
    BY <1>0, <1>5 DEF LateOrInFlight
  <2>3. CASE AppendRecord(c) /\ c \in InFlight(r)
    <3>1. InFlight(r)' \subseteq InFlight(r) \ {c}
      BY <2>1, <2>3, NoNewFlights
    <3>2. /\ IsFiniteSet(InFlight(r) \ {c})
          /\ Cardinality(InFlight(r) \ {c}) = Cardinality(InFlight(r)) - 1
      BY <1>1, <2>3, FS_RemoveElement
    <3>3. /\ Cardinality(InFlight(r)') <= Cardinality(InFlight(r)) - 1
          /\ Cardinality(InFlight(r)') \in Nat
      BY <3>1, <3>2, FS_Subset, FS_CardinalityType
    <3>4. Late(r, i)' \subseteq Late(r, i) \cup {Len(log[r]) + 1}
      <4>1. P' \subseteq P \cup {Len(log[r]) + 1}
        BY PositionsStep
      <4> QED
        BY <1>3, <4>1
    <3>5. /\ IsFiniteSet(Late(r, i) \cup {Len(log[r]) + 1})
          /\ Cardinality(Late(r, i) \cup {Len(log[r]) + 1}) <= Cardinality(Late(r, i)) + 1
      <4> DEFINE A == Late(r, i)
      <4>1. IsFiniteSet(A) /\ Cardinality(A) \in Nat
        BY <1>1
      <4> HIDE DEF A
      <4>2. /\ IsFiniteSet(A \cup {Len(log[r]) + 1})
            /\ Cardinality(A \cup {Len(log[r]) + 1}) =
                  IF Len(log[r]) + 1 \in A THEN Cardinality(A) ELSE Cardinality(A) + 1
        BY <4>1, FS_AddElement
      <4>3. Cardinality(A \cup {Len(log[r]) + 1}) <= Cardinality(A) + 1
        BY <4>1, <4>2
      <4> QED
        BY <4>2, <4>3 DEF A
    <3>6. /\ Cardinality(Late(r, i)') <= Cardinality(Late(r, i)) + 1
          /\ Cardinality(Late(r, i)') \in Nat
      <4>1. Cardinality(Late(r, i) \cup {Len(log[r]) + 1}) \in Nat
        BY <3>5, FS_CardinalityType
      <4>2. /\ IsFiniteSet(Late(r, i)')
            /\ Cardinality(Late(r, i)')
                  <= Cardinality(Late(r, i) \cup {Len(log[r]) + 1})
        BY <3>4, <3>5, FS_Subset
      <4>3. Cardinality(Late(r, i)') \in Nat
        BY <4>2, FS_CardinalityType
      <4> QED
        BY <1>1, <3>5, <4>1, <4>2, <4>3
    <3> QED
      BY <1>1, <2>2, <3>3, <3>6
  <2>4. CASE ~(AppendRecord(c) /\ c \in InFlight(r))
    <3>1. InFlight(r)' \subseteq InFlight(r)
      BY <2>1, NoNewFlights
    <3>2. /\ Cardinality(InFlight(r)') <= Cardinality(InFlight(r))
          /\ Cardinality(InFlight(r)') \in Nat
      BY <1>1, <3>1, FS_Subset, FS_CardinalityType
    <3>3. P' = P
      <4>1. ASSUME AppendRecord(c), op[c].room = r,
                   Kind(c) \notin {"create", "archive", "leave"}
            PROVE  FALSE
        <5>1. pc[c] = "append" /\ Kind(c) \in {"post", "join"}
          BY <4>1 DEF AppendRecord, Places, Kind, TypeOK, Ops, Kinds
        <5> QED
          BY <2>4, <4>1, <5>1 DEF InFlight
      <4> QED
        BY <4>1, PositionsStep, RecordKind
    <3>4. Late(r, i)' = Late(r, i)
      BY <1>3, <3>3
    <3> QED
      BY <1>1, <2>2, <3>2, <3>4
  <2> QED
    BY <2>3, <2>4
<1> QED
  BY <1>4, <1>5

-----------------------------------------------------------------------------
(* The invariant, and what follows from it.                                *)

LEMMA Invariance == Spec => []IInv
<1>1. IInv /\ [Next]_vars => IInv'
  <2> SUFFICES ASSUME IInv, [Next]_vars
               PROVE  IInv'
    OBVIOUS
  <2>1. CASE UNCHANGED vars
    <3> USE <2>1 DEF IInv, vars, files, docs, Kind
    <3>1. TypeOK' /\ Places' /\ JoinsKnown' /\ MembersKnown'
      BY DEF TypeOK, Places, JoinsKnown, MembersKnown, RoomKnown, AgentKnown
    <3>2. Balanced'
      <4>1. ASSUME NEW r \in Rooms, NEW k
            PROVE  /\ Said(r, k)' = Said(r, k) /\ Announcers(r, k)' = Announcers(r, k)
                   /\ Open(r, k)' = Open(r, k)
        BY DEF Said, Announcers, Announcing, Open, IsOpen, Positions
      <4> QED
        BY <4>1 DEF Balanced
    <3>3. CopiesLater' /\ CopyHasMarker'
      BY DEF CopiesLater, CopyHasMarker, Positions
    <3>4. \A r \in Rooms, i \in Nat : Late(r, i)' = Late(r, i) /\ InFlight(r)' = InFlight(r)
      BY DEF Late, InFlight, Positions
    <3>5. LateOrInFlight'
      <4>1. \A r \in Rooms :
               /\ Positions(r, {"archived"})' = Positions(r, {"archived"})
               /\ Positions(r, {"archived"}) \subseteq Nat
        BY DEF Positions, TypeOK
      <4> QED
        BY <3>4, <4>1 DEF LateOrInFlight
    <3> QED
      BY <3>1, <3>2, <3>3, <3>5
  <2>2. ASSUME NEW c \in Clients, Act(c)
        PROVE  IInv'
    BY <2>2, TypeStep, PlacesStep, JoinsStep, BalancedStep, CopiesStep,
       LateStep DEF IInv
  <2> QED
    BY <2>1, <2>2 DEF Next, Act
<1> QED
  BY InvInit, <1>1, PTL DEF Spec

\* Type correctness: a compressed copy never has more lines than the log, and
\* only agents of the registry have a webhook.
THEOREM TypeCorrect == Spec => []TypeOK
<1>1. IInv => TypeOK
  BY DEF IInv
<1> QED
  BY Invariance, <1>1, PTL

\* create_room and archive_room are announced once, and once more for each crash
\* that cut off the index, however many clients call them at once.
THEOREM Announced == Spec => []AnnouncedOnce
<1>1. ASSUME IInv, NEW r \in Rooms, NEW t \in {"created", "archived"}
      PROVE  Cardinality(Positions(r, {t})) <= 1 + cuts["index"]
  <2>1. PICK k \in {"create", "archive"} : Said(r, k) = Positions(r, {t})
    BY DEF Said
  <2>2. Cardinality(Said(r, k)) + Cardinality(Announcers(r, k)) + Open(r, k)
            <= 1 + cuts["index"]
    BY <1>1 DEF IInv, Balanced
  <2>3. /\ Cardinality(Said(r, k)) \in Nat /\ Cardinality(Announcers(r, k)) \in Nat
        /\ Open(r, k) \in Nat /\ cuts["index"] \in Nat
    BY <1>1, FiniteTurns DEF IInv
  <2> QED
    BY <2>1, <2>2, <2>3
<1>2. IInv => AnnouncedOnce
  BY <1>1 DEF AnnouncedOnce
<1> QED
  BY Invariance, <1>2, PTL

\* At most one post or join of each other client comes after the record of the
\* archiving, however many rooms and operations there are, and wherever clients
\* crash, but in a change of the index.
THEOREM LateBounded == Spec => []LatePostsBounded
<1>1. ASSUME IInv, cuts["index"] = 0, NEW r \in Rooms, NEW i \in Positions(r, {"archived"})
      PROVE  Cardinality(Late(r, i)) < Cardinality(Clients)
  <2>1. Cardinality(Late(r, i)) + Cardinality(InFlight(r)) <= Cardinality(Clients) - 1
    BY <1>1 DEF IInv, LateOrInFlight
  <2>2. /\ Cardinality(InFlight(r)) \in Nat /\ Cardinality(Late(r, i)) \in Nat
        /\ Cardinality(Clients) \in Nat
    BY <1>1, FlightsFinite DEF IInv
  <2> QED
    BY <2>1, <2>2
<1>2. IInv => LatePostsBounded
  BY <1>1 DEF LatePostsBounded, Late
<1> QED
  BY Invariance, <1>2, PTL

\* Members are registered, and their rooms exist, torn reads of the registry and
\* the index and exceptions half way included, until a crash cuts off the registry
\* or the index.
THEOREM Members == Spec => []MembersKnown
<1>1. IInv => MembersKnown
  BY DEF IInv
<1> QED
  BY Invariance, <1>1, PTL

\* Until a client crashes, the compressed copy holds the record of the archiving.
THEOREM Copies == Spec => []CopyHasMarker
<1>1. IInv => CopyHasMarker
  BY DEF IInv
<1> QED
  BY Invariance, <1>1, PTL
=============================================================================
