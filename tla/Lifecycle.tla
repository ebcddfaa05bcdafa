------------------------------ MODULE Lifecycle ------------------------------
(***************************************************************************)
(* Rooms and agents (agentroom/lifecycle.py): create_room, archive_room,   *)
(* register_agent, heartbeat, join_room, leave_room and the two posts.     *)
(*                                                                         *)
(* Clients are the threads of the HTTP server and the processes of the     *)
(* command line; they share only the files.  An operation is a sequence of *)
(* accesses: changes of index.json, registry.json or a presence file,      *)
(* reads of the first two, and appends to a room's log.  Nothing holds     *)
(* over two of them, and a client may crash at any point.                  *)
(*                                                                         *)
(* A change of a JSON file is one step here, and a read that meets another *)
(* client's change may return the default: JsonFile shows that this is     *)
(* what they amount to.  A crash in the change leaves the file empty, and  *)
(* the next change starts from the default, or, if the document is longer  *)
(* than Python's buffer, may leave a part of it: that reads as the default *)
(* too, but each change of it raises.  The index and the registry exist:   *)
(* that of two stores that are made at once one may still write the        *)
(* default is in JsonFile.  An append is one step; RoomLog has its parts.  *)
(* The get_room that ends create_room and archive_room and the read that   *)
(* ends _save_presence only make up the result and are left out.           *)
(***************************************************************************)
EXTENDS Integers, Sequences, FiniteSets

CONSTANTS
    Clients,      \* threads and processes, one operation at a time each
    Rooms,
    Agents,
    System,       \* the sender of create_room's and archive_room's records
    Hooks,        \* webhooks an agent may register
    NoHook,       \* or none
    Calls,        \* the operations that clients call
    TornReads,    \* may a read meet another client's change of the file?
    MaxOps,       \* bound: operations started
    MaxCrashes    \* bound: crashes of clients

ASSUME ClientsAssumption == IsFiniteSet(Clients) /\ Clients # {}
ASSUME SystemAssumption == System \notin Agents
ASSUME LimitsAssumption ==
    TornReads \in BOOLEAN /\ MaxOps \in Nat /\ MaxCrashes \in Nat

Kinds == {"create", "archive", "register", "heartbeat", "join", "leave", "post"}

Ops == [kind : Kinds, room : Rooms, agent : Agents, status : {"online", "unhealthy"},
        hook : Hooks \cup {NoHook}]

\* Only register has a webhook, and only heartbeat a status.
AllCalls ==
    {o \in Ops : /\ o.hook # NoHook => o.kind = "register"
                 /\ o.status # "online" => o.kind = "heartbeat"}

ASSUME CallsAssumption ==
    NoHook \notin Hooks /\ Calls # {} /\ Calls \subseteq AllCalls

VARIABLES
    index,       \* room -> its status in index.json, "none" if it has no entry
    log,         \* room -> its records, as [type, from]
    copy,        \* room -> lines of its compressed copy, 0 if there is none
    registry,    \* agent -> its status in registry.json, "none" if no entry
    hook,        \* agent -> the webhook in registry.json
    status,      \* agent -> the status in its presence file, or "none"
    rooms,       \* agent -> the rooms in its presence file
    pc,          \* client -> where it is in its operation
    broken,      \* of index.json and registry.json, those that do not parse
    garbled,     \* agents whose presence file does not parse
    op,          \* client -> its operation
    cuts,        \* how often a crash cut off index.json, and registry.json
    started, crashes

docs  == <<index, registry, hook, status, rooms, broken, garbled, cuts>>
files == <<docs, log, copy>>
vars  == <<files, pc, op, started, crashes>>

Documents == {"index", "registry"}

Records == [type : {"created", "archived", "joined", "left", "posted"},
            from : Agents \cup {System}]

Init ==
    /\ index = [r \in Rooms |-> "none"]
    /\ log = [r \in Rooms |-> <<>>] /\ copy = [r \in Rooms |-> 0]
    /\ registry = [a \in Agents |-> "none"] /\ hook = [a \in Agents |-> NoHook]
    /\ status = [a \in Agents |-> "none"] /\ rooms = [a \in Agents |-> {}]
    /\ broken = {} /\ garbled = {} /\ cuts = [f \in Documents |-> 0]
    /\ pc = [c \in Clients |-> "idle"]
    /\ op = [c \in Clients |-> CHOOSE o \in Calls : TRUE]
    /\ started = 0 /\ crashes = 0

Kind(c) == op[c].kind
Goto(c, l) == pc' = [pc EXCEPT ![c] = l]

\* A call is made.
Begin(c) ==
    /\ pc[c] = "idle" /\ started < MaxOps
    /\ started' = started + 1
    /\ \E o \in Calls :
          /\ op' = [op EXCEPT ![c] = o]
          /\ Goto(c, CASE o.kind \in {"create", "archive"} -> "index"
                       [] o.kind \in {"register", "heartbeat"} -> "registry"
                       [] OTHER -> "check")
    /\ UNCHANGED <<files, crashes>>

-----------------------------------------------------------------------------
(* Changes of index.json.                                                  *)

\* A file that does not parse cannot be changed.  create_room raises if there is
\* such a room (nothing sets the status "deleted"), archive_room if there is none.
Refused(c) ==
    \/ "index" \in broken
    \/ Kind(c) = "create" /\ index[op[c].room] # "none"
    \/ Kind(c) = "archive" /\ index[op[c].room] = "none"

Refuse(c) ==
    /\ pc[c] = "index" /\ Refused(c)
    /\ Goto(c, "idle")
    /\ UNCHANGED <<files, op, started, crashes>>

CreateIndex(c) ==
    /\ pc[c] = "index" /\ Kind(c) = "create" /\ ~Refused(c)
    /\ index' = [index EXCEPT ![op[c].room] = "active"]
    /\ Goto(c, "append")
    /\ UNCHANGED <<log, copy, registry, hook, status, rooms,
                   broken, garbled, cuts, op, started, crashes>>

\* Slips: a second archive_room announces it again, or nobody announces it.
ArchiveAgain(c) ==
    /\ pc[c] = "index" /\ Kind(c) = "archive" /\ ~Refused(c)
    /\ index' = [index EXCEPT ![op[c].room] = "archived"]
    /\ Goto(c, "append")
    /\ UNCHANGED <<log, copy, registry, hook, status, rooms,
                   broken, garbled, cuts, op, started, crashes>>
ArchiveUnsaid(c) ==
    /\ pc[c] = "index" /\ Kind(c) = "archive" /\ ~Refused(c)
    /\ index' = [index EXCEPT ![op[c].room] = "archived"]
    /\ Goto(c, IF index[op[c].room] = "archived" THEN "idle" ELSE "copy")
    /\ UNCHANGED <<log, copy, registry, hook, status, rooms,
                   broken, garbled, cuts, op, started, crashes>>

\* archive_room returns at once when the room already is archived.
ArchiveIndex(c) ==
    /\ pc[c] = "index" /\ Kind(c) = "archive" /\ ~Refused(c)
    /\ index' = [index EXCEPT ![op[c].room] = "archived"]
    /\ Goto(c, IF index[op[c].room] = "archived" THEN "idle" ELSE "append")
    /\ UNCHANGED <<log, copy, registry, hook, status, rooms,
                   broken, garbled, cuts, op, started, crashes>>

-----------------------------------------------------------------------------
(* Reads, with no lock.                                                    *)

\* A change of the registry raises if the file does not parse, and heartbeat if
\* the agent is not registered.
Unknown(c) ==
    \/ "registry" \in broken
    \/ Kind(c) = "heartbeat" /\ registry[op[c].agent] = "none"

\* What c may take index.json, or registry.json, to be: torn is TRUE when it
\* reads the file while another client rewrites it, and gets the default.
IndexTorn(c) ==
    {FALSE} \cup {TornReads /\ pc[d] = "index" /\ ~Refused(d) : d \in Clients \ {c}}
RegistryTorn(c) ==
    {FALSE} \cup {TornReads /\ pc[d] = "registry" /\ ~Unknown(d) : d \in Clients \ {c}}

\* Slip: any room there is will do.
AllowedIfExists(c, seen) == seen # "none"

\* _assert_room_exists for leave_room, _assert_room_active for the others.
Allowed(c, seen) == IF Kind(c) = "leave" THEN seen # "none" ELSE seen = "active"

Check(c) ==
    /\ pc[c] = "check"
    /\ \E torn \in IndexTorn(c) :
          IF Allowed(c, IF torn THEN "none" ELSE index[op[c].room])
          THEN Goto(c, CASE Kind(c) = "join" -> "lookup"
                         [] Kind(c) = "leave" -> "presence"
                         [] OTHER -> "append")
          ELSE Goto(c, "idle")
    /\ UNCHANGED <<files, op, started, crashes>>

\* Slip: the agent is not registered on the way.
LookupOnly(c) ==
    /\ pc[c] = "lookup"
    /\ Goto(c, "presence")
    /\ UNCHANGED <<files, op, started, crashes>>

\* join_room looks for the agent in the registry, and registers it if need be.
Lookup(c) ==
    /\ pc[c] = "lookup"
    /\ \E torn \in RegistryTorn(c) :
          Goto(c, IF registry[op[c].agent] = "none" \/ torn
                  THEN "registry" ELSE "presence")
    /\ UNCHANGED <<files, op, started, crashes>>

-----------------------------------------------------------------------------
(* Changes of registry.json and of the presence files.                     *)

\* The call raises.
RefuseAgent(c) ==
    /\ \/ pc[c] = "registry" /\ Unknown(c)
       \/ pc[c] \in {"reset", "presence"} /\ op[c].agent \in garbled
    /\ Goto(c, "idle")
    /\ UNCHANGED <<files, op, started, crashes>>

\* register_agent replaces the entry; join_room calls it without a webhook.
Register(c) ==
    /\ pc[c] = "registry" /\ Kind(c) \in {"register", "join"} /\ ~Unknown(c)
    /\ registry' = [registry EXCEPT ![op[c].agent] = "online"]
    /\ hook' = [hook EXCEPT ![op[c].agent] = op[c].hook]
    /\ Goto(c, "reset")
    /\ UNCHANGED <<index, log, copy, status, rooms,
                   broken, garbled, cuts, op, started, crashes>>

\* Then it saves the rooms of the old registry entry, which never has any.
Reset(c) ==
    /\ pc[c] = "reset" /\ op[c].agent \notin garbled
    /\ status' = [status EXCEPT ![op[c].agent] = "online"]
    /\ rooms' = [rooms EXCEPT ![op[c].agent] = {}]
    /\ Goto(c, IF Kind(c) = "join" THEN "presence" ELSE "idle")
    /\ UNCHANGED <<index, log, copy, registry, hook,
                   broken, garbled, cuts, op, started, crashes>>

\* The first half of heartbeat.
Heartbeat(c) ==
    /\ pc[c] = "registry" /\ Kind(c) = "heartbeat" /\ ~Unknown(c)
    /\ registry' = [registry EXCEPT ![op[c].agent] = op[c].status]
    /\ Goto(c, "presence")
    /\ UNCHANGED <<index, log, copy, hook, status, rooms,
                   broken, garbled, cuts, op, started, crashes>>

\* _save_presence.
SavePresence(c) ==
    LET a == op[c].agent
        r == op[c].room
    IN /\ pc[c] = "presence" /\ a \notin garbled
       /\ status' = [status EXCEPT ![a] =
                       IF Kind(c) = "leave" THEN "offline" ELSE op[c].status]
       /\ rooms' = [rooms EXCEPT ![a] = CASE Kind(c) = "join" -> @ \cup {r}
                                          [] Kind(c) = "leave" -> @ \ {r}
                                          [] OTHER -> @]
       /\ Goto(c, IF Kind(c) = "heartbeat" THEN "idle" ELSE "append")
       /\ UNCHANGED <<index, log, copy, registry, hook,
                      broken, garbled, cuts, op, started, crashes>>

-----------------------------------------------------------------------------
(* The log of the room.                                                    *)

RecordOf(c) ==
    [type |-> CASE Kind(c) = "create" -> "created"
                [] Kind(c) = "archive" -> "archived"
                [] Kind(c) = "join" -> "joined"
                [] Kind(c) = "leave" -> "left"
                [] OTHER -> "posted",
     from |-> IF Kind(c) \in {"create", "archive"} THEN System ELSE op[c].agent]

\* Slip: archive_room ends with the record.
AppendOnly(c) ==
    /\ pc[c] = "append"
    /\ log' = [log EXCEPT ![op[c].room] = Append(@, RecordOf(c))]
    /\ Goto(c, "idle")
    /\ UNCHANGED <<docs, copy, op, started, crashes>>

\* append_message.
AppendRecord(c) ==
    /\ pc[c] = "append"
    /\ log' = [log EXCEPT ![op[c].room] = Append(@, RecordOf(c))]
    /\ Goto(c, IF Kind(c) = "archive" THEN "copy" ELSE "idle")
    /\ UNCHANGED <<docs, copy, op, started, crashes>>

\* create_envelope raises instead: the role, adapter or text is not valid,
\* which nothing has checked so far.
Reject(c) ==
    /\ pc[c] = "append" /\ Kind(c) \in {"join", "leave", "post"}
    /\ Goto(c, "idle")
    /\ UNCHANGED <<files, op, started, crashes>>

\* Slip: it is written after the copy there is.
CompressOnto(c) ==
    /\ pc[c] = "copy"
    /\ copy' = [copy EXCEPT ![op[c].room] = @ + Len(log[op[c].room])]
    /\ Goto(c, "idle")
    /\ UNCHANGED <<docs, log, op, started, crashes>>

\* _compress_room_segments; a segment that has a copy is left out.
Compress(c) ==
    /\ pc[c] = "copy"
    /\ copy' = [copy EXCEPT ![op[c].room] = IF @ = 0 THEN Len(log[op[c].room]) ELSE @]
    /\ Goto(c, "idle")
    /\ UNCHANGED <<docs, log, op, started, crashes>>

-----------------------------------------------------------------------------
(* Crashes.                                                                *)

\* A crash in the change of a document leaves nothing of it, or a part.
CutOff(f) ==
    /\ broken' \in {broken, broken \cup {f}}
    /\ cuts' = [cuts EXCEPT ![f] = @ + 1]

CutIndex ==
    /\ index' = [r \in Rooms |-> "none"] /\ CutOff("index")
    /\ UNCHANGED <<registry, hook, status, rooms, garbled>>

CutRegistry ==
    /\ registry' = [a \in Agents |-> "none"] /\ hook' = [a \in Agents |-> NoHook]
    /\ CutOff("registry")
    /\ UNCHANGED <<index, status, rooms, garbled>>

CutPresence(a) ==
    /\ status' = [status EXCEPT ![a] = "none"] /\ rooms' = [rooms EXCEPT ![a] = {}]
    /\ garbled' \in {garbled, garbled \cup {a}}
    /\ UNCHANGED <<index, registry, hook, broken, cuts>>

\* The compressed copy may be cut short as well.
CutCopy(r) ==
    /\ copy[r] = 0
    /\ \E n \in 1..(Len(log[r]) - 1) : copy' = [copy EXCEPT ![r] = n]

\* The client stops between two accesses, or in the middle of a change.
Crash(c) ==
    /\ pc[c] # "idle" /\ crashes < MaxCrashes
    /\ crashes' = crashes + 1
    /\ \/ UNCHANGED <<docs, copy>>
       \/ pc[c] = "index" /\ ~Refused(c) /\ CutIndex /\ UNCHANGED copy
       \/ pc[c] = "registry" /\ ~Unknown(c) /\ CutRegistry /\ UNCHANGED copy
       \/ /\ pc[c] \in {"reset", "presence"} /\ op[c].agent \notin garbled
          /\ CutPresence(op[c].agent) /\ UNCHANGED copy
       \/ pc[c] = "copy" /\ CutCopy(op[c].room) /\ UNCHANGED docs
    /\ Goto(c, "idle")
    /\ UNCHANGED <<log, op, started>>

Step(c) ==
    \/ Refuse(c)
    \/ CreateIndex(c)
    \/ ArchiveIndex(c)
    \/ Check(c)
    \/ Lookup(c)
    \/ RefuseAgent(c)
    \/ Register(c)
    \/ Reset(c)
    \/ Heartbeat(c)
    \/ SavePresence(c)
    \/ AppendRecord(c)
    \/ Reject(c)
    \/ Compress(c)

Next == \E c \in Clients : Begin(c) \/ Step(c) \/ Crash(c)

Spec == Init /\ [][Next]_vars

\* A call that was made runs on: no step waits for another client for long.
FairSpec == Spec /\ \A c \in Clients : WF_vars(Step(c))

-----------------------------------------------------------------------------
(* Properties.                                                             *)

Positions(r, types) == {i \in 1..Len(log[r]) : log[r][i].type \in types}

TypeOK ==
    /\ index \in [Rooms -> {"none", "active", "archived"}]
    /\ log \in [Rooms -> Seq(Records)]
    /\ copy \in [Rooms -> Nat] /\ \A r \in Rooms : copy[r] <= Len(log[r])
    /\ registry \in [Agents -> {"none", "online", "unhealthy"}]
    /\ hook \in [Agents -> Hooks \cup {NoHook}]
    /\ \A a \in Agents : hook[a] # NoHook => registry[a] # "none"
    /\ status \in [Agents -> {"none", "online", "offline", "unhealthy"}]
    /\ rooms \in [Agents -> SUBSET Rooms]
    /\ broken \subseteq Documents /\ garbled \subseteq Agents
    /\ cuts \in [Documents -> Nat]
    /\ pc \in [Clients -> {"idle", "index", "check", "lookup", "registry", "reset",
                           "presence", "append", "copy"}]
    /\ op \in [Clients -> Ops]
    /\ started \in 0..MaxOps /\ crashes \in 0..MaxCrashes

\* However many clients create or archive a room at once, its log says so once,
\* and once more for each time a crash cut off the index: then the room can be
\* created again, over the log it has.
AnnouncedOnce ==
    \A r \in Rooms, t \in {"created", "archived"} :
        Cardinality(Positions(r, {t})) <= 1 + cuts["index"]

\* Posts and joins that pass their check before the room is archived may land
\* in the log after the record of it, but then at most one of each other client;
\* unless a crash cut off the index, and the room was created again.
LatePostsBounded ==
    cuts["index"] = 0 =>
        \A r \in Rooms : \A i \in Positions(r, {"archived"}) :
            Cardinality({j \in Positions(r, {"posted", "joined"}) : i < j})
                < Cardinality(Clients)

\* The members of a room are registered, and the room exists: dispatch and the
\* listings look members up in the registry and rooms in the index.  Only a crash
\* in a change of the registry, or of the index, undoes it.
MembersKnown ==
    \A a \in Agents : \A r \in rooms[a] :
        /\ registry[a] # "none" \/ cuts["registry"] > 0
        /\ index[r] # "none" \/ cuts["index"] > 0

\* The compressed copy of a room holds the record that says it was archived,
\* unless the client that made it crashed: nobody makes it again.
CopyHasMarker ==
    \A r \in Rooms : copy[r] > 0 /\ crashes = 0 => \E i \in Positions(r, {"archived"}) : i <= copy[r]

\* Unless a client crashes, every archived room gets its compressed copy.
EveryArchiveCopied ==
    \A r \in Rooms : (index[r] = "archived") ~> (copy[r] > 0 \/ crashes > 0)
=============================================================================
