---------------------------- MODULE AdapterRunner -----------------------------
(***************************************************************************)
(* agentctl agent run (_run_adapter of agentroom/cli.py): processes that   *)
(* poll a room, have a language model answer what they read, and post the  *)
(* answer into the same room.                                              *)
(*                                                                         *)
(* There is one process for each agent; it may crash, or end with an       *)
(* exception, and is started again.  The room's log is one sequence here,  *)
(* a poll and an append one step each: RoomLog has their parts.  Of the    *)
(* model's subprocess there is the outcome only.  The adapters never ask   *)
(* the model cache, and the pool has at most one call of a process.        *)
(*                                                                         *)
(* The JSON files are rewritten by other programs too, at any time.  What  *)
(* stops in the middle of a rewrite leaves an empty file, which reads as   *)
(* the default (the documents fit Python's buffer here; Lifecycle also has *)
(* files that do not parse, and JsonFile how it comes to this).  The room  *)
(* is not created anew after its archiving; Lifecycle has that as well.    *)
(***************************************************************************)
EXTENDS Integers, Sequences, FiniteSets

CONSTANTS
    Runners,      \* the agents, each with its process
    Client,       \* anybody else who posts to the room
    TornReads,    \* may an unlocked read of a JSON file get the default?
    SharedCursors,  \* those whose cursor file is saved for other rooms too
    MaxStarts,    \* bound: starts of processes
    MaxLog,       \* bound: posts, and answers, only while the log is shorter
    MaxCrashes,   \* bound: crashes of processes
    MaxResets     \* bound: polls that miss the cursor, counted per agent

ASSUME RunnersAssumption == IsFiniteSet(Runners) /\ Client \notin Runners
ASSUME CursorsAssumption == SharedCursors \subseteq Runners
ASSUME LimitsAssumption ==
    /\ TornReads \in BOOLEAN
    /\ MaxStarts \in Nat /\ MaxLog \in Nat
    /\ MaxCrashes \in Nat /\ MaxResets \in Nat

VARIABLES
    active,      \* is the room active?
    log,         \* its records, as [type, from, answers]
    registered,  \* agents in registry.json
    member,      \* agents whose presence file has the room
    cursor,      \* agent -> the records marked as read
    pc,          \* agent -> where its process is
    batch,       \* agent -> the records its process has read and not answered
    refused,     \* agents whose process was given a role no envelope may have
    unsaid,      \* agents whose join ended between its file and its record
    resets,      \* agent -> how often its cursor was lost or overlooked
    started, crashes

shared == <<active, log, registered, member, cursor>>
told   == <<refused, unsaid, resets, started, crashes>>
vars   == <<shared, pc, batch, told>>

Record(type, from, answers) == [type |-> type, from |-> from, answers |-> answers]
Goto(a, l) == pc' = [pc EXCEPT ![a] = l]

\* The room was created, and nobody has joined.
Init ==
    /\ active = TRUE /\ log = <<Record("created", Client, {})>>
    /\ registered = {} /\ member = {}
    /\ cursor = [a \in Runners |-> 0]
    /\ pc = [a \in Runners |-> "stopped"] /\ batch = [a \in Runners |-> {}]
    /\ refused = {} /\ unsaid = {} /\ resets = [a \in Runners |-> 0]
    /\ started = 0 /\ crashes = 0

\* Does an unlocked read meet a rewrite, and get the default?
Torn == IF TornReads THEN {TRUE, FALSE} ELSE {FALSE}

-----------------------------------------------------------------------------
(* The start of a process.                                                 *)

\* A role from the command line, which nobody checks yet; then list_agents: is
\* the agent registered?
Start(a) ==
    /\ pc[a] = "stopped" /\ started < MaxStarts
    /\ started' = started + 1
    /\ refused' \in {refused \cup {a}, refused \ {a}}
    /\ \E torn \in Torn :
          Goto(a, IF a \in registered /\ ~torn THEN "presence" ELSE "register")
    /\ UNCHANGED <<shared, batch, unsaid, resets, crashes>>

\* register_agent changes the registry,
Register(a) ==
    /\ pc[a] = "register"
    /\ registered' = registered \cup {a}
    /\ Goto(a, "reset")
    /\ UNCHANGED <<active, log, member, cursor, batch, told>>

\* and then empties the agent's rooms.
Reset(a) ==
    /\ pc[a] = "reset"
    /\ member' = member \ {a}
    /\ Goto(a, "presence")
    /\ UNCHANGED <<active, log, registered, cursor, batch, told>>

\* Is the room in its presence file?
CheckPresence(a) ==
    /\ pc[a] = "presence"
    /\ \E torn \in Torn :
          Goto(a, IF a \in member /\ ~torn THEN "polling" ELSE "join")
    /\ UNCHANGED <<shared, batch, told>>

\* join_room raises if the room is not active, and the process ends; otherwise
\* it registers the agent if it does not find it, and changes the presence file.
Join(a) ==
    /\ pc[a] = "join"
    /\ \E torn \in Torn :
          IF active /\ ~torn
          THEN /\ registered' = registered \cup {a} /\ member' = member \cup {a}
               /\ Goto(a, "announce")
          ELSE UNCHANGED <<registered, member>> /\ Goto(a, "stopped")
    /\ UNCHANGED <<active, log, cursor, batch, told>>

\* Slip: nobody is told.
AnnounceNot(a) ==
    /\ pc[a] = "announce"
    /\ Goto(a, "polling")
    /\ UNCHANGED <<shared, batch, told>>

\* Then it appends agent.joined, unless the envelope is refused: create_envelope
\* raises, and the process ends.
Announce(a) ==
    /\ pc[a] = "announce"
    /\ \/ /\ a \notin refused
          /\ log' = Append(log, Record("joined", a, {}))
          /\ Goto(a, "polling")
          /\ UNCHANGED unsaid
       \/ /\ a \in refused
          /\ unsaid' = unsaid \cup {a}
          /\ Goto(a, "stopped")
          /\ UNCHANGED log
    /\ UNCHANGED <<active, registered, member, cursor, batch,
                   refused, resets, started, crashes>>

-----------------------------------------------------------------------------
(* Its loop.                                                               *)

\* What is unread from place c on; a slip: one record more.
UnreadPast(c) == (c + 1)..(Len(log) + 1)
Unread(c) == (c + 1)..Len(log)

\* A poll gets the cursor; or the default, which is the beginning of the log, if
\* its read of a cursor file that other rooms share meets a rewrite.
ReadCursor(a) == {cursor[a]} \cup (IF a \in SharedCursors THEN {0} ELSE {})

\* One more if the cursor is gone, or was not found.
Missed(a, c) ==
    IF c < cursor[a] THEN [resets EXCEPT ![a] = @ + 1] ELSE resets

\* Slip: the batch is not marked as read.
PollUnmarked(a) ==
    /\ pc[a] = "polling" /\ Unread(cursor[a]) # {}
    /\ batch' = [batch EXCEPT ![a] = Unread(cursor[a])]
    /\ Goto(a, "processing")
    /\ UNCHANGED <<shared, told>>

\* list_unread marks the batch as read before it is processed.  The agent's own
\* records are in it.
Poll(a) ==
    /\ pc[a] = "polling"
    /\ \E c \in ReadCursor(a) :
          /\ Unread(c) # {}
          /\ c < cursor[a] => resets[a] < MaxResets
          /\ batch' = [batch EXCEPT ![a] = Unread(c)]
          /\ resets' = Missed(a, c)
    /\ cursor' = [cursor EXCEPT ![a] = Len(log)]
    /\ Goto(a, "processing")
    /\ UNCHANGED <<active, log, registered, member, refused, unsaid, started, crashes>>

\* process, which is the same in all adapters: the model has an answer,
Answer(a) ==
    /\ pc[a] = "processing" /\ Len(log) < MaxLog
    /\ Goto(a, "answering")
    /\ UNCHANGED <<shared, batch, told>>

\* or none to give, or there is no such program, or it fails or takes too long:
\* then the batch is done with.
NoAnswer(a) ==
    /\ pc[a] = "processing"
    /\ Goto(a, "polling") /\ batch' = [batch EXCEPT ![a] = {}]
    /\ UNCHANGED <<shared, told>>

\* or the prompt cannot be made up, as an A2A payload may have a text that is no
\* string: the exception ends the process.
PromptRaises(a) ==
    /\ pc[a] = "processing"
    /\ \E i \in batch[a] : log[i] = Record("text", Client, {})
    /\ Goto(a, "stopped") /\ batch' = [batch EXCEPT ![a] = {}]
    /\ UNCHANGED <<shared, told>>

Process(a) == Answer(a) \/ NoAnswer(a) \/ PromptRaises(a)

\* Slips: a room that was archived will do, or the process waits for it.
CheckNothing(a) ==
    /\ pc[a] = "answering"
    /\ Goto(a, "posting")
    /\ UNCHANGED <<shared, batch, told>>

CheckWait(a) ==
    /\ pc[a] = "answering" /\ active
    /\ Goto(a, "posting")
    /\ UNCHANGED <<shared, batch, told>>

\* post_text raises if the room is not active, or create_envelope if it refuses
\* the role: the process ends, with its batch.
CheckActive(a) ==
    /\ pc[a] = "answering"
    /\ \E torn \in Torn :
          IF active /\ ~torn /\ a \notin refused
          THEN Goto(a, "posting") /\ UNCHANGED batch
          ELSE Goto(a, "stopped") /\ batch' = [batch EXCEPT ![a] = {}]
    /\ UNCHANGED <<shared, told>>

\* It appends the answer.
Post(a) ==
    /\ pc[a] = "posting"
    /\ log' = Append(log, Record("text", a, batch[a]))
    /\ batch' = [batch EXCEPT ![a] = {}]
    /\ Goto(a, "polling")
    /\ UNCHANGED <<active, registered, member, cursor, told>>

\* The file a process was rewriting when it stopped is left empty.
RegistryLost == registered' = {} /\ UNCHANGED <<member, cursor, resets>>
RoomsLost(a) == member' = member \ {a} /\ UNCHANGED <<registered, cursor, resets>>
CursorLost(a) ==
    /\ cursor' = [cursor EXCEPT ![a] = 0] /\ resets' = Missed(a, 0)
    /\ UNCHANGED <<registered, member>>

Crash(a) ==
    /\ pc[a] # "stopped" /\ crashes < MaxCrashes
    /\ crashes' = crashes + 1
    /\ \/ UNCHANGED <<registered, member, cursor, resets>>
       \/ pc[a] \in {"register", "join"} /\ RegistryLost
       \/ pc[a] \in {"reset", "join"} /\ RoomsLost(a)
       \/ pc[a] = "polling" /\ CursorLost(a)
    /\ unsaid' = IF pc[a] = "announce" THEN unsaid \cup {a} ELSE unsaid
    /\ batch' = [batch EXCEPT ![a] = {}]
    /\ Goto(a, "stopped")
    /\ UNCHANGED <<active, log, refused, started>>

-----------------------------------------------------------------------------
(* The others in the room.                                                 *)

ClientPost ==
    /\ active /\ Len(log) < MaxLog
    /\ log' = Append(log, Record("text", Client, {}))
    /\ UNCHANGED <<active, registered, member, cursor, pc, batch, told>>

\* archive_room changes the index, and then appends its record.
Archive ==
    /\ active
    /\ active' = FALSE
    /\ UNCHANGED <<log, registered, member, cursor, pc, batch, told>>

ArchiveRecord ==
    /\ ~active /\ \A i \in 1..Len(log) : log[i].type # "archived"
    /\ log' = Append(log, Record("archived", Client, {}))
    /\ UNCHANGED <<active, registered, member, cursor, pc, batch, told>>

\* Another program stops in the middle of a rewrite: a client that registers or
\* beats for an agent, or the agent's process of another room.
OtherCrash ==
    /\ crashes < MaxCrashes
    /\ crashes' = crashes + 1
    /\ \/ RegistryLost
       \/ \E a \in Runners : RoomsLost(a)
       \/ \E a \in SharedCursors : CursorLost(a)
    /\ UNCHANGED <<active, log, pc, batch, refused, unsaid, started>>

Loop(a) == Poll(a) \/ Process(a) \/ CheckActive(a) \/ Post(a)

Next ==
    \/ \E a \in Runners :
          \/ Start(a) \/ Register(a) \/ Reset(a) \/ CheckPresence(a) \/ Join(a) \/ Announce(a)
          \/ Loop(a)
          \/ Crash(a)
    \/ ClientPost
    \/ Archive \/ ArchiveRecord
    \/ OtherCrash

Spec == Init /\ [][Next]_vars

\* The loop of a process runs on: the model's subprocess has a timeout.
FairSpec == Spec /\ \A a \in Runners : WF_vars(Loop(a))

-----------------------------------------------------------------------------
(* Properties.                                                             *)

TypeOK ==
    /\ active \in BOOLEAN
    /\ \A i \in 1..Len(log) :
          /\ log[i].type \in {"created", "joined", "text", "archived"}
          /\ log[i].from \in Runners \cup {Client}
          /\ log[i].answers \subseteq 1..(i - 1)
    /\ registered \subseteq Runners /\ member \subseteq Runners
    /\ cursor \in [Runners -> 0..Len(log)]
    /\ pc \in [Runners -> {"stopped", "register", "reset", "presence", "join",
                           "announce", "polling", "processing", "answering", "posting"}]
    /\ \A a \in Runners : batch[a] \subseteq 1..Len(log)
    /\ refused \subseteq Runners /\ unsaid \subseteq Runners
    /\ resets \in [Runners -> Nat]
    /\ started \in 0..MaxStarts /\ crashes \in 0..MaxCrashes

\* The answers of an agent to a record.
AnswersTo(a, k) == {i \in 1..Len(log) : log[i].from = a /\ k \in log[i].answers}

\* No agent answers a record twice, whenever its process ends and starts again,
\* but once more for each time its cursor was lost or overlooked.
AnsweredOnce ==
    \A a \in Runners, k \in 1..Len(log) : Cardinality(AnswersTo(a, k)) <= 1 + resets[a]

\* Nobody hears from an agent before it joined, unless one of its joins ended
\* between the presence file, which then has the room, and the record, by a crash
\* or because the record was refused.
JoinedFirst ==
    \A i \in 1..Len(log) :
        log[i].type = "text" /\ log[i].from \in Runners \ unsaid
            => \E j \in 1..(i - 1) : log[j] = Record("joined", log[i].from, {})

\* After the archiving an agent still posts the one answer it had passed the
\* check with, at most.
LateAnswerBounded ==
    \A i \in 1..Len(log), a \in Runners :
        log[i].type = "archived" =>
            Cardinality({j \in i..Len(log) : log[j].type = "text" /\ log[j].from = a}) <= 1

\* Time and again a process in its loop has read all there is in the room: no
\* answer, exception or archiving makes it hang.
EveryRecordRead ==
    \A a \in Runners :
        []<>(cursor[a] = Len(log)
             \/ pc[a] \notin {"polling", "processing", "answering", "posting"})
=============================================================================
