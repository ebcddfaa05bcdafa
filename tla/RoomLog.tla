------------------------------- MODULE RoomLog -------------------------------
(***************************************************************************)
(* The segmented message log of one room and the cursors of the agents     *)
(* that poll it (agentroom/core.py: append_message, list_messages,         *)
(* list_unread, save_cursor).                                              *)
(*                                                                         *)
(* Writers append one message at a time.  append_message looks for the     *)
(* active segment, decides whether to rotate and writes the line in three  *)
(* separate file-system accesses; only the write itself is under a lock.   *)
(* Pollers run list_unread(mark_read=True).  A poll loads the cursor       *)
(* without a lock, lists the segment files, reads them one by one and      *)
(* saves the new cursor before it returns the messages.                    *)
(*                                                                         *)
(* A line is one message, or it is unparsable.  The write(2) of a line is  *)
(* atomic unless the machine fails in the middle of it (TornWrites).       *)
(* Message ids are unique (schemas.py requires a ULID-style id).           *)
(* Polls with mark_read=False change neither the log nor a saved cursor    *)
(* (they may create the cursor file, with the default in it, as JsonFile   *)
(* has it) and are left out.                                               *)
(***************************************************************************)
EXTENDS Integers, Sequences, FiniteSets

CONSTANTS
    Writers,        \* threads and processes that call append_message
    Pollers,        \* threads and processes that call list_unread
    Agents,         \* agents, each with one cursor file for all its rooms
    AgentOf,        \* the agent a poller polls for
    Messages,       \* envelopes that may be posted
    Weight,         \* bytes of each envelope's line
    MaxSize,        \* max_segment_size
    MaxMessages,    \* max_segment_messages; no limit when it is <= 0
    GlobLimit,      \* last segment the glob pattern matches (9999)
    SharedCursors,  \* agents whose cursor file is also saved for other rooms
    TornWrites,     \* may a failing write leave part of a line behind?
    MaxCrashes,     \* bound: crashes of writers and pollers
    MaxInbox,       \* bound: an agent that was handed more stops polling
    None,           \* no cursor, no message, no lock holder
    Elsewhere,      \* lock holder: a poll of another room by the same agent
    Torn, Bad       \* lines: cut short at the end of the file / unparsable

ASSUME WritersAssumption == IsFiniteSet(Writers) /\ Writers # {}
ASSUME AgentsAssumption ==
    AgentOf \in [Pollers -> Agents] /\ SharedCursors \subseteq Agents
ASSUME WeightAssumption == Weight \in [Messages -> Nat \ {0}]
ASSUME LimitsAssumption ==
    /\ MaxSize \in Nat \ {0}
    /\ MaxMessages \in Int
    /\ GlobLimit \in Nat \ {0}
    /\ MaxCrashes \in Nat
    /\ MaxInbox \in Nat
    /\ TornWrites \in BOOLEAN
ASSUME ValuesAssumption ==
    /\ None \notin Messages /\ Torn \notin Messages /\ Bad \notin Messages
    /\ Torn # Bad
    /\ None \notin Pollers /\ Elsewhere \notin Pollers /\ Elsewhere # None

VARIABLES
    segs,     \* segment number -> its lines, for the segment files there are
    bytes,    \* segment number -> st_size
    used,     \* messages some append_message was called with
    wpc,      \* writer -> where it is in append_message
    wmsg,     \* writer -> the envelope it appends
    wseg,     \* writer -> the segment it located, then the one it chose
    acked,    \* cursors append_message returned
    cursor,   \* agent -> the room's entry in its cursor file
    lock,     \* agent -> who holds the lock of its cursor file
    ppc,      \* poller -> where it is in list_unread
    pcur,     \* poller -> the cursor it loaded, then the one it saves
    pfound,   \* poller -> found_cursor
    ptodo,    \* poller -> listed segments it has not read yet
    pgot,     \* poller -> messages collected so far
    inbox,    \* agent -> messages handed to it by its polls, in order
    crashes   \* crashes so far

logVars    == <<segs, bytes>>
writerVars == <<used, wpc, wmsg, wseg, acked>>
cursorVars == <<cursor, lock>>
pollVars   == <<ppc, pcur, pfound, ptodo, pgot, inbox>>
vars       == <<logVars, writerVars, cursorVars, pollVars, crashes>>

Lines     == Messages \cup {Torn, Bad}
CursorRec == [id : Messages, segment : Nat \ {0}]
Cursors   == CursorRec \cup {None}

ASSUME NoneAssumption == None \notin CursorRec

-----------------------------------------------------------------------------
(* The segment files.                                                      *)

\* The segments whose name matches "[0-9][0-9][0-9][0-9]".
Visible == {s \in DOMAIN segs : s <= GlobLimit}

\* active_segment: the last visible segment, or the first if there is none.
IsActive(s) ==
    \/ Visible = {} /\ s = 1
    \/ s \in Visible /\ \A t \in Visible : t <= s

\* path.touch(exist_ok=True) on segment s of file table f.
Touch(f, s, new) ==
    [t \in DOMAIN f \cup {s} |-> IF t \in DOMAIN f THEN f[t] ELSE new]

\* Slips: the limit taken one message too early, or too late.
RotateEarly(lines, size) ==
    size >= MaxSize \/ (MaxMessages > 0 /\ Len(lines) + 1 >= MaxMessages)
RotateLate(lines, size) ==
    size >= MaxSize \/ (MaxMessages > 0 /\ Len(lines) > MaxMessages)

ShouldRotate(lines, size) ==
    \/ size >= MaxSize
    \/ MaxMessages > 0 /\ Len(lines) >= MaxMessages

Successor(s) == s + 1

\* Slip: the file is opened for writing, not for appending.
WrittenOver(lines, x) == <<x>>

\* What a file holds once x was written at its end: a line cut short has no
\* newline, and swallows what is written after it.
Written(lines, x) ==
    IF lines # <<>> /\ lines[Len(lines)] = Torn
    THEN [lines EXCEPT ![Len(lines)] = IF x = Torn THEN Torn ELSE Bad]
    ELSE Append(lines, x)

LinesOf(s) == {segs[s][i] : i \in 1..Len(segs[s])}

Unparsable(s) == LinesOf(s) \cap {Torn, Bad} # {}

Init ==
    /\ segs = [s \in {} |-> <<>>] /\ bytes = [s \in {} |-> 0]
    /\ used = {} /\ acked = {}
    /\ wpc = [w \in Writers |-> "idle"]
    /\ wmsg = [w \in Writers |-> None]
    /\ wseg = [w \in Writers |-> 0]
    /\ cursor = [a \in Agents |-> None]
    /\ lock = [a \in Agents |-> None]
    /\ ppc = [p \in Pollers |-> "idle"]
    /\ pcur = [p \in Pollers |-> None]
    /\ pfound = [p \in Pollers |-> FALSE]
    /\ ptodo = [p \in Pollers |-> {}]
    /\ pgot = [p \in Pollers |-> <<>>]
    /\ inbox = [a \in Agents |-> <<>>]
    /\ crashes = 0

-----------------------------------------------------------------------------
(* append_message.                                                         *)

\* The glob of active_segment.
Locate(w, m) ==
    /\ wpc[w] = "idle" /\ m \notin used
    /\ \E s \in DOMAIN segs \cup {1} :
          /\ IsActive(s)
          /\ wseg' = [wseg EXCEPT ![w] = s]
    /\ used' = used \cup {m}
    /\ wmsg' = [wmsg EXCEPT ![w] = m]
    /\ wpc' = [wpc EXCEPT ![w] = "located"]
    /\ UNCHANGED <<logVars, acked, cursorVars, pollVars, crashes>>

\* touch, _should_rotate and the touch of the next segment.  A segment that
\* must rotate stays so, hence the three accesses amount to one.
Choose(w) ==
    /\ wpc[w] = "located"
    /\ LET s  == wseg[w]
           f  == Touch(segs, s, <<>>)
           b  == Touch(bytes, s, 0)
       IN IF ShouldRotate(f[s], b[s])
          THEN /\ segs' = Touch(f, Successor(s), <<>>)
               /\ bytes' = Touch(b, Successor(s), 0)
               /\ wseg' = [wseg EXCEPT ![w] = Successor(s)]
          ELSE segs' = f /\ bytes' = b /\ UNCHANGED wseg
    /\ wpc' = [wpc EXCEPT ![w] = "chosen"]
    /\ UNCHANGED <<used, wmsg, acked, cursorVars, pollVars, crashes>>

\* The write under the lock of the segment file, flushed and synced.
Write(w) ==
    /\ wpc[w] = "chosen"
    /\ segs' = [segs EXCEPT ![wseg[w]] = Written(@, wmsg[w])]
    /\ bytes' = [bytes EXCEPT ![wseg[w]] = @ + Weight[wmsg[w]]]
    /\ wpc' = [wpc EXCEPT ![w] = "written"]
    /\ UNCHANGED <<used, wmsg, wseg, acked, cursorVars, pollVars, crashes>>

\* Slip: the segment located, not the one the line went to.
StaleCursorOf(w) == [id |-> wmsg[w], segment |-> wseg[w] - 1]

CursorOf(w) == [id |-> wmsg[w], segment |-> wseg[w]]

\* append_message returns the message's cursor.
Ack(w) ==
    /\ wpc[w] = "written"
    /\ acked' = acked \cup {CursorOf(w)}
    /\ wpc' = [wpc EXCEPT ![w] = "idle"]
    /\ UNCHANGED <<logVars, used, wmsg, wseg, cursorVars, pollVars, crashes>>

\* The writer stops between two steps: it restarts and posts other messages.
CrashWriter(w) ==
    /\ wpc[w] # "idle" /\ crashes < MaxCrashes
    /\ crashes' = crashes + 1
    /\ wpc' = [wpc EXCEPT ![w] = "idle"]
    /\ UNCHANGED <<logVars, used, wmsg, wseg, acked, cursorVars, pollVars>>

\* It stops (machine failure, disk full) with part of the line written.
TearWrite(w) ==
    /\ TornWrites /\ wpc[w] = "chosen" /\ crashes < MaxCrashes
    /\ crashes' = crashes + 1
    /\ segs' = [segs EXCEPT ![wseg[w]] = Written(@, Torn)]
    /\ \E n \in 1..Weight[wmsg[w]] :
          bytes' = [bytes EXCEPT ![wseg[w]] = @ + n]
    /\ wpc' = [wpc EXCEPT ![w] = "idle"]
    /\ UNCHANGED <<used, wmsg, wseg, acked, cursorVars, pollVars>>

-----------------------------------------------------------------------------
(* list_unread(mark_read=True).                                            *)

\* The poll is over (it returned, raised or crashed) and its locals are gone.
Leave(p) ==
    /\ ppc' = [ppc EXCEPT ![p] = "idle"]
    /\ pcur' = [pcur EXCEPT ![p] = None]
    /\ pfound' = [pfound EXCEPT ![p] = FALSE]
    /\ ptodo' = [ptodo EXCEPT ![p] = {}]
    /\ pgot' = [pgot EXCEPT ![p] = <<>>]

\* load_cursor reads the file without its lock: while the file is being
\* saved it is empty, which read_json takes for a file with no cursor.
LoadCursor(p) ==
    LET a == AgentOf[p]
        c == IF lock[a] = None THEN cursor[a] ELSE None
    IN /\ ppc[p] = "idle" /\ Len(inbox[a]) <= MaxInbox
       /\ pcur' = [pcur EXCEPT ![p] = c]
       /\ pfound' = [pfound EXCEPT ![p] = (c = None)]
       /\ ppc' = [ppc EXCEPT ![p] = "loaded"]
       /\ UNCHANGED <<logVars, writerVars, cursorVars, ptodo, pgot, inbox, crashes>>

\* Slip: the segment of the cursor is left out too.
AfterCursor(c) == {s \in Visible : c # None => s > c.segment}

FromCursor(c) == {s \in Visible : c # None => s >= c.segment}

\* The glob of list_messages; segments before the cursor's are not opened.
Glob(p) ==
    /\ ppc[p] = "loaded"
    /\ ptodo' = [ptodo EXCEPT ![p] = FromCursor(pcur[p])]
    /\ ppc' = [ppc EXCEPT ![p] = "reading"]
    /\ UNCHANGED <<logVars, writerVars, cursorVars, pcur, pfound, pgot, inbox, crashes>>

\* Slip: the cursor's line is kept.
KeptFrom(lines, c, found) ==
    IF found THEN lines
    ELSE LET from == {i \in 1..Len(lines) : \E j \in 1..i : lines[j] = c.id}
         IN SubSeq(lines, Len(lines) - Cardinality(from) + 1, Len(lines))

\* The lines a poll keeps of one segment: those after the cursor's line.
Kept(lines, c, found) ==
    IF found THEN lines
    ELSE LET after == {i \in 1..Len(lines) :
                         \E j \in 1..(i - 1) : lines[j] = c.id}
         IN SubSeq(lines, Len(lines) - Cardinality(after) + 1, Len(lines))

\* The next listed segment is read to its end; json.loads raises on a line
\* that does not parse, and the poll fails.
ReadSegment(p) ==
    /\ ppc[p] = "reading"
    /\ \E s \in ptodo[p] :
          /\ \A t \in ptodo[p] : s <= t
          /\ IF Unparsable(s)
             THEN Leave(p)
             ELSE /\ pgot' = [pgot EXCEPT ![p] =
                                @ \o Kept(segs[s], pcur[p], pfound[p])]
                  /\ pfound' = [pfound EXCEPT ![p] =
                                  @ \/ pcur[p].id \in LinesOf(s)]
                  /\ ptodo' = [ptodo EXCEPT ![p] = @ \ {s}]
                  /\ UNCHANGED <<ppc, pcur>>
    /\ UNCHANGED <<logVars, writerVars, cursorVars, inbox, crashes>>

\* Slip: an empty poll saves a cursor all the same.
ResetEmpty(p) ==
    /\ ppc[p] = "reading" /\ ptodo[p] = {} /\ pgot[p] = <<>>
    /\ Leave(p)
    /\ cursor' = [cursor EXCEPT ![AgentOf[p]] = None]
    /\ UNCHANGED <<logVars, writerVars, lock, inbox, crashes>>

\* Nothing unread: the poll returns no message.
ReturnEmpty(p) ==
    /\ ppc[p] = "reading" /\ ptodo[p] = {} /\ pgot[p] = <<>>
    /\ Leave(p)
    /\ UNCHANGED <<logVars, writerVars, cursorVars, inbox, crashes>>

\* Slip: the active segment, instead of the one that holds m.
IsLastSegment(m, s) == \A t \in Visible : t <= s

\* The segment _segment_for_message finds m in.
IsSegmentOf(m, s) ==
    m \in LinesOf(s) /\ \A t \in Visible : m \in LinesOf(t) => s <= t

\* Slip: the first message collected.
FirstGot(p) == pgot[p][1]

LastGot(p) == pgot[p][Len(pgot[p])]

\* _segment_for_message scans from the first segment for the last message
\* collected.  It raises on an unparsable line it meets on the way.
Mark(p) ==
    /\ ppc[p] = "reading" /\ ptodo[p] = {} /\ pgot[p] # <<>>
    /\ LET m == LastGot(p)
       IN \E s \in Visible :
             /\ IsSegmentOf(m, s)
             /\ IF \E t \in Visible : t < s /\ Unparsable(t)
                THEN Leave(p)
                ELSE /\ pcur' = [pcur EXCEPT ![p] = [id |-> m, segment |-> s]]
                     /\ ppc' = [ppc EXCEPT ![p] = "marking"]
                     /\ UNCHANGED <<pfound, ptodo, pgot>>
    /\ UNCHANGED <<logVars, writerVars, cursorVars, inbox, crashes>>

\* save_cursor enters locked_json: it takes the lock, reads and truncates.
SaveBegin(p) ==
    /\ ppc[p] = "marking" /\ lock[AgentOf[p]] = None
    /\ lock' = [lock EXCEPT ![AgentOf[p]] = p]
    /\ ppc' = [ppc EXCEPT ![p] = "saving"]
    /\ UNCHANGED <<logVars, writerVars, cursor, pcur, pfound, ptodo, pgot, inbox, crashes>>

\* ... and leaves it: the new content is written, the lock released.
SaveEnd(p) ==
    /\ ppc[p] = "saving"
    /\ cursor' = [cursor EXCEPT ![AgentOf[p]] = pcur[p]]
    /\ lock' = [lock EXCEPT ![AgentOf[p]] = None]
    /\ ppc' = [ppc EXCEPT ![p] = "returning"]
    /\ UNCHANGED <<logVars, writerVars, pcur, pfound, ptodo, pgot, inbox, crashes>>

\* The messages reach the agent, after they were marked as read.
Return(p) ==
    /\ ppc[p] = "returning"
    /\ inbox' = [inbox EXCEPT ![AgentOf[p]] = @ \o pgot[p]]
    /\ Leave(p)
    /\ UNCHANGED <<logVars, writerVars, cursorVars, crashes>>

\* The poller stops.  While it saves the cursor, the file stays truncated.
CrashPoller(p) ==
    LET a == AgentOf[p]
    IN /\ ppc[p] # "idle" /\ crashes < MaxCrashes
       /\ crashes' = crashes + 1
       /\ IF ppc[p] = "saving"
          THEN /\ lock' = [lock EXCEPT ![a] = None]
               /\ cursor' = [cursor EXCEPT ![a] = None]
          ELSE UNCHANGED cursorVars
       /\ Leave(p)
       /\ UNCHANGED <<logVars, writerVars, inbox>>

\* A poll of another room saves its cursor in the same file.
SaveElsewhereBegin(a) ==
    /\ a \in SharedCursors /\ lock[a] = None
    /\ lock' = [lock EXCEPT ![a] = Elsewhere]
    /\ UNCHANGED <<logVars, writerVars, cursor, pollVars, crashes>>

SaveElsewhereEnd(a) ==
    /\ lock[a] = Elsewhere
    /\ lock' = [lock EXCEPT ![a] = None]
    /\ UNCHANGED <<logVars, writerVars, cursor, pollVars, crashes>>

-----------------------------------------------------------------------------
WriterStep(w) ==
    \/ \E m \in Messages : Locate(w, m)
    \/ Choose(w)
    \/ Write(w)
    \/ Ack(w)

PollStep(p) ==
    \/ LoadCursor(p)
    \/ Glob(p)
    \/ ReadSegment(p)
    \/ ReturnEmpty(p)
    \/ Mark(p)
    \/ SaveBegin(p)
    \/ SaveEnd(p)
    \/ Return(p)

Next ==
    \/ \E w \in Writers : WriterStep(w) \/ CrashWriter(w) \/ TearWrite(w)
    \/ \E p \in Pollers : PollStep(p) \/ CrashPoller(p)
    \/ \E a \in Agents : SaveElsewhereBegin(a) \/ SaveElsewhereEnd(a)

Spec == Init /\ [][Next]_vars

\* `agentroom watch` and `agentroom run` poll in an endless loop, and a poll
\* that was started runs on; nothing obliges anyone to post.
FairSpec == Spec /\ \A p \in Pollers : WF_vars(PollStep(p))

-----------------------------------------------------------------------------
(* Properties.                                                             *)

\* Every variable stays in its range, the two file tables agree, and the
\* segments writers and pollers refer to exist.
LogTypeOK ==
    /\ segs \in [DOMAIN segs -> Seq(Lines)] /\ DOMAIN segs \subseteq Nat \ {0}
    /\ bytes \in [DOMAIN segs -> Nat]

WriterTypeOK ==
    /\ used \subseteq Messages /\ acked \subseteq CursorRec
    /\ wpc \in [Writers -> {"idle", "located", "chosen", "written"}]
    /\ wmsg \in [Writers -> Messages \cup {None}] /\ wseg \in [Writers -> Nat]
    /\ \A w \in Writers :
          /\ wpc[w] # "idle" => wmsg[w] \in Messages /\ wseg[w] \in Nat \ {0}
          /\ wpc[w] \in {"chosen", "written"} => wseg[w] \in DOMAIN segs

CursorTypeOK ==
    /\ cursor \in [Agents -> Cursors]
    /\ lock \in [Agents -> Pollers \cup {None, Elsewhere}]

PollTypeOK ==
    /\ ppc \in [Pollers -> {"idle", "loaded", "reading", "marking", "saving",
                            "returning"}]
    /\ pcur \in [Pollers -> Cursors] /\ pfound \in [Pollers -> BOOLEAN]
    /\ ptodo \in [Pollers -> SUBSET DOMAIN segs]
    /\ pgot \in [Pollers -> Seq(Messages)] /\ inbox \in [Agents -> Seq(Messages)]
    /\ \A p \in Pollers :
          /\ ~pfound[p] /\ ppc[p] # "idle" => pcur[p] # None
          /\ ppc[p] \in {"marking", "saving"} => pcur[p] # None

TypeOK ==
    /\ LogTypeOK /\ WriterTypeOK /\ CursorTypeOK /\ PollTypeOK
    /\ crashes \in Nat

\* Segments are created in order, with no gap: active_segment and
\* list_messages both read the order of the stream off the file numbers.
SegmentsContiguous == \A s \in DOMAIN segs : s = 1 \/ s - 1 \in DOMAIN segs

\* A segment is only succeeded when it is full, whatever writers raced for it.
SealedAreFull ==
    \A s \in DOMAIN segs : s + 1 \in DOMAIN segs =>
        bytes[s] >= MaxSize \/ (MaxMessages > 0 /\ Len(segs[s]) >= MaxMessages)

\* Both: the segments are those of a log that only one writer rotates.
SegmentsSound == SegmentsContiguous /\ SealedAreFull

\* The check of _should_rotate and the write are separate, so writers may
\* overshoot the limit, but by less than the number of writers and only on
\* segments the glob still lists.
SegmentBound ==
    \A s \in Visible :
        MaxMessages > 0 => Len(segs[s]) <= MaxMessages + Cardinality(Writers) - 1

\* A message whose append returned is in the segment its cursor names.
AckedStored ==
    \A c \in acked : c.segment \in DOMAIN segs /\ c.id \in LinesOf(c.segment)

\* A saved cursor names a line of the segment it gives: list_messages drops
\* everything until it meets that line, so a cursor that does not resolve
\* would silence the room for this agent for ever.
CursorResolves ==
    \A a \in Agents :
        cursor[a] # None => /\ cursor[a].segment \in Visible
                            /\ cursor[a].id \in LinesOf(cursor[a].segment)

\* No message is handed to an agent twice.
NoDuplicateDelivery ==
    \A a \in Agents : \A i, j \in 1..Len(inbox[a]) :
        inbox[a][i] = inbox[a][j] => i = j

InLine(q) == {q[i] : i \in 1..Len(q)}

\* The messages up to and including the cursor's, in stream order.
UpTo(c) ==
    (UNION {LinesOf(s) : s \in {t \in DOMAIN segs : t < c.segment}}) \cup
    (LET lines == segs[c.segment]
     IN {lines[i] : i \in {j \in 1..Len(lines) :
                             \A k \in 1..(j - 1) : lines[k] # c.id}})

\* A message the cursor has passed was handed to the agent, or is about to
\* be: polling from the cursor misses nothing.
NoSkip ==
    \A a \in Agents : cursor[a] # None =>
        UpTo(cursor[a]) \subseteq InLine(inbox[a]) \cup
            (UNION {InLine(pgot[p]) : p \in {q \in Pollers :
                                      AgentOf[q] = a /\ ppc[q] = "returning"}})

\* A saved cursor never moves back to a message before it.
CursorMonotone ==
    [][\A a \in Agents :
         cursor[a] # None => cursor'[a] # None /\ UpTo(cursor[a]) \subseteq UpTo(cursor[a])']_vars

\* Every acknowledged message reaches every agent that polls the room.
EventuallyDelivered ==
    \A m \in Messages, p \in Pollers :
        (\E c \in acked : c.id = m) ~> (m \in InLine(inbox[AgentOf[p]]))
=============================================================================
