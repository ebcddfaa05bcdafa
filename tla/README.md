# Agentroom: TLA+ models and proofs

Agentroom is a file-backed room server for agents: rooms are append-only JSONL
streams, agents post to them, poll them with cursors, or are called through
webhooks by a central node.  Everything is shared through files by the threads
of an HTTP server (`agentroom/server.py`), its event loop, and any number of
`agentctl` processes (`agentroom/cli.py`).  No lock is held over more than one
file access.  These modules model what the program does to that shared state,
check it with TLC on small instances, and prove the invariants that matter
most with TLAPS for all values of the constants.

File and line references are to `src/`; `core.py` and so on stand for
`agentroom/core.py`.

## 1. Inventory

| Component | State | Operations | Hard behaviour | What makes it correct |
|---|---|---|---|---|
| Room log, `core.py` 45-147 | segment files per room, sizes | `append_message`, `list_messages`, `list_unread`, `save_cursor`, `load_cursor` | writers race for the rotation; polls race writers and other polls; torn lines; crash between two accesses | acknowledged messages are stored and listed, segments in order and bounded, polls give every message once, cursors resolve and only advance |
| JSON documents, `core.py` 154-197 | `index.json`, `registry.json`, one file per agent in `presence/` and `cursors/` | `locked_json`, `read_json`, `_ensure_json` | rewrite in place, unlocked reads, unlocked first write, crash while truncated | locked updates exclude each other, none is lost, the file is whole whenever it is unlocked |
| Lifecycle, `lifecycle.py` | the index, the registry, presence files, room logs, `archive/` | create, archive, register, heartbeat, join, leave, post | every operation is several accesses of several files; check-then-act; crash or exception half way | as long as the index is not lost, a room is announced and archived once and archived rooms take few late posts; members are known, copies are made |
| Webhooks, `delivery/webhook.py`, `_http.py` | tasks on the event loop | `dispatch_after_append`, `fan_out` | tasks of one loop interleave at awaits; the registry and the presence files change between its reads; a POST may end late or fail | every subscriber gets the message, a DLQ entry or, if the queue refuses its id, one POST, and nobody else gets it |
| Dead-letter queue, `delivery/dlq.py` | `dlq/<agent>/<message>.json`, gauge | `enqueue_dlq`, `retry_dlq`, `retry_loop` | a pass works on a list read before its awaits; refused ids; marking an agent that is not registered; crash of the server | retries are counted, none dropped early, the loop goes on whatever a pass raises |
| HTTP server, `server.py` | threads, one event loop | handlers, hand-over of the dispatch to the loop | fire-and-forget dispatch | as above |
| Command line, `cli.py` | none of its own | all lifecycle operations, `room watch`, the adapter runner (`agent run`) | the runner marks a batch as read before it processes it; restarts; the room archived while a model works | as long as its files are whole, no record is answered twice and no agent posts unannounced; late answers bounded, the loop keeps up |
| Adapters, `adapters/` | session cache, semaphore | `get_or_create`, `execute`, `process` | eviction of a full cache, expiry, a factory that raises | the cache stays bounded and keeps the sessions used recently |
| Metrics, `observability/metrics.py` | counters, gauges, histograms | `inc`, `set`, `observe`, `collect` | `collect` takes no lock; `x += y` is a load and a store | nothing is lost, and a page makes sense as a histogram |
| Schemas, `schemas.py` | none | validation | an exception after a change | a refused envelope leaves nothing behind |
| Poller, `delivery/poller.py` | none | `poll_unread` | as `list_unread` | as `list_unread` |
| Review script, showcase, protocol documents, CI | none | | | not part of the running system |

How they interact: the server's handlers and the command line call the
lifecycle, which changes JSON documents and appends to the room log.  After an
append the server's handler schedules a dispatch on the event loop, which reads
the registry and presence documents, posts to subscribers and enqueues what
failed.  The retry loop runs on the same event loop, and marks an agent through
the lifecycle's `heartbeat`.  Agents without webhooks poll the room log and
keep their place in a cursor document.  The hazards that follow from this are
listed in `PROJECT.json`, each at its line.

## 2. Modules

| Module | Models | Composes |
|---|---|---|
| `RoomLog` | one room's segments, its writers, pollers and cursor files | |
| `RoomStream` | abstract: one stream, each agent is handed a beginning of it | |
| `RoomLogStream` | the refinement mapping from `RoomLog` to `RoomStream` | `RoomLog`, `RoomStream` |
| `MCRoomLog` | values of the constants for TLC | `RoomLogStream` |
| `RoomLogProofs` | ten theorems | `RoomLogStream` |
| `JsonFile` | one JSON document, its lock, writers and readers | `AtomicDoc` |
| `AtomicDoc` | abstract: a document that grows by atomic updates | |
| `JsonFileProofs` | seven theorems | `JsonFile` |
| `Delivery`, `MCDelivery` | dispatch, fan-out, dead-letter queue, retry loop | |
| `DeliveryProofs` | five theorems | `Delivery` |
| `Lifecycle` | clients running lifecycle operations on shared files | |
| `LifecycleProofs` | five theorems | `Lifecycle` |
| `RoomPush`, `MCRoomPush` | those clients, and the event loop that decides whom a post reaches | `Lifecycle` |
| `RoomPushProofs` | two theorems | `RoomPush`, `LifecycleProofs` |
| `AdapterRunner` | processes of `agentctl agent run` in one room | |
| `AdapterRunnerProofs` | four theorems | `AdapterRunner` |
| `SessionCache` | the adapters' session cache | |
| `SessionCacheProofs` | two theorems | `SessionCache` |
| `Metrics` | a histogram and a counter under threads that change and collect them | |
| `MetricsProofs` | three theorems | `Metrics` |

The modules are layers.  `JsonFile` and `RoomLog` take single file accesses
apart.  `Lifecycle`, `RoomPush`, `Delivery` and `AdapterRunner` use what they
establish: in them, a locked rewrite of a document is one step, an unlocked
read returns the document or, while another client rewrites it, the default
(`AtomicDoc`), and an append is one step.  A crash in a rewrite, which empties
the file before it writes, leaves the document empty or unparsable in them too:
`JsonFile!CrashWriter` after `Truncate` or `Dump`.

Definitions whose comment begins with "Slip" are variants of the definition
after them, as a plausible mistake in the code would have it.  They are not
part of a specification: each of the properties below is violated when its
slip takes the place of the definition, and `PROJECT.json` lists which
("mutants").

### RoomLog

`segs` and `bytes` are the segment files; `cursor` and `lock` the room's entry
in each agent's cursor file and the lock of that file.  `append_message` is
`Locate` (the glob in `active_segment`), `Choose` (touch, `_should_rotate`,
touch of the next segment), `Write` (the locked write) and `Ack` (return of the
cursor).  `list_unread(mark_read=True)` is `LoadCursor`, `Glob`, one
`ReadSegment` for each listed segment, `ReturnEmpty` or `Mark` (second scan, by
`_segment_for_message`), `SaveBegin` and `SaveEnd` (`save_cursor`), `Return`.
`Choose` may be one step because a segment that must rotate stays so, and
because touching an existing file changes nothing.  `Kept`, `ShouldRotate`,
`Written` and `IsSegmentOf` are the computations.  Other rooms of the agent
rewrite the same cursor file (`SaveElsewhereBegin`/`End`).  `TearWrite` leaves
a line cut short: `Written` gives what a later append makes of it.

### JsonFile

`form` is what the bytes of the file are (absent, blank, part of a document,
whole, garbled), `doc` the document when it is whole.  `_LockedJson` is `Open`,
`Enter`, then `Abandon` (the block raised) or `Truncate`, `Dump`, `Flush`,
`Exit`: from `Flush` on readers see the update, and only `Exit` (fsync, unlock,
close) makes the writer one that is `done`, so a crash between the two leaves
the update of a writer that never got to the end.
`read_json` is `Exists`, `EnsureOpen`, `EnsureWrite` (the file was missing),
`Read`.  A document larger than Python's buffer takes several writes, so `Dump`
is a step of its own.

### Delivery

Everything runs on one event loop, so an action is what runs between two
awaits.  `queued`, `waiting`, `posting` are tasks of the loop; `dlq` the files.
`Dispatch` reads subscribers, `StartPost` takes a permit of the fan-out's
semaphore, `PostOk`/`PostFail` are the outcomes, `late` being a receiver that
took the message although the POST failed.  For an agent in `Queueless`
`enqueue_dlq` raises, and a failed POST leaves no entry.  `Scan`, `RetryStart`,
`RetryOk`, `RetryFail`, `GiveUp`, `MarkUnhealthy`, `EndPass` are `retry_dlq` and
`retry_loop`.  `MarkUnhealthy` is `heartbeat`: it raises if the agent is not
registered, which ends the pass, and the loop sleeps.  `Crash` loses the tasks
and the gauge, and may leave an entry that does not parse, or the registry
empty; `LoseRegistry` is another process that stops in a change of the registry,
and `Register` an agent that comes back after it.  History variables
(`targeted`, `received`, `posts`, `givenup`, `forgot`, `slept`) only serve the
properties.

### Lifecycle

Each client has one operation (`op`) and a place in it (`pc`): `index` (locked
change of `index.json`), `check` (`_assert_room_active` or `_exists`), `lookup`
(`join_room`'s read of the registry), `registry` (locked change), `reset` (the
presence file after `register_agent`), `presence` (`_save_presence`), `append`,
`copy` (`_compress_room_segments`).  One action per access.  A room's log is
one sequence here and its compressed copy the number of lines in it.  An entry
of the registry is a status (`registry`) and a webhook (`hook`), which only
`register` sets.  `Calls` are the operations clients make: `AllCalls`, or fewer
in a run that is about some of them.  `Crash` may leave the file that the client
was changing cut off: `CutIndex`, `CutRegistry` and `CutPresence` make it empty,
or unparsable (`broken`, `garbled`), and then every locked change of it raises
(`Refuse`, `RefuseAgent`) and every read gets the default.  `CutCopy` leaves
the copy a part of itself, which no later archiving replaces.  `cuts` counts the
crashes that took the index or the registry, for the properties.

### RoomPush

`Lifecycle`'s actions are the clients'; this module adds the event loop and what
it makes of them.  `ClientStep` is a step of a client, and when a thread of the
server appends a message by `POST /rooms/:id/messages` it also hands the message
to the loop (`_dispatch_webhooks`, `queued`).  `ReadRegistry` starts a dispatch
(`get_subscribers_for_room`: the registry, once), `ReadPresence` reads one
presence file, and no other task of the loop runs between them, as there is no
await (`LoopFree`); clients do.  `Deliver` is a POST of the fan-out and the entry
it leaves if it failed, `Retry` one of the retry loop, whose target is looked up
anew.  `RetryLast` is the last one: the loop itself becomes a client of
`Lifecycle` and calls `heartbeat`.  What `Delivery` has of permits, attempts and
crashes is left out here, and what is here of members and webhooks is left out
there.  The histories `steady`, `had`, `been` and `blind` only serve the two
properties.

### AdapterRunner

`pc` is where each agent's process is in `_run_adapter`: `Start` (with a role
from the command line that may be one no envelope may have, `refused`; is the
agent registered?), `Register` and `Reset` (`register_agent`), `CheckPresence`
(is the room in its presence file?), `Join` and `Announce` (`join_room`), then
the loop: `Poll` (`list_unread` with mark_read), `Process` (the adapter: an
answer, none, or an exception), `CheckActive` and `Post` (`post_text`).
`Announce` may be refused after the presence file was changed; `unsaid` are the
agents to which that, or a crash, happened between the two.  `Crash` ends a
process anywhere and may leave the file it was changing empty; `OtherCrash` is
another program that does so, and `Start` may start a process again.
`SharedCursors` are the agents whose cursor file other rooms rewrite: a poll of
theirs may read the default (`ReadCursor`).  `resets` counts, for each agent,
the cursors lost and the polls that overlooked one.  `ClientPost`, `Archive` and
`ArchiveRecord` are the rest of the room.  The log, the registry and the
presence files are abstract: a poll or an append is one step, an unlocked read
may get the default.  The
record of an answer keeps the records it answers (`answers`), a history of what
was in the batch.  `Process` is the adapter's `process`: `Answer`, `NoAnswer`
(the model fails, times out or says nothing, or no prompt is made of the batch)
or `PromptRaises`.  The pool of `execute` holds one call at a time, so it is no
state here.

### SessionCache

`ModelCache` of `adapters/base.py`.  `cache` has the two times of a session,
`clock` moves between calls: two calls with the same `time.time()` are left out,
and then the session that `_evict_lru` takes may be the later of two.  `Hit` finds a session, `Create` makes one, and
`CreateFails` is a factory that raises; both may evict one before (`Evicted`).
The three adapters hold such a cache and do not ask it yet: what is checked is
what it promises to a caller.

### Metrics

The threads that handle posts (`EndPost`, `Acquire`, `Load`, `Store`: the timer
ends, then `observe`, then, if the append succeeded, `inc`) and those that answer
`GET /metrics` (`BeginPage`, `ReadLine`).  `x += y` is a load and a store under
the metric's lock, and `collect` reads one number a step without it.  A post's
duration is the bucket it falls into.  `begun` and `handled` are the pages that
would show all posts that ended their append, and all that were counted;
`floor` is `handled` when a scrape began.

## 3. Runs

A run named here uses the `.cfg` of the same name.  Passing runs:

| Run | Bounds | Shows |
|---|---|---|
| `log_races` | 2 writers, 1 poller, 3 messages, 1 per segment, only 2 segments listed, cursor file shared with another room, torn writes, 1 crash | `TypeOK`, `SegmentsSound`, `SegmentBound`, `CursorResolves` |
| `log_poll` | 2 writers, 1 poller, 3 messages, 1 per segment | `AckedStored`, `NoDuplicateDelivery`, `CursorMonotone` |
| `log_stream` | 1 writer, 2 agents, 3 messages (one fills a segment by its size), 2 per segment | `ImplementsStream`, `EventuallyDelivered` |
| `json_steady` | 3 writers, 2 readers, file there, no crash | `TypeOK`, `NoLostUpdate`, `ReadsCurrent`, `ImplementsAtomic` |
| `json_fresh` | 3 writers, 1 reader, file missing, 2 crashes | `ChangesKnown`, `EveryUpdateEnds` |
| `dlv_retry` | 3 subscribers, one of them refused by the queue, 1 message, 1 permit, 2 retries, heartbeats, torn reads, 1 crash of the server or of a process at the registry | `TypeOK`, `NothingForgotten`, `DepthIsEntries`, `RetriesCounted`, `OneOwner`, `EveryDeliverySettles`, `LoopGoesOn` |
| `run_adapter` | 2 agents, one with a cursor file for several rooms, 2 starts, posts up to 4 records, torn reads, 1 crash that may empty a file, 1 lost or overlooked cursor for each agent by polls | `TypeOK`, `AnsweredOnce`, `JoinedFirst`, `LateAnswerBounded`, `EveryRecordRead` |
| `life_clients` | 2 clients, 5 operations, 1 room, 1 agent, 1 webhook, torn reads, 1 crash that may cut off a file | `TypeOK`, `AnnouncedOnce`, `LatePostsBounded`, `MembersKnown`, `CopyHasMarker`, `EveryArchiveCopied` |
| `push_members` | 1 thread of the server, 1 other client, the event loop; a poster and a member with a webhook; 4 operations among post, join, leave, two heartbeats, register without and with another webhook; torn reads | `EveryMemberTold`, `SentWhereRegistered` |
| `metrics_scrape` | 2 handlers, 1 scraper, 2 buckets, 3 posts, 2 scrapes | `TypeOK`, `PageConsistent`, `PageBetween` |
| `cache_lru` | 4 keys, 3 sessions, expiry after 3, pauses of 1 or 2, time up to 9 | `TypeOK`, `RecentlyUsedKept` |

Two writers and three messages suffice for the races of the log: what goes wrong
needs one actor that stopped between two accesses, one that went on, and one
segment boundary between them.  With one message to a segment every append meets
the boundary; `log_stream` uses two so that a segment is also met half full, and
a heavy message that fills one by its size.  `MaxInbox` stops a poller that was
handed more messages than there are (only duplicates do that). Two clients
suffice in `Lifecycle` because an operation meets another one between two of its
accesses; five operations let a room be created, joined, archived, archived
again and posted to.  `push_members` starts where a member with a webhook is in
the room, so that its four operations are a post and three others that meet its
dispatch and its retries; one of two clients is a process of the command line,
whose posts are not dispatched.  Two handlers are what a lost update needs in
`metrics_scrape`, a third post lets one of them meet a page that is half read,
and a second scrape starts in the middle of a change.  In `cache_lru` there is
one key more than there is room for, and the time is enough for each of them to
expire and be used again.  Two agents answer each other in `run_adapter`, and
two starts let both run, or one be started again after an exception, a refused
role or a crash; `MaxResets` bounds the polls that overlook a cursor, as each
may have everything answered again, and `MaxLog` ends a conversation of agents that would go on for ever, as
their own answers are unread messages to them.  The proofs remove the bounds for
the safety properties of section 5.

In `dlv_retry` one permit makes the fan-out's tasks wait for each other, and of
the two agents the queue takes one may be exhausted while the other waits in the
same pass, with the registry gone.

Properties that a crash breaks say so, and as narrowly as the code allows.
`DepthIsEntries`, `CopyHasMarker` and `EveryArchiveCopied` are about behaviours
until the first crash; `LatePostsBounded` until one takes the index.  The others
count or name what crashes cost: `NothingForgotten` and `EveryDeliverySettles`
the deliveries found in memory (`forgot`), `AnnouncedOnce` and `MembersKnown` the
files cut off (`cuts`), `AnsweredOnce` the cursors lost or overlooked (`resets`),
`JoinedFirst` the joins that ended half way (`unsaid`), `ChangesKnown` the
rewrites cut off.

One run refutes a sentence of the documentation; the quotation is in
`PROJECT.json` under "findings".

| Run | Property | What happens |
|---|---|---|
| `log_late_write` | `NoSkip` | a writer that chose its segment before a rotation writes behind a poller's cursor: the message is never listed |

Most of the passing properties have the condition of the matching refutation as
their boundary: with one writer at a time `NoSkip` is proved (section 5), and with two
it fails; `NoDuplicateDelivery` holds when no
other room shares the cursor file; `NoLostUpdate` on an initialised file.  More
boundaries can be found by changing one constant of a run, and TLC then refutes
the property:

| Run | Change | Property | What happens |
|---|---|---|---|
| `log_poll` | `SharedCursors = {a1}` | `NoDuplicateDelivery` | a poll reads the cursor file while a poll of another room rewrites it, and starts from the beginning (`core.py` 121; `tests/test_e2e_localhost.py` 192 has a second poll return nothing) |
| `dlv_retry` | `MaxRetries = 4`, `MaxSlept = 3`, `BackoffKept` as a property | `BackoffKept` | an entry is retried at every pass, whatever its delay (`dlq.py` 150; `README.md` 25 promises exponential backoff) |
| `dlv_retry` | `FinalRetry` as an invariant | `FinalRetry` | a delivery is posted `1 + MAX_RETRIES` times: an entry whose attempts reach `MAX_RETRIES` is posted once more before it is dropped (`dlq.py` 131, 137), where `doc/agentroom_implementation_architecture.md` 189-207 has attempt 3 as the final retry and drops such an entry without a POST, and `RETRY_DELAYS` has three (`dlq.py` 18).  `RetriesCounted` states the code's count |
| `run_adapter` | `AnsweredOnce` without `resets` | `AnsweredOnce` | a cursor file that a crash emptied, or that a poll reads while a poll of another room rewrites it, has the agent answer the whole log again (`core.py` 121, 191) |
| `life_clients` | `MembersKnown`, `AnnouncedOnce` or, with `MaxOps = 6`, `LatePostsBounded` without `cuts` | the same | a client that stops between truncate and flush leaves the index or the registry empty (`core.py` 191): members nobody knows, a room created again over its log, posts long after its archiving |
| `life_clients` | `<= 0` for `< Cardinality(Clients)` in `LatePostsBounded` | `LatePostsBounded` | a post checked before the archiving lands after its record (`lifecycle.py` 180; `doc/agentsroom.md` 28 has the room locked): the bound of one per other client is what is left |
| `push_members` | `EveryMemberTold` without `\ blind` | `EveryMemberTold` | any heartbeat that rewrites the registry while a dispatch reads it loses the push for every subscriber (`webhook.py` 108, `core.py` 162) |
| `cache_lru` | `MaxSessions - 1` for `MaxSessions - 2` | `RecentlyUsedKept` | a full cache makes room for a key that is there but expired, or whose factory then raises (`base.py` 38) |
| `log_stream` | `MaxCrashes = 1`, `NoSkip` as an invariant | `NoSkip` | `list_unread` saves the cursor before it returns; a crash in between loses the messages (`core.py` 129) |
| `log_poll` | `TornWrites = TRUE`, `MaxCrashes = 1` | `AckedStored` | an append after a torn line joins it, is acknowledged, and does not parse (`core.py` 80) |
| `log_poll` | two pollers of one agent (`AgentOf <- SameAgent`) | `CursorMonotone` | the slower of two overlapping polls puts the cursor back (`core.py` 126) |
| `json_fresh` | `MaxCrashes = 0`, `NoLostUpdate` as an invariant | `NoLostUpdate` | a process that found the file missing writes the default over an update made since: test and write are not under the lock (`core.py` 156) |
| `json_steady` | `MaxCrashes = 1` | `NoLostUpdate` | a crash in a rewrite leaves nothing of the document (`core.py` 191) |

Other deviations met while modelling, which the modules show in their actions:

- `room_segments` matches four digits only (`core.py` 56): segment 10000 is
  written and never listed.  `GlobLimit` is that limit.
- A segment is not sealed by its successor: a writer that chose it still
  appends (`core.py` 78), where `doc/agentroom_implementation_architecture.md`
  106 has it marked read-only.
- An unlocked read that meets a rewrite returns the default (`core.py` 162);
  `doc/agentsroom.md` 93 speaks of locks and atomic writes.  `ReadsCurrent`
  allows exactly that.
- A crash between an append and the first failure of its POST forgets the
  delivery (`server.py` 206), and a restart sets `dlq_depth` to zero while the
  entries are still on disk (`dlq.py` 49).
- The dispatch ignores a message's `to` (`webhook.py` 111; architecture 367).
- `create_room` changes the index before it appends `room.created`
  (`lifecycle.py` 45): a post can come first.
- `archive_room` returns at once if the index says archived (`lifecycle.py`
  71): after a crash the record and the copy are never made.
- `register_agent` saves the rooms of the registry entry, which has none
  (`lifecycle.py` 109): an agent that registers again is in no room.
- `join_room` replaces a registration by one without a webhook when it read the
  registry torn or too early (`lifecycle.py` 142).
- The adapter runner polls with mark_read before it processes (`cli.py` 231): a
  batch whose processing fails is never answered.  Its own answers are unread
  messages to it, and it answers them again.
- A process that ends in `join_room` after it changed the presence file
  (`lifecycle.py` 145), by a crash or because `create_envelope` refuses the role
  of its command line, takes itself for joined at its next start, and
  `agent.joined` is never appended: `JoinedFirst` leaves these agents out.
- `enqueue_dlq` raises for the ids `.` and `..` (`dlq.py` 23), which registering
  and joining allow: a failed POST to such an agent is not retried.
  `tests/test_agentroom.py` 155 asserts the refusal, not this effect of it.
- `mark_unhealthy` raises for an agent that is not in the registry
  (`lifecycle.py` 131): the rest of the pass waits for the next one (`dlq.py`
  175).
- Of the states a crash in its rewrite can leave a JSON file in, the empty one
  reads as the default, to locked writers too; one with a part of the document
  reads as the default, and every locked change of it raises from then on.
  An index lost in this way lets `create_room` create a room over the log it has
  (`lifecycle.py` 28), and one that was archived is active again.
- `_run_adapter` looks for a presence file named by the agent's id (`cli.py`
  217) where `_save_presence` quotes the id: an id with special characters joins
  at each start.
- Only `POST /rooms/:id/messages` dispatches (`server.py` 156): posts from the
  command line and the records of joining, leaving and archiving reach no
  webhook.
- A dispatch reads the registry before the presence files, so a message may go
  to a webhook of an agent that was never at once a member and registered with
  it; `SentWhereRegistered` says that it was each at some time since the post.
- On a page of metrics `+Inf` and `_count` come from two reads of the total
  (`metrics.py` 119, 120) and may differ.
- A client that stops while it writes the compressed copy leaves a part of it,
  which `_compress_room_segments` takes for the copy ever after
  (`lifecycle.py` 279): `CopyHasMarker` holds until a crash.
- A factory that raises has by then cost the cache a session (`base.py` 39).
- `leave_room` sets the presence file to offline and leaves the registry as it
  is (`lifecycle.py` 159; architecture 140).

## 4. Fairness

Liveness is checked only where the code's scheduling gives it.

- `RoomLog!FairSpec`: weak fairness of each poller's steps.  `agentctl room
  watch` and the adapter runner poll in endless loops (`cli.py` 179, 230), and a
  poll waits only for the lock of the cursor file.  Writers have none: nobody
  is obliged to post.
- `JsonFile!FairSpec`: weak fairness of each writer.  Nothing promises that
  `flock` is granted in turn, but each writer makes a bounded number of calls,
  so a waiting one meets a free lock for good.
- `Delivery!FairSpec`: the event loop runs every ready task, and `post_json`
  has a timeout, so each POST ends; which way is left open.  Posts,
  heartbeats and crashes have none.
- `AdapterRunner!FairSpec`: weak fairness of each process's loop.  It is endless,
  and the model's subprocess is killed after a timeout (`codex.py` 86).  Nobody
  is obliged to start or restart a process.
- `Lifecycle!FairSpec`: weak fairness of each client's steps; starting an
  operation has none.

## 5. Proofs

**RoomLogProofs.**  `TypeCorrect` is type correctness.  `Sound` and `Bounded`
follow from one inductive invariant over the segments: the listed
segments are gap-free and full below the last, and the segment a writer located
or chose exists or is the next to be created.  `SegmentBound` alone is not
inductive; its strengthening counts, for each segment that is not over its
limit, the lines plus the writers that have already chosen it (the capacity
invariant): a choice is made below the limit, so lines and choosers together
exceed it by less than the number of writers.  `Stored` assumes that writes are
not torn and carries along that no line is torn, so that `Written` only
appends.  `Resolvable` says that what a poller collected, and later saves, is
in a listed segment, and that a line which is a message stays at its place for
ever, torn writes included.

`NotTwice` and `Monotone` are about what an agent is handed by its polls, and
assume `Undisturbed`: no crash, no torn write, no other room in the cursor file,
one poller for each agent.  The table of section 3 shows that each of the last three
is needed.  The proof is about `Before`, the order
of the lines of the log: a message is in the log once, and what a writer is about
to write is not in it yet (`LinesOnce`), so `Before` is a strict order that
later steps only extend.  A poll starts from the saved cursor, which no one
else moves (`ReadOK`); what it has collected is in that order, after the cursor,
and in segments before those it is still to read (`BatchOK`).  Hence the last
message collected is after the old cursor and all others are before it, so that
what was handed over is behind the cursor (`InboxOK`) and the next poll, which
collects what is after it, collects something else.  A line that is written
behind the cursor meanwhile spoils `NoSkip`, not these two.

`NothingSkipped` and `ImplementsRoom` assume one writer as well (`OneWriter`),
and the run `log_late_write` shows why the latter.  The segment a lone writer
chooses is the last one there is (`EndInv`), so a line that is written goes after
all others, and no step puts one before a line that is there (`AtEnd`).
`StreamInv` says that the stream, the segments flattened, is the lines of the
log in the order of `Before`: `Write` appends to it and nothing else changes it.
`GapFree` is the converse of `InboxOK` and `BatchOK`: whatever the cursor has
passed was handed over (`HandedAll`), and a poll has collected all that is
neither in the segments it is still to read nor behind the cursor (`ReadAll`).
So an inbox leaves out nothing that is before one of its messages, and a
sequence like that is a beginning of the stream (the lemma `Beginning`, by the
least place where they differ).  `Write` maps to `Post`, `Return` to `Poll`, and
all other steps to a stutter; `NoSkip` follows from `GapFree` too.  `FlattenSeq`
is a recursive function, and a proof by induction over its argument is out of
reach: `FlattensExists` shows that the function exists, again by the least
counterexample (`Least`, from the well-foundedness of `<`), and `FlattenGrows`
and `FlattenMore` that one line more at the end of the last sequence, or an
empty one more, has on it the effect it should.

`Found` needs none of these assumptions: the last message a poll collected is in
a listed segment, since it came from one and lines that parse stay, so that the
second scan finds it.  Hence `_segment_for_message` never raises its
`ValueError` (`core.py` 138), and `Mark` leaves out no outcome of the code.  It
is proved only; no run checks it.

**JsonFileProofs.**  `Exclusive` holds from any start and with crashes, as the
holder of the lock is the only writer past `Enter`.  `NothingLost`, `Unbroken`
and `Implements` assume an initialised file and no crash: the invariant relates
`form`, `lock` and the place of the holder (blank after `Truncate`, part of a
document after `Dump`, whole otherwise), and says that what the holder read is
still the document.  With it every step maps to a step of `AtomicDoc` or to a
stutter: `Flush` to `Update`, `Read` to `Read`, all others to none. `Exclusive`
and `Unbroken` are proved only; no run checks them.  `Current` rests on the same
invariant: what was complete when a reader called stays in the document, so a
read gets all of it or meets a rewrite.  `ChangesAccounted` is from any start
and with crashes, an action property: `Kept` is what is left of the document,
also while its holder rewrites it, and each action is compared with it.  The
invariant it needs is small (`KeptInv`): the holder of the lock is the only
writer inside, what it read is all that the file holds, and the file holds
nothing from its truncate to its flush.

**DeliveryProofs.**  `TypeCorrect`; `Owner`, that no delivery is in the hands
of a fan-out and of the retry loop at once; `Forgotten`, that none is in
nobody's, over any number of crashes, but those a crash found in memory
(`forgot`) and those the queue refused (`PostedOnce`, which `Unqueued` keeps out
of the queue and at one POST); `Retries`, that retries are bounded over any number of crashes and
that none is dropped before its last.  None of these is inductive.  The
invariant adds three more parts.  `Placed`: a delivery is somewhere only after its
message was dispatched, which keeps a new dispatch off the old deliveries.
`LoopHolds`: what the retry loop holds (`rtodo`, `rcur`) are entries on disk
that parse, or, after the last retry, deliveries it gave up.  `Counted`: the
attempts on record, plus the POST under way, are at most the POSTs made, and
each crash cuts at most one of them from the record; both bounds follow, as a
delivery is dropped when its record shows the last retry.  `Gauged` is by cardinalities:
until a crash an entry is written where there was none (`OneOwner`), so the
gauge goes up with it, and one is removed that was there (`LoopHolds`).

**AdapterRunnerProofs.**  `TypeCorrect`; `NotTwice`, that an agent answers a
record once, and once more for each time its cursor was lost or overlooked, over
any number of starts and crashes; `Announced`, that no agent posts before its
`agent.joined`, unless one of its joins ended half way.  The first needs
`Counted`: the answers to a record are at most `Due`, which is the resets of the
cursor, one more if the cursor is past the record, one less while the record is
at hand.  A poll that finds the cursor takes records above it, and each becomes
read and at hand at once; one that does not finds `resets` one higher.  The
second needs `JoinsKnown`: an agent that is in its loop, or has the room in its
presence file and is past the announcement, is announced in the log or in
`unsaid`.
`LateOnce` rests on `LateOK`: once the record of the archiving is in the log, no
one gets past the check of `post_text` any more, and an agent that is past it
has not posted since.

**LifecycleProofs.**  One invariant for five theorems, over any clients, rooms,
agents, calls and crashes.  `Places` says which operations a client can be in,
by its place; `JoinsKnown` carries what a client that joins has seen of the room
and of the registry up to the presence file, whence `Members`; both are known
in the sense of `RoomKnown` and `AgentKnown`, which a lost file excuses.
`Balanced` keeps the books of announcements: the records of a creation (or an
archiving) in the log, the clients about to append one, and one if the index
would let another client begin, are together at most one more than the times the
index was cut off.  A change of the index trades the third for the second, an
append the second for the first, and only a cut of the index, which is counted,
opens it again.  `CopiesLater` puts a copy after the record.
`LatePostsBounded` is not inductive; `LateOrInFlight` counts the late records
together with the posts and joins that are past their check: an append turns
one of these into one of those, no check lets anyone through any more, and there
are fewer of them than clients when the record is written, as the archiver is
none of them.

**RoomPushProofs.**  On top of that invariant, for `PSpec`, which starts from
empty files (the run starts later, where a member is in the room).  `Recorded`:
the histories hold the present webhooks and members for every message that is
still to be sent, and what was picked for a message, or sent, is in them; so a
webhook that changes between the two reads of a dispatch is still one the agent
had.  `Reachable`: an agent that could be reached from the post on can be
reached now, and is told, blind, or yet to be looked up by the dispatch.

**SessionCacheProofs.**  `Bounded`, the type invariant with the bound on the
cache, and `Kept`, `RecentlyUsedKept`, for any keys, capacity, expiry and
pauses.  The second counts backwards: no two sessions were used at the same time
(`UsedApart`), what was used after a key is among its `others`
(`NewerAreOthers`), and a key whose session is gone saw at least `MaxSessions - 1`
others (`GoneForOthers`).  The step that matters is the lemma `Eviction`: the
session that goes is the oldest of at least `MaxSessions`, so all the rest were
used after it.  That there is an oldest is the well-foundedness of `<` on the
naturals.

**MetricsProofs.**  `TypeCorrect`, `Consistently` (`PageConsistent`) and
`Complete` (`PageBetween`).  All rest on `HandlerOK`: a handler that is between
its load and its store holds the lock of the metric, what it has left to add to
is the rest of one of two lists, and what it loaded is still the number.  For
`Consistently`: the sum is ahead of the total and the total of the buckets by
what the one observer is about to add (`SumFirst`, `Cumulated`), and the total is
ahead of the messages by the posts yet to be counted (`MessagesTimed`).  The
cumulated buckets are not computed by recursion: the invariant says that there
is a function that starts at 0 and grows by each bucket, and a page that has
been read so far is below it.  For `Complete` the invariant keeps books
(`Books`): each number plus what the handlers owe to it is what all begun posts
add up to, and what the handled posts add up to plus the posts at work is that
too; a sum over the handlers is the size of a set of units (`Amount`).  So each
number is between the two at any time, and what a page shows of it was read at
one.

**Assumptions** are the named `ASSUME`s on the constants; TLC evaluates them in
every run.

**Left to TLC**: liveness, as fairness and ENABLED are out of the prover's reach
(`EventuallyDelivered`, `EveryUpdateEnds`, `EveryDeliverySettles`,
`LoopGoesOn`, `EveryArchiveCopied`, `EveryRecordRead`).  Every other
property of a passing run is stated by a theorem.

## 6. Not modelled, and why

- The field checks of `schemas.py`: pure, with unit tests.  Their one effect on
  state, an exception after an operation has begun, is `Reject`.
- The contents of prompts and replies, HTTP routing and parsing, log lines.
- The language model backends: I/O.
- Gauges that `GET /status` sets from unlocked reads (`server.py` 216): nothing
  depends on them but the next such request.  Labels, and the counters and
  histograms that are used as the two in `Metrics` are.
- A wall clock that is set back (`time.time()` in `base.py` and `dlq.py`).
- `scripts/`, `showcase/`, `agent_protocol/`, CI and container files: not part
  of the running system.
- File systems that reorder or lose synced writes, and NFS locks.

## 7. Plan

Done in this order, the most important first: the room log and its stream, the
JSON documents, the delivery, the lifecycle, the adapter runner, the composition
of lifecycle and dispatch, the session cache, the metrics, and proofs about each
of these, both refinements among them.

Next: a fault in `RoomPush`, where the server restarts between a post and its
dispatch, with the members of section 3 (`Delivery` has the crash, not the
members).
