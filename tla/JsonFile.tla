------------------------------ MODULE JsonFile -------------------------------
(***************************************************************************)
(* One JSON file of the state directory (index, registry, a presence file, *)
(* a cursor file) under the three ways agentroom/core.py touches it:       *)
(*                                                                         *)
(*   locked_json    read, change, truncate and rewrite under an exclusive  *)
(*                  flock (_LockedJson);                                   *)
(*   read_json      read with no lock, the default when nothing parses;    *)
(*   _ensure_json   write the default, with no lock, if the file was       *)
(*                  missing (first step of read_json, and of every         *)
(*                  AgentroomStore that is constructed).                   *)
(*                                                                         *)
(* The document is the set of updates it contains: each writer makes one   *)
(* change, to an entry of its own, and the default document has none.  The *)
(* file is opened for appending by writers: what a writer writes lands at  *)
(* the end of whatever is there.  A document may take more than one        *)
(* write(2) (Python's buffer holds 8 KiB), so it can be seen half written. *)
(* A writer or reader that crashes loses its lock (the kernel drops it).   *)
(***************************************************************************)
EXTENDS Naturals, FiniteSets

CONSTANTS
    Writers,      \* calls of locked_json, one update each
    Readers,      \* threads and processes that read the file again and again
    Fresh,        \* is the file missing at first?
    MaxCrashes,   \* bound: writers and readers that crash
    NoOne         \* nobody holds the lock

ASSUME FreshAssumption == Fresh \in BOOLEAN
ASSUME CrashesAssumption == MaxCrashes \in Nat
ASSUME NoOneAssumption == NoOne \notin Writers

VARIABLES
    form,     \* what the bytes of the file are
    doc,      \* the document, when form = "whole"
    lock,     \* the writer that holds the flock
    wpc,      \* writer -> where it is in locked_json
    data,     \* writer -> the document it read
    done,     \* writers whose locked_json block was left, written and synced
    rpc,      \* reader -> where it is in read_json
    before,   \* reader -> done when its read_json was called
    got,      \* reader -> what its last read_json returned
    crashes

vars == <<form, doc, lock, wpc, data, done, rpc, before, got, crashes>>

Forms == {"absent", "blank", "part", "whole", "garbled"}

Init ==
    /\ form = IF Fresh THEN "absent" ELSE "whole"
    /\ doc = {} /\ lock = NoOne /\ done = {} /\ crashes = 0
    /\ wpc = [w \in Writers |-> "idle"]
    /\ data = [w \in Writers |-> {}]
    /\ rpc = [r \in Readers |-> "idle"]
    /\ before = [r \in Readers |-> {}]
    /\ got = [r \in Readers |-> {}]

-----------------------------------------------------------------------------
(* _LockedJson.                                                            *)

\* open("a+") creates the file, and leaves what is there.
Open(w) ==
    /\ wpc[w] = "idle"
    /\ form' = IF form = "absent" THEN "blank" ELSE form
    /\ wpc' = [wpc EXCEPT ![w] = "opened"]
    /\ UNCHANGED <<doc, lock, data, done, rpc, before, got, crashes>>

\* Slip: the file is read before the lock is held.
EnterUnlocked(w) ==
    /\ wpc[w] = "opened" /\ form \in {"whole", "blank"}
    /\ lock' = w
    /\ data' = [data EXCEPT ![w] = doc]
    /\ wpc' = [wpc EXCEPT ![w] = "entered"]
    /\ UNCHANGED <<form, doc, done, rpc, before, got, crashes>>

\* flock(LOCK_EX), read and parse: a blank file is the default document,
\* json.loads raises on anything else that is not whole.
Enter(w) ==
    /\ wpc[w] = "opened" /\ lock = NoOne
    /\ IF form \in {"whole", "blank"}
       THEN /\ lock' = w
            /\ data' = [data EXCEPT ![w] = doc]
            /\ wpc' = [wpc EXCEPT ![w] = "entered"]
       ELSE /\ wpc' = [wpc EXCEPT ![w] = "failed"]
            /\ UNCHANGED <<lock, data>>
    /\ UNCHANGED <<form, doc, done, rpc, before, got, crashes>>

\* Slip: an exception leaves the file locked.
AbandonLocked(w) ==
    /\ wpc[w] = "entered"
    /\ wpc' = [wpc EXCEPT ![w] = "failed"]
    /\ UNCHANGED <<form, doc, lock, data, done, rpc, before, got, crashes>>

\* The body of the with statement raised: nothing is written.
Abandon(w) ==
    /\ wpc[w] = "entered"
    /\ lock' = NoOne
    /\ wpc' = [wpc EXCEPT ![w] = "failed"]
    /\ UNCHANGED <<form, doc, data, done, rpc, before, got, crashes>>

\* seek(0), truncate().
Truncate(w) ==
    /\ wpc[w] = "entered"
    /\ form' = "blank" /\ doc' = {}
    /\ wpc' = [wpc EXCEPT ![w] = "truncated"]
    /\ UNCHANGED <<lock, data, done, rpc, before, got, crashes>>

\* The first part of json.dump reaches the file.
Dump(w) ==
    /\ wpc[w] = "truncated"
    /\ form' = IF form = "blank" THEN "part" ELSE "garbled"
    /\ doc' = {}
    /\ wpc' = [wpc EXCEPT ![w] = "dumping"]
    /\ UNCHANGED <<lock, data, done, rpc, before, got, crashes>>

\* The rest of it and flush: readers see it, whatever becomes of the writer.
Flush(w) ==
    /\ wpc[w] = "dumping"
    /\ IF form = "part"
       THEN form' = "whole" /\ doc' = data[w] \cup {w}
       ELSE form' = "garbled" /\ doc' = {}
    /\ wpc' = [wpc EXCEPT ![w] = "flushed"]
    /\ UNCHANGED <<lock, data, done, rpc, before, got, crashes>>

\* fsync, unlock, close: the block is left.
Exit(w) ==
    /\ wpc[w] = "flushed"
    /\ lock' = NoOne
    /\ done' = done \cup {w}
    /\ wpc' = [wpc EXCEPT ![w] = "done"]
    /\ UNCHANGED <<form, doc, data, rpc, before, got, crashes>>

CrashWriter(w) ==
    /\ wpc[w] \notin {"idle", "done", "failed"} /\ crashes < MaxCrashes
    /\ crashes' = crashes + 1
    /\ lock' = IF lock = w THEN NoOne ELSE lock
    /\ wpc' = [wpc EXCEPT ![w] = "failed"]
    /\ UNCHANGED <<form, doc, data, done, rpc, before, got>>

-----------------------------------------------------------------------------
(* read_json and _ensure_json.                                             *)

\* path.exists().
Exists(r) ==
    /\ rpc[r] = "idle"
    /\ before' = [before EXCEPT ![r] = done]
    /\ rpc' = [rpc EXCEPT ![r] = IF form = "absent" THEN "missing" ELSE "found"]
    /\ UNCHANGED <<form, doc, lock, wpc, data, done, got, crashes>>

\* write_text opens the file for writing, which empties it.
EnsureOpen(r) ==
    /\ rpc[r] = "missing"
    /\ form' = "blank" /\ doc' = {}
    /\ rpc' = [rpc EXCEPT ![r] = "ensuring"]
    /\ UNCHANGED <<lock, wpc, data, done, before, got, crashes>>

\* It writes the default from the start of the file, over what others wrote
\* in the meantime, which is longer and shows behind it.
EnsureWrite(r) ==
    /\ rpc[r] = "ensuring"
    /\ form' = IF form = "blank" \/ (form = "whole" /\ doc = {})
               THEN "whole" ELSE "garbled"
    /\ doc' = {}
    /\ rpc' = [rpc EXCEPT ![r] = "found"]
    /\ UNCHANGED <<lock, wpc, data, done, before, got, crashes>>

\* json.load, the default on JSONDecodeError.
Read(r) ==
    /\ rpc[r] = "found"
    /\ got' = [got EXCEPT ![r] = IF form = "whole" THEN doc ELSE {}]
    /\ rpc' = [rpc EXCEPT ![r] = "returned"]
    /\ UNCHANGED <<form, doc, lock, wpc, data, done, before, crashes>>

\* The caller goes on, and may call read_json again.
Resume(r) ==
    /\ rpc[r] = "returned"
    /\ rpc' = [rpc EXCEPT ![r] = "idle"]
    /\ UNCHANGED <<form, doc, lock, wpc, data, done, before, got, crashes>>

CrashReader(r) ==
    /\ rpc[r] # "idle" /\ crashes < MaxCrashes
    /\ crashes' = crashes + 1
    /\ rpc' = [rpc EXCEPT ![r] = "idle"]
    /\ UNCHANGED <<form, doc, lock, wpc, data, done, before, got>>

-----------------------------------------------------------------------------
WriterStep(w) ==
    \/ Open(w)
    \/ Enter(w)
    \/ Abandon(w)
    \/ Truncate(w)
    \/ Dump(w)
    \/ Flush(w)
    \/ Exit(w)

ReaderStep(r) ==
    \/ Exists(r)
    \/ EnsureOpen(r)
    \/ EnsureWrite(r)
    \/ Read(r)
    \/ Resume(r)

Next ==
    \/ \E w \in Writers : WriterStep(w) \/ CrashWriter(w)
    \/ \E r \in Readers : ReaderStep(r) \/ CrashReader(r)

Spec == Init /\ [][Next]_vars

\* A call that was made runs on; the lock goes to whoever waits for it alone.
FairSpec == Spec /\ \A w \in Writers : WF_vars(WriterStep(w))

-----------------------------------------------------------------------------
(* Properties.                                                             *)

TypeOK ==
    /\ form \in Forms /\ doc \subseteq Writers
    /\ form # "whole" => doc = {}
    /\ lock \in Writers \cup {NoOne}
    /\ lock # NoOne => wpc[lock] \in {"entered", "truncated", "dumping", "flushed"}
    /\ done \subseteq Writers
    /\ wpc \in [Writers -> {"idle", "opened", "entered", "truncated", "dumping",
                            "flushed", "done", "failed"}]
    /\ data \in [Writers -> SUBSET Writers]
    /\ rpc \in [Readers -> {"idle", "missing", "ensuring", "found", "returned"}]
    /\ before \in [Readers -> SUBSET Writers] /\ got \in [Readers -> SUBSET Writers]
    /\ crashes \in Nat

Inside(w) == wpc[w] \in {"entered", "truncated", "dumping", "flushed"}

\* At most one writer is between reading the file and having rewritten it.
MutualExclusion == \A v, w \in Writers : Inside(v) /\ Inside(w) => v = w

\* The document of the file, or, while it is being rewritten, the one the
\* writer read from it.
Document ==
    IF lock # NoOne /\ wpc[lock] \in {"truncated", "dumping"}
    THEN data[lock] ELSE doc

\* An update whose block was left is not lost to a later writer, a reader or
\* a starting process.
NoLostUpdate == done \subseteq Document

\* The file is only ever unparsable while its writer rewrites it: no one who
\* comes to an unlocked file finds it half written, or garbled.
NeverBroken ==
    form \in {"part", "garbled"} => lock # NoOne /\ wpc[lock] = "dumping"

\* What is left of the document: the file's, or, until the flush, what its
\* writer read from it, as long as the writer's part of it can still be completed.
Kept ==
    IF /\ lock # NoOne
       /\ \/ wpc[lock] = "truncated" /\ form = "blank"
          \/ wpc[lock] = "dumping" /\ form = "part"
    THEN data[lock] ELSE doc

\* A writer crashes between its truncate and its flush.
CutOff ==
    \E w \in Writers : wpc[w] \in {"truncated", "dumping"} /\ wpc'[w] = "failed"

\* A caller that saw no file writes the default.
Defaulted ==
    \E r \in Readers : rpc[r] \in {"missing", "ensuring"} /\ rpc'[r] # rpc[r]

\* An update is flushed, or back in the hands of a writer that had read it.
Flushed(w) == wpc[w] = "dumping" /\ wpc'[w] = "flushed"
Restored(w) == \E v \in Writers : wpc'[v] = "truncated" /\ w \in data[v]

\* From any start, with any crashes: updates are lost by nothing but a crash of
\* the writer between its truncate and its flush, or the default that a caller
\* writes unlocked because it saw no file; and an update appears by nothing but
\* the flush of its own writer, never by one whose block raised, or is there
\* again because the writer at work had read it before such a default.
ChangesKnown ==
    [][/\ Kept \subseteq Kept' \/ CutOff \/ Defaulted
       /\ \A w \in Kept' \ Kept : Flushed(w) \/ Restored(w)]_vars

\* On an initialised file and without crashes, the file is an atomic document
\* for its writers, although its readers take no lock.
Atomic == INSTANCE AtomicDoc WITH doc <- Document
ImplementsAtomic == Atomic!Spec

\* A reader gets every update that was complete when it called read_json, or
\* the default: it never gets an older document.
ReadsCurrent ==
    \A r \in Readers :
        rpc[r] = "returned" => before[r] \subseteq got[r] \/ got[r] = {}

\* A writer that opened the file gets through, or fails: none waits for ever.
EveryUpdateEnds ==
    \A w \in Writers : (wpc[w] = "opened") ~> (wpc[w] \in {"done", "failed"})
=============================================================================
