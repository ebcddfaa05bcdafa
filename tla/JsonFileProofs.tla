--------------------------- MODULE JsonFileProofs ----------------------------
(***************************************************************************)
(* Theorems about JsonFile, for any number of writers and readers.         *)
(***************************************************************************)
EXTENDS JsonFile, TLAPS

\* A writer is inside its locked_json block exactly while it holds the lock.
LockInv == TypeOK /\ \A w \in Writers : Inside(w) <=> lock = w

LEMMA LockInit == Init => LockInv
BY NoOneAssumption, FreshAssumption, CrashesAssumption
   DEF Init, LockInv, TypeOK, Inside, Forms

LEMMA LockStep == LockInv /\ [Next]_vars => LockInv'
<1> SUFFICES ASSUME LockInv, [Next]_vars PROVE LockInv'
  OBVIOUS
<1> USE NoOneAssumption DEF LockInv, TypeOK, Inside, Forms
<1>1. ASSUME NEW w \in Writers, Open(w) PROVE LockInv'
  BY <1>1 DEF Open
<1>2. ASSUME NEW w \in Writers, Enter(w) PROVE LockInv'
  BY <1>2 DEF Enter
<1>3. ASSUME NEW w \in Writers, Abandon(w) PROVE LockInv'
  BY <1>3 DEF Abandon
<1>4. ASSUME NEW w \in Writers, Truncate(w) PROVE LockInv'
  BY <1>4 DEF Truncate
<1>5. ASSUME NEW w \in Writers, Dump(w) PROVE LockInv'
  BY <1>5 DEF Dump
<1>6. ASSUME NEW w \in Writers, Flush(w) \/ Exit(w) PROVE LockInv'
  BY <1>6 DEF Flush, Exit
<1>7. ASSUME NEW w \in Writers, CrashWriter(w) PROVE LockInv'
  BY <1>7 DEF CrashWriter
<1>8. ASSUME NEW r \in Readers, Exists(r) \/ EnsureOpen(r) \/ EnsureWrite(r)
      PROVE  LockInv'
  BY <1>8 DEF Exists, EnsureOpen, EnsureWrite
<1>9. ASSUME NEW r \in Readers, Read(r) \/ Resume(r) \/ CrashReader(r)
      PROVE  LockInv'
  BY <1>9 DEF Read, Resume, CrashReader
<1>10. CASE UNCHANGED vars
  BY <1>10 DEF vars
<1> QED
  BY <1>1, <1>2, <1>3, <1>4, <1>5, <1>6, <1>7, <1>8, <1>9, <1>10
     DEF Next, WriterStep, ReaderStep

LEMMA LockInvariant == Spec => []LockInv
BY LockInit, LockStep, PTL DEF Spec

\* The type invariant of the file, its writers and its readers.
THEOREM TypeCorrect == Spec => []TypeOK
<1>1. LockInv => TypeOK
  BY DEF LockInv
<1> QED
  BY <1>1, LockInvariant, PTL

\* At most one call of locked_json is between its read and the end of its
\* write, whoever crashes and whoever creates the file meanwhile.
THEOREM Exclusive == Spec => []MutualExclusion
<1>1. LockInv => MutualExclusion
  BY DEF LockInv, MutualExclusion
<1> QED
  BY <1>1, LockInvariant, PTL

-----------------------------------------------------------------------------
(* A file that was initialised, in a run without crashes.                  *)

\* The bytes of the file are those the lock holder's progress implies, and
\* the updates that are in the document are those whose block was left, and the
\* one that is flushed and not left yet.
SteadyInv ==
    /\ LockInv
    /\ crashes = 0
    /\ \A r \in Readers : rpc[r] \notin {"missing", "ensuring"}
    /\ lock = NoOne => form = "whole"
    /\ \A w \in Writers :
          /\ wpc[w] = "entered" => form = "whole" /\ data[w] = doc
          /\ wpc[w] = "truncated" => form = "blank"
          /\ wpc[w] = "dumping" => form = "part"
          /\ wpc[w] = "flushed" => form = "whole"
    /\ Document = done \cup {w \in Writers : wpc[w] = "flushed"}
    /\ \A w \in Writers : w \in done => wpc[w] = "done"

LEMMA SteadyInit == ~Fresh /\ Init => SteadyInv
<1> SUFFICES ASSUME ~Fresh, Init PROVE SteadyInv
  OBVIOUS
<1>1. LockInv
  BY LockInit
<1> QED
  BY <1>1 DEF Init, SteadyInv, Document

LEMMA SteadyStep ==
    ASSUME MaxCrashes = 0, SteadyInv, [Next]_vars
    PROVE  SteadyInv' /\ [Atomic!Next]_<<Document, got>>
<1>1. LockInv'
  BY LockStep DEF SteadyInv
<1> DEFINE Goal == SteadyInv' /\ [Atomic!Next]_<<Document, got>>
<1> USE NoOneAssumption DEF SteadyInv, LockInv, TypeOK, Inside, Document
<1>2. ASSUME NEW w \in Writers, Open(w) PROVE Goal
  BY <1>1, <1>2 DEF Open
<1>3. ASSUME NEW w \in Writers, Enter(w) PROVE Goal
  BY <1>1, <1>3 DEF Enter
<1>4. ASSUME NEW w \in Writers, Abandon(w) PROVE Goal
  BY <1>1, <1>4 DEF Abandon
<1>5. ASSUME NEW w \in Writers, Truncate(w) PROVE Goal
  BY <1>1, <1>5 DEF Truncate
<1>6. ASSUME NEW w \in Writers, Dump(w) PROVE Goal
  BY <1>1, <1>6 DEF Dump
<1>7. ASSUME NEW w \in Writers, Flush(w) PROVE Goal
  <2>1. /\ Document = data[w] /\ w \notin Document
        /\ Document' = Document \cup {w} /\ got' = got
    BY <1>1, <1>7 DEF Flush
  <2>2. Atomic!Update(w)
    BY <2>1 DEF Atomic!Update
  <2>3. SteadyInv'
    BY <1>1, <1>7, <2>1 DEF Flush
  <2> QED
    BY <2>2, <2>3 DEF Atomic!Next
<1>14. ASSUME NEW w \in Writers, Exit(w) PROVE Goal
  <2>1. Document' = Document /\ got' = got
    BY <1>1, <1>14 DEF Exit
  <2>2. done' = done \cup {w} /\ {v \in Writers : wpc'[v] = "flushed"} = {}
    BY <1>14 DEF Exit
  <2> QED
    BY <1>1, <1>14, <2>1, <2>2 DEF Exit
<1>8. ASSUME NEW r \in Readers, Exists(r) PROVE Goal
  BY <1>1, <1>8 DEF Exists
<1>9. ASSUME NEW r \in Readers, Read(r) PROVE Goal
  <2>1. /\ form = "whole" => doc = Document
        /\ Document' = Document
    BY <1>1, <1>9 DEF Read
  <2>2. Atomic!Read(r)
    BY <1>9, <2>1 DEF Read, Atomic!Read
  <2>3. SteadyInv'
    BY <1>1, <1>9, <2>1 DEF Read
  <2> QED
    BY <2>2, <2>3 DEF Atomic!Next
<1>10. ASSUME NEW r \in Readers, Resume(r) PROVE Goal
  BY <1>1, <1>10 DEF Resume
<1>11. CASE UNCHANGED vars
  BY <1>1, <1>11 DEF vars
<1>12. \A r \in Readers : ~EnsureOpen(r) /\ ~EnsureWrite(r) /\ ~CrashReader(r)
  BY DEF EnsureOpen, EnsureWrite, CrashReader
<1>13. \A w \in Writers : ~CrashWriter(w)
  BY DEF CrashWriter
<1> QED
  BY <1>2, <1>3, <1>4, <1>5, <1>6, <1>7, <1>8, <1>9, <1>10, <1>11, <1>12, <1>13,
     <1>14 DEF Next, WriterStep, ReaderStep

LEMMA SteadyInvariant == ASSUME ~Fresh, MaxCrashes = 0 PROVE Spec => []SteadyInv
<1>1. SteadyInv /\ [Next]_vars => SteadyInv'
  BY SteadyStep
<1> QED
  BY <1>1, SteadyInit, PTL DEF Spec

\* On an initialised file, in a run without crashes, no update is lost.
THEOREM NothingLost ==
    ASSUME ~Fresh, MaxCrashes = 0 PROVE Spec => []NoLostUpdate
<1>1. SteadyInv => NoLostUpdate
  BY DEF SteadyInv, NoLostUpdate
<1> QED
  BY <1>1, SteadyInvariant, PTL

\* Nor is the file half written when no writer is at work on it.
THEOREM Unbroken ==
    ASSUME ~Fresh, MaxCrashes = 0 PROVE Spec => []NeverBroken
<1>1. SteadyInv => NeverBroken
  BY NoOneAssumption DEF SteadyInv, LockInv, TypeOK, Inside, NeverBroken
<1> QED
  BY <1>1, SteadyInvariant, PTL

\* The detailed file implements the atomic document: locked_json is atomic for
\* its writers, and read_json, without the lock, reads that document or the
\* default.
THEOREM Implements ==
    ASSUME ~Fresh, MaxCrashes = 0 PROVE Spec => ImplementsAtomic
<1>1. Init => Atomic!Init
  BY NoOneAssumption DEF Init, Atomic!Init, Document
<1>2. SteadyInv /\ [Next]_vars => [Atomic!Next]_<<Document, got>>
  BY SteadyStep
<1> QED
  BY <1>1, <1>2, SteadyInvariant, PTL DEF Spec, ImplementsAtomic, Atomic!Spec

-----------------------------------------------------------------------------
(* What a reader gets.                                                     *)

\* What was complete when a reader called is complete for good.
ReadInv ==
    /\ \A r \in Readers : before[r] \subseteq done
    /\ ReadsCurrent

LEMMA ReadStep ==
    ASSUME SteadyInv, ReadInv, [Next]_vars
    PROVE  ReadInv'
<1> USE DEF ReadInv, ReadsCurrent
<1>1. ASSUME NEW r \in Readers, Exists(r) PROVE ReadInv'
  BY <1>1 DEF Exists, SteadyInv, LockInv, TypeOK
<1>2. ASSUME NEW r \in Readers, Read(r) PROVE ReadInv'
  <2>1. form = "whole" => done \subseteq doc
    BY NoOneAssumption DEF SteadyInv, LockInv, TypeOK, Document
  <2> QED
    BY <1>2, <2>1 DEF Read, SteadyInv, LockInv, TypeOK
<1>3. ASSUME NEW r \in Readers,
             EnsureOpen(r) \/ EnsureWrite(r) \/ Resume(r) \/ CrashReader(r)
      PROVE  ReadInv'
  BY <1>3 DEF EnsureOpen, EnsureWrite, Resume, CrashReader, SteadyInv, LockInv, TypeOK
<1>4. ASSUME NEW w \in Writers, WriterStep(w) \/ CrashWriter(w) PROVE ReadInv'
  <2>1. done \subseteq done' /\ UNCHANGED <<rpc, before, got>>
    BY <1>4 DEF WriterStep, Open, Enter, Abandon, Truncate, Dump, Flush, Exit,
           CrashWriter
  <2> QED
    BY <2>1
<1>5. CASE UNCHANGED vars
  BY <1>5 DEF vars
<1> QED
  BY <1>1, <1>2, <1>3, <1>4, <1>5 DEF Next, ReaderStep

\* A reader gets every update that was complete when it called, or nothing.
THEOREM Current ==
    ASSUME ~Fresh, MaxCrashes = 0 PROVE Spec => []ReadsCurrent
<1>1. Init => ReadInv
  BY DEF Init, ReadInv, ReadsCurrent
<1>2. SteadyInv /\ ReadInv /\ [Next]_vars => ReadInv'
  BY ReadStep
<1>3. ReadInv => ReadsCurrent
  BY DEF ReadInv
<1> QED
  BY <1>1, <1>2, <1>3, SteadyInvariant, PTL DEF Spec

-----------------------------------------------------------------------------
(* What becomes of an update, from any start and with crashes.              *)

\* What the lock holder read is what the file held, or more; and from its
\* truncate to its flush the file holds no document.
KeptInv ==
    /\ LockInv
    /\ form = "absent" => lock = NoOne
    /\ \A w \in Writers :
          /\ wpc[w] = "entered" => doc \subseteq data[w]
          /\ wpc[w] \in {"truncated", "dumping"} => doc = {}

Accounted ==
    /\ Kept \subseteq Kept' \/ CutOff \/ Defaulted
    /\ \A w \in Kept' \ Kept : Flushed(w) \/ Restored(w)

LEMMA KeptWriter ==
    ASSUME KeptInv, LockInv', NEW w \in Writers, WriterStep(w) \/ CrashWriter(w)
    PROVE  KeptInv' /\ Accounted
<1> USE NoOneAssumption DEF KeptInv, LockInv, TypeOK, Inside, Kept
<1>1. CASE Open(w)
  <2>1. KeptInv' /\ Kept' = Kept
    BY <1>1 DEF Open
  <2> QED
    BY <2>1 DEF Accounted
<1>2. CASE Enter(w)
  <2>1. KeptInv' /\ Kept' = Kept
    BY <1>2 DEF Enter
  <2> QED
    BY <2>1 DEF Accounted
<1>3. CASE Abandon(w)
  <2>1. KeptInv' /\ Kept' = Kept
    BY <1>3 DEF Abandon
  <2> QED
    BY <2>1 DEF Accounted
<1>4. CASE Truncate(w)
  BY <1>4 DEF Truncate, Accounted, Restored
<1>5. CASE Dump(w)
  BY <1>5 DEF Dump, Accounted
<1>6. CASE Flush(w)
  <2>1. lock = w /\ lock' = w /\ Kept' = doc'
    BY <1>6 DEF Flush
  <2>2. form = "part" => Kept = data[w] /\ Kept' = data[w] \cup {w}
    BY <1>6, <2>1 DEF Flush
  <2>3. form # "part" => Kept = {} /\ Kept' = {}
    BY <1>6, <2>1 DEF Flush
  <2>4. Flushed(w)
    BY <1>6 DEF Flush, Flushed
  <2>5. Accounted
    BY <2>2, <2>3, <2>4 DEF Accounted
  <2>6. KeptInv'
    BY <1>6 DEF Flush
  <2> QED
    BY <2>5, <2>6
<1>7. CASE Exit(w)
  BY <1>7 DEF Exit, Accounted
<1>8. CASE CrashWriter(w)
  <2>1. KeptInv'
    BY <1>8 DEF CrashWriter
  <2>2. CASE wpc[w] \in {"truncated", "dumping"}
    <3>1. CutOff
      BY <1>8, <2>2 DEF CrashWriter, CutOff
    <3>2. Kept' = {}
      BY <1>8, <2>2 DEF CrashWriter
    <3> QED
      BY <2>1, <3>1, <3>2 DEF Accounted
  <2>3. CASE wpc[w] \notin {"truncated", "dumping"}
    <3>1. Kept' = Kept
      BY <1>8, <2>3 DEF CrashWriter
    <3> QED
      BY <2>1, <3>1 DEF Accounted
  <2> QED
    BY <2>2, <2>3
<1> QED
  BY <1>1, <1>2, <1>3, <1>4, <1>5, <1>6, <1>7, <1>8 DEF WriterStep

LEMMA KeptReader ==
    ASSUME KeptInv, LockInv', NEW r \in Readers, ReaderStep(r) \/ CrashReader(r)
    PROVE  KeptInv' /\ Accounted
<1> USE NoOneAssumption DEF KeptInv, LockInv, TypeOK, Inside, Kept
<1>1. CASE EnsureOpen(r) \/ EnsureWrite(r)
  <2>1. Defaulted
    BY <1>1 DEF EnsureOpen, EnsureWrite, Defaulted
  <2>2. \A w \in Kept' \ Kept : Restored(w)
    BY <1>1 DEF EnsureOpen, EnsureWrite, Restored
  <2>3. KeptInv'
    BY <1>1 DEF EnsureOpen, EnsureWrite
  <2> QED
    BY <2>1, <2>2, <2>3 DEF Accounted
<1>2. CASE Exists(r) \/ Read(r) \/ Resume(r) \/ CrashReader(r)
  <2>1. UNCHANGED <<form, doc, lock, wpc, data>>
    BY <1>2 DEF Exists, Read, Resume, CrashReader
  <2> QED
    BY <2>1 DEF Accounted
<1> QED
  BY <1>1, <1>2 DEF ReaderStep

LEMMA KeptStep == KeptInv /\ [Next]_vars => KeptInv' /\ [Accounted]_vars
<1> SUFFICES ASSUME KeptInv, [Next]_vars PROVE KeptInv' /\ [Accounted]_vars
  OBVIOUS
<1>1. LockInv'
  BY LockStep DEF KeptInv
<1>2. CASE UNCHANGED vars
  BY <1>1, <1>2 DEF KeptInv, vars
<1> QED
  BY <1>1, <1>2, KeptWriter, KeptReader DEF Next

\* From any start and with any crashes, the file loses updates only to a crash
\* in the middle of a rewrite or to the default written unlocked, and gets them
\* only from the flush of their writer.
THEOREM ChangesAccounted == Spec => ChangesKnown
<1>1. Init => KeptInv
  BY LockInit DEF Init, KeptInv
<1> QED
  BY <1>1, KeptStep, PTL DEF Spec, ChangesKnown, Accounted
=============================================================================
