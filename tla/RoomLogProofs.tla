---------------------------- MODULE RoomLogProofs ----------------------------
(***************************************************************************)
(* Theorems about RoomLog, for every number of writers, pollers and        *)
(* messages and every segment limit.                                       *)
(***************************************************************************)
EXTENDS RoomLogStream, FiniteSetTheorems, WellFoundedInduction, TLAPS

USE DEF CursorRec, Cursors, Lines

-----------------------------------------------------------------------------
(* The operators the actions are built from.                               *)

\* Writing a line yields a sequence of lines, at most one longer, that keeps
\* every line that could be parsed.
LEMMA WrittenLines ==
    ASSUME NEW q \in Seq(Lines), NEW x \in Lines
    PROVE  /\ Written(q, x) \in Seq(Lines)
           /\ Len(Written(q, x)) \in Len(q)..(Len(q) + 1)
           /\ \A i \in 1..Len(q) :
                 q[i] # Torn => Written(q, x)[i] = q[i]
           /\ x \in Messages /\ (\A i \in 1..Len(q) : q[i] # Torn) =>
                 Written(q, x) = Append(q, x)
<1>1. CASE q # <<>> /\ q[Len(q)] = Torn
  <2>1. Len(q) \in 1..Len(q)
    BY <1>1
  <2> DEFINE r == [q EXCEPT ![Len(q)] = IF x = Torn THEN Torn ELSE Bad]
  <2>2. Written(q, x) = r
    BY <1>1 DEF Written
  <2>3. r \in Seq(Lines) /\ Len(r) = Len(q)
    BY <2>1
  <2>4. \A i \in 1..Len(q) : q[i] # Torn => r[i] = q[i]
    BY <1>1
  <2>5. ~(x \in Messages /\ \A i \in 1..Len(q) : q[i] # Torn)
    BY <1>1, <2>1
  <2>6. Len(r) \in Len(q)..(Len(q) + 1)
    BY <2>1, <2>3
  <2> HIDE DEF r
  <2> QED
    BY <2>2, <2>3, <2>4, <2>5, <2>6
<1>2. CASE ~(q # <<>> /\ q[Len(q)] = Torn)
  BY <1>2 DEF Written
<1> QED
  BY <1>1, <1>2

\* The lines a poll keeps of a segment that parses are messages, and lines of it.
LEMMA KeptMessages ==
    ASSUME NEW q \in Seq(Messages), NEW c, NEW found \in BOOLEAN
    PROVE  /\ Kept(q, c, found) \in Seq(Messages)
           /\ InLine(Kept(q, c, found)) \subseteq InLine(q)
<1> DEFINE after == {i \in 1..Len(q) : \E j \in 1..(i - 1) : q[j] = c.id}
<1>1. Cardinality(after) \in 0..Len(q)
  <2>1. IsFiniteSet(1..Len(q)) /\ Cardinality(1..Len(q)) = Len(q)
    <3>1. Len(q) \in Int /\ 1 \in Int /\ Len(q) >= 0
      OBVIOUS
    <3> QED
      BY <3>1, FS_Interval
  <2>2. after \subseteq 1..Len(q)
    OBVIOUS
  <2>3. IsFiniteSet(after) /\ Cardinality(after) <= Cardinality(1..Len(q))
    BY <2>1, <2>2, FS_Subset
  <2>4. Cardinality(after) \in Nat
    BY <2>3, FS_CardinalityType
  <2> HIDE DEF after
  <2> QED
    BY <2>1, <2>3, <2>4
<1>2. Kept(q, c, found) = IF found THEN q
                          ELSE SubSeq(q, Len(q) - Cardinality(after) + 1, Len(q))
  BY DEF Kept
<1> HIDE DEF after
<1>3. PICK k \in 0..Len(q) : k = Len(q) - Cardinality(after)
  BY <1>1
<1>4. /\ SubSeq(q, k + 1, Len(q)) \in Seq(Messages)
      /\ \A i \in 1..Len(SubSeq(q, k + 1, Len(q))) :
            k + i \in 1..Len(q) /\ SubSeq(q, k + 1, Len(q))[i] = q[k + i]
  OBVIOUS
<1> QED
  BY <1>2, <1>3, <1>4 DEF InLine

-----------------------------------------------------------------------------
(* Type correctness.                                                       *)

LEMMA TypeInit == Init => TypeOK
BY AgentsAssumption, LimitsAssumption
   DEF Init, TypeOK, LogTypeOK, WriterTypeOK, CursorTypeOK, PollTypeOK

\* A segment without an unparsable line holds messages only.
LEMMA ParsableMessages ==
    ASSUME LogTypeOK, NEW s \in DOMAIN segs, ~Unparsable(s)
    PROVE  segs[s] \in Seq(Messages)
<1>1. segs[s] \in Seq(Lines)
  BY DEF LogTypeOK
<1>2. \A i \in 1..Len(segs[s]) : segs[s][i] \in Messages
  BY <1>1 DEF Unparsable, LinesOf
<1> QED
  BY <1>1, <1>2

LEMMA TypeStep == TypeOK /\ [Next]_vars => TypeOK'
<1> SUFFICES ASSUME TypeOK, [Next]_vars PROVE TypeOK'
  OBVIOUS
<1> USE AgentsAssumption, LimitsAssumption
<1>0. LogTypeOK /\ WriterTypeOK /\ CursorTypeOK /\ PollTypeOK /\ crashes \in Nat
  BY DEF TypeOK
<1> USE DEF TypeOK
<1>1. ASSUME NEW w \in Writers, NEW m \in Messages, Locate(w, m) PROVE TypeOK'
  <2>1. WriterTypeOK'
    BY <1>0, <1>1 DEF Locate, WriterTypeOK, LogTypeOK, logVars
  <2> QED
    BY <1>0, <1>1, <2>1 DEF Locate, LogTypeOK, CursorTypeOK, PollTypeOK,
                            logVars, cursorVars, pollVars
<1>2. ASSUME NEW w \in Writers, Choose(w) PROVE TypeOK'
  <2> DEFINE s == wseg[w]
             f == Touch(segs, s, <<>>)
             b == Touch(bytes, s, 0)
  <2>1. s \in Nat \ {0} /\ wpc[w] = "located"
    BY <1>0, <1>2 DEF Choose, WriterTypeOK
  <2>2. /\ f \in [DOMAIN f -> Seq(Lines)] /\ DOMAIN f = DOMAIN segs \cup {s}
        /\ b \in [DOMAIN f -> Nat]
    BY <1>0, <2>1 DEF Touch, LogTypeOK
  <2>3. /\ LogTypeOK' /\ DOMAIN segs \subseteq DOMAIN segs'
        /\ wseg' \in [Writers -> Nat] /\ wseg'[w] \in DOMAIN segs' \ {0}
        /\ \A v \in Writers \ {w} : wseg'[v] = wseg[v]
    <3>1. CASE ShouldRotate(f[s], b[s])
      <4>1. /\ segs' = Touch(f, s + 1, <<>>) /\ bytes' = Touch(b, s + 1, 0)
            /\ wseg' = [wseg EXCEPT ![w] = s + 1]
        BY <1>2, <3>1 DEF Choose, Successor
      <4> HIDE DEF f, b
      <4> QED
        BY <1>0, <2>1, <2>2, <4>1 DEF Touch, LogTypeOK, WriterTypeOK
    <3>2. CASE ~ShouldRotate(f[s], b[s])
      <4>1. segs' = f /\ bytes' = b /\ wseg' = wseg
        BY <1>2, <3>2 DEF Choose
      <4> HIDE DEF f, b
      <4> QED
        BY <1>0, <2>1, <2>2, <4>1 DEF LogTypeOK, WriterTypeOK
    <3> QED
      BY <3>1, <3>2
  <2> HIDE DEF s, f, b
  <2>4. WriterTypeOK'
    BY <1>0, <1>2, <2>1, <2>3 DEF Choose, WriterTypeOK, LogTypeOK
  <2> QED
    BY <1>0, <1>2, <2>3, <2>4 DEF Choose, CursorTypeOK, PollTypeOK,
                                  cursorVars, pollVars
<1>3. ASSUME NEW w \in Writers, Write(w) PROVE TypeOK'
  <2>1. /\ wseg[w] \in DOMAIN segs /\ wmsg[w] \in Messages
        /\ Written(segs[wseg[w]], wmsg[w]) \in Seq(Lines)
        /\ Weight[wmsg[w]] \in Nat
    BY <1>0, <1>3, WrittenLines, WeightAssumption DEF Write, WriterTypeOK, LogTypeOK
  <2>2. LogTypeOK' /\ DOMAIN segs' = DOMAIN segs
    <3> DEFINE line == Written(segs[wseg[w]], wmsg[w])
               size == bytes[wseg[w]] + Weight[wmsg[w]]
    <3>1. /\ segs' = [segs EXCEPT ![wseg[w]] = line]
          /\ bytes' = [bytes EXCEPT ![wseg[w]] = size]
      BY <1>3 DEF Write
    <3>2. line \in Seq(Lines) /\ size \in Nat
      BY SMTT(30), <1>0, <2>1 DEF LogTypeOK
    <3> HIDE DEF line, size
    <3> QED
      BY <1>0, <2>1, <3>1, <3>2 DEF LogTypeOK
  <2> QED
    BY <1>0, <1>3, <2>2 DEF Write, WriterTypeOK, CursorTypeOK, PollTypeOK,
                            cursorVars, pollVars
<1>4. ASSUME NEW w \in Writers, Ack(w) PROVE TypeOK'
  BY SMTT(30), <1>0, <1>4 DEF Ack, CursorOf, WriterTypeOK, LogTypeOK, CursorTypeOK, PollTypeOK,
                    logVars, cursorVars, pollVars
<1>5. ASSUME NEW w \in Writers, CrashWriter(w) PROVE TypeOK'
  BY SMTT(30), <1>0, <1>5 DEF CrashWriter, WriterTypeOK, LogTypeOK, CursorTypeOK,
                    PollTypeOK, logVars, cursorVars, pollVars
<1>6. ASSUME NEW w \in Writers, TearWrite(w) PROVE TypeOK'
  <2>1. /\ wseg[w] \in DOMAIN segs /\ wmsg[w] \in Messages
        /\ Written(segs[wseg[w]], Torn) \in Seq(Lines)
        /\ Weight[wmsg[w]] \in Nat
    BY <1>0, <1>6, WrittenLines, WeightAssumption DEF TearWrite, WriterTypeOK, LogTypeOK
  <2>2. LogTypeOK' /\ DOMAIN segs' = DOMAIN segs
    BY SMTT(30), <1>0, <1>6, <2>1 DEF TearWrite, LogTypeOK
  <2> QED
    BY <1>0, <1>6, <2>2 DEF TearWrite, WriterTypeOK, CursorTypeOK, PollTypeOK,
                            cursorVars, pollVars
<1> DEFINE Unwritten == UNCHANGED <<logVars, writerVars>>
<1>7. Unwritten => LogTypeOK' /\ WriterTypeOK' /\ segs' = segs
  BY <1>0 DEF LogTypeOK, WriterTypeOK, logVars, writerVars
<1> HIDE DEF Unwritten
<1>8. ASSUME NEW p \in Pollers, LoadCursor(p) PROVE TypeOK'
  <2>1. Unwritten
    BY <1>8 DEF LoadCursor, Unwritten
  <2>2. CursorTypeOK'
    BY <1>0, <1>8 DEF LoadCursor, CursorTypeOK, cursorVars
  <2>3. PollTypeOK'
    BY <1>0, <1>7, <1>8, <2>1 DEF LoadCursor, PollTypeOK, CursorTypeOK
  <2> QED
    BY <1>0, <1>7, <1>8, <2>1, <2>2, <2>3 DEF LoadCursor
<1>9. ASSUME NEW p \in Pollers, Glob(p) PROVE TypeOK'
  <2>1. Unwritten
    BY <1>9 DEF Glob, Unwritten
  <2>2. CursorTypeOK'
    BY <1>0, <1>9 DEF Glob, CursorTypeOK, cursorVars
  <2>3. PollTypeOK'
    BY <1>0, <1>7, <1>9, <2>1 DEF Glob, FromCursor, PollTypeOK, Visible
  <2> QED
    BY <1>0, <1>7, <1>9, <2>1, <2>2, <2>3 DEF Glob
<1>10. ASSUME NEW p \in Pollers, PollTypeOK, Leave(p), segs' = segs,
              inbox' = inbox
       PROVE  PollTypeOK'
  BY <1>10 DEF Leave, PollTypeOK
<1>11. ASSUME NEW p \in Pollers, ReadSegment(p) PROVE TypeOK'
  <2>1. Unwritten /\ CursorTypeOK' /\ inbox' = inbox /\ crashes' = crashes
    BY <1>0, <1>11 DEF ReadSegment, Unwritten, CursorTypeOK, cursorVars
  <2>2. PICK s \in ptodo[p] :
              IF Unparsable(s)
              THEN Leave(p)
              ELSE /\ pgot' = [pgot EXCEPT ![p] =
                                 @ \o Kept(segs[s], pcur[p], pfound[p])]
                   /\ pfound' = [pfound EXCEPT ![p] =
                                   @ \/ pcur[p].id \in LinesOf(s)]
                   /\ ptodo' = [ptodo EXCEPT ![p] = @ \ {s}]
                   /\ UNCHANGED <<ppc, pcur>>
    BY <1>11 DEF ReadSegment
  <2>3. CASE Unparsable(s)
    BY <1>0, <1>7, <1>10, <2>1, <2>2, <2>3
  <2>4. CASE ~Unparsable(s)
    <3>1. segs[s] \in Seq(Messages)
      BY <1>0, <2>4, ParsableMessages DEF PollTypeOK
    <3>2. Kept(segs[s], pcur[p], pfound[p]) \in Seq(Messages)
      BY <1>0, <3>1, KeptMessages DEF PollTypeOK
    <3>3. /\ pgot' \in [Pollers -> Seq(Messages)]
          /\ ptodo' \in [Pollers -> SUBSET DOMAIN segs]
      <4> DEFINE more == pgot[p] \o Kept(segs[s], pcur[p], pfound[p])
      <4>1. more \in Seq(Messages)
        BY <1>0, <3>2 DEF PollTypeOK
      <4>2. pgot' = [pgot EXCEPT ![p] = more]
        BY <2>2, <2>4
      <4> HIDE DEF more
      <4> QED
        BY SMTT(30), <1>0, <2>2, <2>4, <4>1, <4>2 DEF PollTypeOK
    <3>4. /\ pfound' \in [Pollers -> BOOLEAN]
          /\ \A q \in Pollers : pfound[q] => pfound'[q]
      BY <1>0, <2>2, <2>4 DEF PollTypeOK
    <3>5. PollTypeOK'
      BY <1>0, <1>7, <2>1, <2>2, <2>4, <3>3, <3>4 DEF PollTypeOK
    <3> QED
      BY <1>0, <1>7, <2>1, <3>5
  <2> QED
    BY <2>3, <2>4
<1>12. ASSUME NEW p \in Pollers, ReturnEmpty(p) PROVE TypeOK'
  <2>1. Unwritten /\ CursorTypeOK' /\ inbox' = inbox /\ crashes' = crashes
    BY <1>0, <1>12 DEF ReturnEmpty, Unwritten, CursorTypeOK, cursorVars
  <2> QED
    BY <1>0, <1>7, <1>10, <1>12, <2>1 DEF ReturnEmpty
<1>13. ASSUME NEW p \in Pollers, Mark(p) PROVE TypeOK'
  <2>1. Unwritten /\ CursorTypeOK' /\ inbox' = inbox /\ crashes' = crashes
    BY <1>0, <1>13 DEF Mark, Unwritten, CursorTypeOK, cursorVars
  <2> DEFINE m == LastGot(p)
  <2>2. PICK s \in Visible :
              IF \E t \in Visible : t < s /\ Unparsable(t)
              THEN Leave(p)
              ELSE /\ pcur' = [pcur EXCEPT ![p] = [id |-> m, segment |-> s]]
                   /\ ppc' = [ppc EXCEPT ![p] = "marking"]
                   /\ UNCHANGED <<pfound, ptodo, pgot>>
    BY <1>13 DEF Mark
  <2>3. CASE \E t \in Visible : t < s /\ Unparsable(t)
    BY <1>0, <1>7, <1>10, <2>1, <2>2, <2>3
  <2>4. CASE ~\E t \in Visible : t < s /\ Unparsable(t)
    <3>1. m \in Messages /\ s \in Nat \ {0}
      BY <1>0, <1>13 DEF Mark, LastGot, PollTypeOK, LogTypeOK, Visible
    <3>2. [id |-> m, segment |-> s] \in CursorRec
      BY <3>1
    <3>3. [id |-> m, segment |-> s] # None
      BY <3>2, NoneAssumption
    <3> DEFINE c == [id |-> m, segment |-> s]
    <3>4. c \in Cursors /\ c # None /\ pcur' = [pcur EXCEPT ![p] = c]
      BY <2>2, <2>4, <3>2, <3>3
    <3> HIDE DEF m, c
    <3>5. PollTypeOK'
      BY <1>0, <1>7, <2>1, <2>2, <2>4, <3>4 DEF PollTypeOK
    <3> QED
      BY <1>0, <1>7, <2>1, <3>5
  <2> QED
    BY <2>3, <2>4
<1>14. ASSUME NEW p \in Pollers, SaveBegin(p) PROVE TypeOK'
  <2>1. Unwritten
    BY <1>14 DEF SaveBegin, Unwritten
  <2>2. CursorTypeOK' /\ PollTypeOK'
    BY <1>0, <1>7, <1>14, <2>1 DEF SaveBegin, CursorTypeOK, PollTypeOK
  <2> QED
    BY <1>0, <1>7, <1>14, <2>1, <2>2 DEF SaveBegin
<1>15. ASSUME NEW p \in Pollers, SaveEnd(p) PROVE TypeOK'
  <2>1. Unwritten
    BY <1>15 DEF SaveEnd, Unwritten
  <2>2. CursorTypeOK' /\ PollTypeOK'
    BY <1>0, <1>7, <1>15, <2>1 DEF SaveEnd, CursorTypeOK, PollTypeOK
  <2> QED
    BY <1>0, <1>7, <1>15, <2>1, <2>2 DEF SaveEnd
<1>16. ASSUME NEW p \in Pollers, Return(p) PROVE TypeOK'
  <2>1. Unwritten
    BY <1>16 DEF Return, Unwritten
  <2>2. inbox' \in [Agents -> Seq(Messages)]
    BY <1>0, <1>16 DEF Return, PollTypeOK
  <2>3. CursorTypeOK' /\ PollTypeOK'
    BY <1>0, <1>7, <1>16, <2>1, <2>2
       DEF Return, Leave, CursorTypeOK, PollTypeOK, cursorVars
  <2> QED
    BY <1>0, <1>7, <1>16, <2>1, <2>3 DEF Return
<1>17. ASSUME NEW p \in Pollers, CrashPoller(p) PROVE TypeOK'
  <2>1. Unwritten /\ inbox' = inbox /\ crashes' \in Nat
    BY <1>0, <1>17 DEF CrashPoller, Unwritten
  <2>2. CursorTypeOK'
    BY <1>0, <1>17 DEF CrashPoller, CursorTypeOK, cursorVars
  <2>3. PollTypeOK'
    BY <1>0, <1>7, <1>10, <1>17, <2>1 DEF CrashPoller
  <2> QED
    BY <1>7, <2>1, <2>2, <2>3
<1>18. ASSUME NEW a \in Agents, SaveElsewhereBegin(a) \/ SaveElsewhereEnd(a)
       PROVE  TypeOK'
  <2>1. Unwritten /\ UNCHANGED <<pollVars, crashes>>
    BY <1>18 DEF SaveElsewhereBegin, SaveElsewhereEnd, Unwritten
  <2>2. CursorTypeOK'
    BY <1>0, <1>18 DEF SaveElsewhereBegin, SaveElsewhereEnd, CursorTypeOK
  <2>3. PollTypeOK'
    BY <1>0, <1>7, <2>1 DEF PollTypeOK, pollVars
  <2> QED
    BY <1>0, <1>7, <2>1, <2>2, <2>3
<1>19. CASE UNCHANGED vars
  BY <1>0, <1>19 DEF vars, logVars, writerVars, cursorVars, pollVars, LogTypeOK,
                     WriterTypeOK, CursorTypeOK, PollTypeOK
<1> QED
  BY <1>1, <1>2, <1>3, <1>4, <1>5, <1>6, <1>8, <1>9, <1>11, <1>12, <1>13, <1>14,
     <1>15, <1>16, <1>17, <1>18, <1>19
     DEF Next, WriterStep, PollStep

\* The type invariant: the tables of segment files stay well formed, a writer
\* that chose a segment finds it there, a poller's list holds existing files.
THEOREM TypeCorrect == Spec => []TypeOK
BY TypeInit, TypeStep, PTL DEF Spec

-----------------------------------------------------------------------------
(* The segment files.                                                      *)

\* Writers whose line may still go to segment s: those that chose it, and
\* those that located the one before and will be sent on when they rotate.
MayWrite(s) ==
    {w \in Writers : \/ wpc[w] = "chosen" /\ wseg[w] = s
                     \/ wpc[w] = "located" /\ wseg[w] + 1 = s}

\* Once a segment is at the limit, only those writers can lengthen it, and
\* each of them once: no writer that comes later chooses it.
SegmentCap ==
    \A s \in DOMAIN segs :
        s <= GlobLimit /\ MaxMessages > 0 /\ Len(segs[s]) >= MaxMessages =>
            Len(segs[s]) + Cardinality(MayWrite(s))
                <= MaxMessages + Cardinality(Writers) - 1

\* A writer located a segment that exists, or is about to create the first.
LocatedExists ==
    \A w \in Writers :
        wpc[w] = "located" => wseg[w] = 1 \/ wseg[w] \in DOMAIN segs

LogInv == /\ TypeOK /\ LocatedExists /\ SegmentsContiguous
          /\ SealedAreFull /\ SegmentCap

\* The three steps that change the files, as far as the files go.
LEMMA ChooseEffect ==
    ASSUME LogInv, NEW w \in Writers, Choose(w)
    PROVE  /\ wpc[w] = "located" /\ wpc' = [wpc EXCEPT ![w] = "chosen"]
           /\ wseg'[w] \in {wseg[w], wseg[w] + 1}
           /\ wseg' = [wseg EXCEPT ![w] = wseg'[w]]
           /\ DOMAIN segs' = DOMAIN segs \cup {wseg[w], wseg'[w]}
           /\ \A s \in DOMAIN segs : segs'[s] = segs[s] /\ bytes'[s] = bytes[s]
           /\ \A s \in DOMAIN segs' \ DOMAIN segs : segs'[s] = <<>> /\ bytes'[s] = 0
           /\ wseg'[w] = wseg[w] =>
                 ~ShouldRotate(segs'[wseg[w]], bytes'[wseg[w]])
           /\ wseg'[w] = wseg[w] + 1 =>
                 ShouldRotate(segs'[wseg[w]], bytes'[wseg[w]])
<1> DEFINE s == wseg[w]
           f == Touch(segs, s, <<>>)
           b == Touch(bytes, s, 0)
<1>1. wpc[w] = "located" /\ s \in Nat \ {0}
  BY DEF Choose, LogInv, TypeOK, WriterTypeOK
<1>2. /\ DOMAIN bytes = DOMAIN segs
      /\ wseg \in [Writers -> Nat]
  BY DEF LogInv, TypeOK, WriterTypeOK, LogTypeOK
<1>3. /\ DOMAIN f = DOMAIN segs \cup {s} /\ DOMAIN b = DOMAIN f
      /\ \A t \in DOMAIN segs : f[t] = segs[t] /\ b[t] = bytes[t]
      /\ s \notin DOMAIN segs => f[s] = <<>> /\ b[s] = 0
  BY <1>2 DEF Touch
<1>4. CASE ShouldRotate(f[s], b[s])
  <2>1. /\ segs' = Touch(f, s + 1, <<>>) /\ bytes' = Touch(b, s + 1, 0)
        /\ wseg' = [wseg EXCEPT ![w] = s + 1]
        /\ wpc' = [wpc EXCEPT ![w] = "chosen"]
    BY <1>4 DEF Choose, Successor
  <2> HIDE DEF f, b
  <2>2. /\ DOMAIN segs' = DOMAIN f \cup {s + 1}
        /\ \A t \in DOMAIN f : segs'[t] = f[t] /\ bytes'[t] = b[t]
        /\ s + 1 \notin DOMAIN f => segs'[s + 1] = <<>> /\ bytes'[s + 1] = 0
    BY <1>3, <2>1 DEF Touch
  <2>3. wseg'[w] = s + 1 /\ s + 1 # s
    BY <1>1, <1>2, <2>1
  <2> HIDE DEF s
  <2>4. ShouldRotate(segs'[s], bytes'[s])
    BY <1>3, <1>4, <2>2
  <2> QED
    BY <1>1, <1>3, <2>1, <2>2, <2>3, <2>4 DEF s
<1>5. CASE ~ShouldRotate(f[s], b[s])
  <2>1. /\ segs' = f /\ bytes' = b /\ wseg' = wseg
        /\ wpc' = [wpc EXCEPT ![w] = "chosen"]
    BY <1>5 DEF Choose
  <2>2. wseg' = [wseg EXCEPT ![w] = wseg'[w]] /\ s + 1 # s
    BY <1>1, <1>2, <2>1
  <2> HIDE DEF f, b, s
  <2> QED
    BY <1>1, <1>3, <1>5, <2>1, <2>2 DEF s
<1> QED
  BY <1>4, <1>5

\* What Write and TearWrite have in common.
LineStep(w, x) ==
    /\ wpc[w] = "chosen" /\ wpc' = [wpc EXCEPT ![w] = wpc'[w]]
    /\ wpc'[w] \in {"idle", "written"} /\ wseg' = wseg
    /\ DOMAIN segs' = DOMAIN segs /\ wseg[w] \in DOMAIN segs
    /\ \A s \in DOMAIN segs : s # wseg[w] => segs'[s] = segs[s]
    /\ segs'[wseg[w]] = Written(segs[wseg[w]], x)
    /\ \A s \in DOMAIN segs : bytes'[s] \in Nat /\ bytes'[s] >= bytes[s]

LEMMA WriteEffect ==
    ASSUME LogInv, NEW w \in Writers, Write(w)
    PROVE  LineStep(w, wmsg[w]) /\ wmsg[w] \in Messages
<1>1. /\ wpc[w] = "chosen" /\ wseg[w] \in DOMAIN segs /\ wmsg[w] \in Messages
      /\ wpc \in [Writers -> {"idle", "located", "chosen", "written"}]
      /\ bytes \in [DOMAIN segs -> Nat]
  BY DEF Write, LogInv, TypeOK, WriterTypeOK, LogTypeOK
<1>2. Weight[wmsg[w]] \in Nat
  BY <1>1, WeightAssumption
<1>3. \A s \in DOMAIN segs : bytes'[s] \in Nat /\ bytes'[s] >= bytes[s]
  BY <1>1, <1>2 DEF Write
<1>4. /\ DOMAIN segs' = DOMAIN segs
      /\ \A s \in DOMAIN segs : s # wseg[w] => segs'[s] = segs[s]
      /\ segs'[wseg[w]] = Written(segs[wseg[w]], wmsg[w])
  BY <1>1 DEF Write
<1> QED
  BY <1>1, <1>3, <1>4 DEF Write, LineStep

LEMMA TearEffect ==
    ASSUME LogInv, NEW w \in Writers, TearWrite(w)
    PROVE  LineStep(w, Torn)
<1>1. /\ wpc[w] = "chosen" /\ wseg[w] \in DOMAIN segs /\ wmsg[w] \in Messages
      /\ wpc \in [Writers -> {"idle", "located", "chosen", "written"}]
      /\ bytes \in [DOMAIN segs -> Nat]
  BY DEF TearWrite, LogInv, TypeOK, WriterTypeOK, LogTypeOK
<1>2. PICK n \in 1..Weight[wmsg[w]] :
         bytes' = [bytes EXCEPT ![wseg[w]] = @ + n]
  BY DEF TearWrite
<1>3. n \in Nat
  BY <1>1, <1>2, WeightAssumption
<1>4. \A s \in DOMAIN segs : bytes'[s] \in Nat /\ bytes'[s] >= bytes[s]
  BY <1>1, <1>2, <1>3
<1>5. /\ DOMAIN segs' = DOMAIN segs
      /\ \A s \in DOMAIN segs : s # wseg[w] => segs'[s] = segs[s]
      /\ segs'[wseg[w]] = Written(segs[wseg[w]], Torn)
  BY <1>1 DEF TearWrite
<1> QED
  BY <1>1, <1>4, <1>5 DEF TearWrite, LineStep

\* A segment that gets no line, and no writer to expect one from, keeps its
\* cap.
LEMMA CapKept ==
    ASSUME SegmentCap, NEW s \in DOMAIN segs, Len(segs'[s]) = Len(segs[s]),
           MayWrite(s)' \subseteq MayWrite(s), LogTypeOK, LogTypeOK', s \in DOMAIN segs'
    PROVE  s <= GlobLimit /\ MaxMessages > 0 /\ Len(segs'[s]) >= MaxMessages =>
               Len(segs'[s]) + Cardinality(MayWrite(s)')
                   <= MaxMessages + Cardinality(Writers) - 1
<1>1. IsFiniteSet(MayWrite(s)) /\ IsFiniteSet(Writers)
  BY WritersAssumption, FS_Subset DEF MayWrite
<1>2. Cardinality(MayWrite(s)') <= Cardinality(MayWrite(s))
  BY <1>1, FS_Subset
<1>3. /\ Cardinality(MayWrite(s)') \in Nat /\ Cardinality(MayWrite(s)) \in Nat
      /\ Cardinality(Writers) \in Nat
  BY <1>1, FS_Subset, FS_CardinalityType
<1>4. Len(segs[s]) \in Nat /\ MaxMessages \in Int
  BY LimitsAssumption DEF LogTypeOK
<1> QED
  BY <1>2, <1>3, <1>4 DEF SegmentCap

\* A line brings a segment up to its cap at most: its writer is no longer
\* among those that may lengthen it.
LEMMA CapWrite ==
    ASSUME LogInv, TypeOK', NEW w \in Writers, NEW x \in Lines, LineStep(w, x)
    PROVE  SegmentCap'
<1> SUFFICES ASSUME NEW s \in DOMAIN segs',
                    s <= GlobLimit, MaxMessages > 0, Len(segs'[s]) >= MaxMessages
             PROVE  Len(segs'[s]) + Cardinality(MayWrite(s)')
                        <= MaxMessages + Cardinality(Writers) - 1
  BY DEF SegmentCap
<1>1. LogTypeOK /\ LogTypeOK' /\ SegmentCap /\ s \in DOMAIN segs
  BY DEF LogInv, TypeOK, LineStep
<1>2. MayWrite(s)' \subseteq MayWrite(s) \ {w}
  BY DEF MayWrite, LineStep, LogInv, TypeOK, WriterTypeOK
<1>3. CASE s # wseg[w]
  BY <1>1, <1>2, <1>3, CapKept DEF LineStep
<1>4. CASE s = wseg[w]
  <2>1. /\ Len(segs'[s]) \in Len(segs[s])..(Len(segs[s]) + 1)
        /\ Len(segs[s]) \in Nat
    <3>1. segs[s] \in Seq(Lines) /\ segs'[s] = Written(segs[s], x)
      BY <1>1, <1>4 DEF LineStep, LogTypeOK
    <3>2. Len(Written(segs[s], x)) \in Len(segs[s])..(Len(segs[s]) + 1)
      BY <3>1, WrittenLines
    <3> QED
      BY <3>1, <3>2
  <2>2. w \in MayWrite(s) /\ IsFiniteSet(MayWrite(s)) /\ IsFiniteSet(Writers)
    BY <1>4, WritersAssumption, FS_Subset DEF MayWrite, LineStep
  <2>3. /\ Cardinality(MayWrite(s) \ {w}) = Cardinality(MayWrite(s)) - 1
        /\ Cardinality(Writers \ {w}) = Cardinality(Writers) - 1
        /\ IsFiniteSet(MayWrite(s) \ {w}) /\ IsFiniteSet(Writers \ {w})
    BY <2>2, FS_RemoveElement
  <2>4. MayWrite(s) \ {w} \subseteq Writers \ {w}
    BY DEF MayWrite
  <2>5. /\ Cardinality(MayWrite(s)') <= Cardinality(MayWrite(s)) - 1
        /\ Cardinality(MayWrite(s)') <= Cardinality(Writers) - 1
    <3>1. MayWrite(s)' \subseteq Writers \ {w}
      BY <1>2, <2>4
    <3> QED
      BY <1>2, <2>3, <3>1, FS_Subset
  <2>6. /\ Cardinality(MayWrite(s)') \in Nat /\ Cardinality(MayWrite(s)) \in Nat
        /\ Cardinality(Writers) \in Nat /\ MaxMessages \in Int
    BY <1>2, <2>2, <2>3, FS_Subset, FS_CardinalityType, LimitsAssumption
  <2>7. CASE Len(segs[s]) >= MaxMessages
    BY <1>1, <2>1, <2>5, <2>6, <2>7 DEF SegmentCap
  <2>8. CASE Len(segs[s]) < MaxMessages
    BY <2>1, <2>5, <2>6, <2>8
  <2> QED
    BY <2>1, <2>6, <2>7, <2>8
<1> QED
  BY <1>3, <1>4

\* A full segment stays full.
LEMMA FullStays ==
    ASSUME NEW q \in Seq(Lines), NEW r \in Seq(Lines), NEW m \in Nat, NEW n \in Nat,
           Len(q) <= Len(r), m <= n, ShouldRotate(q, m)
    PROVE  ShouldRotate(r, n)
BY LimitsAssumption DEF ShouldRotate

LEMMA LogInvInit == Init => LogInv
<1> SUFFICES ASSUME Init PROVE LogInv
  OBVIOUS
<1>1. TypeOK
  BY TypeInit
<1>2. DOMAIN segs = {} /\ \A w \in Writers : wpc[w] = "idle"
  BY DEF Init
<1> QED
  BY <1>1, <1>2 DEF LogInv, LocatedExists, SegmentsContiguous, SealedAreFull, SegmentCap

LEMMA LogInvStep == LogInv /\ [Next]_vars => LogInv'
<1> SUFFICES ASSUME LogInv, [Next]_vars PROVE LogInv'
  OBVIOUS
<1>1. TypeOK /\ TypeOK'
  BY TypeStep DEF LogInv
<1>2. /\ LogTypeOK /\ LogTypeOK' /\ WriterTypeOK /\ WriterTypeOK'
      /\ LocatedExists /\ SegmentsContiguous /\ SealedAreFull /\ SegmentCap
  BY <1>1 DEF LogInv, TypeOK
<1>3. SUFFICES LocatedExists' /\ SegmentsContiguous' /\ SealedAreFull' /\ SegmentCap'
  BY <1>1 DEF LogInv
\* Steps that leave the files alone and send no writer to a segment.
<1>4. ASSUME UNCHANGED <<segs, bytes, wseg>>,
             \A w \in Writers : wpc'[w] = wpc[w] \/ wpc'[w] \in {"idle", "written"}
      PROVE  LocatedExists' /\ SegmentsContiguous' /\ SealedAreFull' /\ SegmentCap'
  <2>1. \A s \in DOMAIN segs : MayWrite(s)' \subseteq MayWrite(s)
    BY <1>4 DEF MayWrite
  <2>2. SegmentCap'
    BY <1>2, <1>4, <2>1, CapKept DEF SegmentCap
  <2> QED
    BY <1>2, <1>4, <2>2 DEF LocatedExists, SegmentsContiguous, SealedAreFull
<1>5. ASSUME NEW w \in Writers, NEW x \in Lines, LineStep(w, x)
      PROVE  LocatedExists' /\ SegmentsContiguous' /\ SealedAreFull' /\ SegmentCap'
  <2>1. SegmentCap'
    BY <1>1, <1>5, CapWrite
  <2>2. LocatedExists' /\ SegmentsContiguous'
    BY <1>2, <1>5 DEF LineStep, LocatedExists, SegmentsContiguous, WriterTypeOK
  <2>3. \A s \in DOMAIN segs : Len(segs[s]) <= Len(segs'[s])
    <3>1. /\ wseg[w] \in DOMAIN segs /\ segs[wseg[w]] \in Seq(Lines)
          /\ \A s \in DOMAIN segs : Len(segs[s]) \in Nat
      BY <1>2, <1>5 DEF LineStep, LogTypeOK
    <3>2. Len(segs[wseg[w]]) <= Len(Written(segs[wseg[w]], x))
      BY <3>1, WrittenLines
    <3> QED
      BY <1>5, <3>1, <3>2 DEF LineStep
  <2>4. SealedAreFull'
    <3> SUFFICES ASSUME NEW s \in DOMAIN segs', s + 1 \in DOMAIN segs'
                 PROVE  ShouldRotate(segs'[s], bytes'[s])
      BY DEF SealedAreFull, ShouldRotate
    <3>1. s \in DOMAIN segs /\ ShouldRotate(segs[s], bytes[s]) /\ bytes[s] <= bytes'[s]
      BY <1>2, <1>5 DEF LineStep, SealedAreFull, ShouldRotate, LogTypeOK
    <3> QED
      BY <1>2, <2>3, <3>1, FullStays DEF LogTypeOK
  <2> QED
    BY <2>1, <2>2, <2>4
<1>6. ASSUME NEW w \in Writers, NEW m \in Messages, Locate(w, m)
      PROVE  LocatedExists' /\ SegmentsContiguous' /\ SealedAreFull' /\ SegmentCap'
  <2>1. UNCHANGED <<segs, bytes>> /\ wpc' = [wpc EXCEPT ![w] = "located"]
    BY <1>6 DEF Locate, logVars
  <2>2. PICK a \in DOMAIN segs \cup {1} :
               IsActive(a) /\ wseg' = [wseg EXCEPT ![w] = a]
    BY <1>6 DEF Locate
  <2>3. ASSUME NEW s \in DOMAIN segs, s <= GlobLimit
        PROVE  MayWrite(s)' \subseteq MayWrite(s)
    <3>1. s \in Visible
      BY <2>3 DEF Visible
    <3>2. a \in Nat /\ s \in Nat /\ s <= a
      BY <1>2, <2>2, <3>1 DEF IsActive, LogTypeOK
    <3> QED
      BY <1>2, <2>1, <2>2, <3>2 DEF MayWrite, WriterTypeOK
  <2>4. SegmentCap'
    BY <1>2, <2>1, <2>3, CapKept DEF SegmentCap
  <2> QED
    BY <1>2, <2>1, <2>2, <2>4
       DEF LocatedExists, SegmentsContiguous, SealedAreFull, WriterTypeOK
<1>7. ASSUME NEW w \in Writers, Choose(w)
      PROVE  LocatedExists' /\ SegmentsContiguous' /\ SealedAreFull' /\ SegmentCap'
  <2> DEFINE q == wseg[w]
             n == wseg'[w]
  <2>1. /\ wpc[w] = "located" /\ wpc' = [wpc EXCEPT ![w] = "chosen"]
        /\ n \in {q, q + 1} /\ wseg' = [wseg EXCEPT ![w] = n]
        /\ DOMAIN segs' = DOMAIN segs \cup {q, n}
        /\ \A s \in DOMAIN segs : segs'[s] = segs[s] /\ bytes'[s] = bytes[s]
        /\ \A s \in DOMAIN segs' \ DOMAIN segs : segs'[s] = <<>>
        /\ n = q => ~ShouldRotate(segs'[q], bytes'[q])
        /\ n = q + 1 => ShouldRotate(segs'[q], bytes'[q])
    BY <1>7, ChooseEffect
  <2>2. q \in Nat \ {0} /\ (q = 1 \/ q \in DOMAIN segs)
    BY <1>2, <2>1 DEF LocatedExists, WriterTypeOK
  <2> HIDE DEF q, n
  <2>3. LocatedExists' /\ SegmentsContiguous'
    <3>1. LocatedExists'
      BY <1>2, <2>1, <2>2 DEF LocatedExists, WriterTypeOK
    <3>2. q \in DOMAIN segs' /\ (q + 1) - 1 = q
      BY <2>1, <2>2
    <3>3. \A s \in DOMAIN segs : s = 1 \/ s - 1 \in DOMAIN segs'
      BY <1>2, <2>1 DEF SegmentsContiguous
    <3>4. q = 1 \/ q - 1 \in DOMAIN segs'
      BY <2>2, <3>3
    <3>5. SegmentsContiguous'
      BY <2>1, <3>2, <3>3, <3>4 DEF SegmentsContiguous
    <3> QED
      BY <3>1, <3>5
  <2>4. SealedAreFull'
    <3> SUFFICES ASSUME NEW s \in DOMAIN segs', s + 1 \in DOMAIN segs'
                 PROVE  ShouldRotate(segs'[s], bytes'[s])
      BY DEF SealedAreFull, ShouldRotate
    <3>1. CASE s \in DOMAIN segs /\ s + 1 \in DOMAIN segs
      BY <1>2, <2>1, <3>1 DEF SealedAreFull, ShouldRotate
    <3>2. CASE s + 1 \notin DOMAIN segs
      <4>1. s \in Nat \ {0} /\ s + 1 = n /\ n = q + 1
        BY <1>2, <2>1, <2>2, <3>2 DEF LogTypeOK
      <4> QED
        BY <2>1, <2>2, <4>1
    <3>3. CASE s \notin DOMAIN segs /\ s + 1 \in DOMAIN segs
      <4>1. s \in Nat \ {0}
        BY <1>2 DEF LogTypeOK
      <4>2. s + 1 # 1 /\ (s + 1) - 1 = s
        BY <4>1
      <4> QED
        BY <1>2, <3>3, <4>2 DEF SegmentsContiguous
    <3> QED
      BY <3>1, <3>2, <3>3
  <2>5. SegmentCap'
    <3> SUFFICES ASSUME NEW s \in DOMAIN segs', s <= GlobLimit, MaxMessages > 0,
                        Len(segs'[s]) >= MaxMessages
                 PROVE  Len(segs'[s]) + Cardinality(MayWrite(s)')
                            <= MaxMessages + Cardinality(Writers) - 1
      BY DEF SegmentCap
    <3>1. s \in DOMAIN segs /\ segs'[s] = segs[s]
      BY <2>1, LimitsAssumption
    <3>2. n = s => n = q + 1
      BY <2>1 DEF ShouldRotate
    <3>3. MayWrite(s)' \subseteq MayWrite(s)
      BY <1>2, <2>1, <2>2, <3>2 DEF MayWrite, WriterTypeOK, q
    <3> QED
      BY <1>2, <3>1, <3>3, CapKept
  <2> QED
    BY <2>3, <2>4, <2>5
<1>8. ASSUME NEW w \in Writers, Write(w) \/ TearWrite(w)
      PROVE  LocatedExists' /\ SegmentsContiguous' /\ SealedAreFull' /\ SegmentCap'
  BY <1>5, <1>8, WriteEffect, TearEffect
<1>9. ASSUME NEW w \in Writers, Ack(w) \/ CrashWriter(w)
      PROVE  LocatedExists' /\ SegmentsContiguous' /\ SealedAreFull' /\ SegmentCap'
  BY <1>2, <1>4, <1>9 DEF Ack, CrashWriter, logVars, WriterTypeOK
<1>10. ASSUME UNCHANGED <<logVars, writerVars>>
       PROVE  LocatedExists' /\ SegmentsContiguous' /\ SealedAreFull' /\ SegmentCap'
  BY <1>4, <1>10 DEF logVars, writerVars
<1>11. ASSUME NEW p \in Pollers, PollStep(p) \/ CrashPoller(p)
       PROVE  UNCHANGED <<logVars, writerVars>>
  BY <1>11 DEF PollStep, LoadCursor, Glob, ReadSegment, ReturnEmpty, Mark,
               SaveBegin, SaveEnd, Return, CrashPoller
<1>12. ASSUME NEW a \in Agents, SaveElsewhereBegin(a) \/ SaveElsewhereEnd(a)
       PROVE  UNCHANGED <<logVars, writerVars>>
  BY <1>12 DEF SaveElsewhereBegin, SaveElsewhereEnd
<1>13. CASE UNCHANGED vars
  BY <1>10, <1>13 DEF vars
<1> QED
  BY <1>6, <1>7, <1>8, <1>9, <1>10, <1>11, <1>12, <1>13 DEF Next, WriterStep

LEMMA LogInvariant == Spec => []LogInv
BY LogInvInit, LogInvStep, PTL DEF Spec

\* Segment files are numbered without a gap, and append_message never starts one
\* while the one before has room, however many writers race to create the first
\* one or the next one, and whenever they crash.
THEOREM Sound == Spec => []SegmentsSound
<1>1. LogInv => SegmentsSound
  BY DEF LogInv, SegmentsSound
<1> QED
  BY <1>1, LogInvariant, PTL

\* A segment overshoots max_segment_messages by fewer messages than there are
\* writers, although the check and the write are not atomic.
THEOREM Bounded == Spec => []SegmentBound
<1>1. LogInv => SegmentBound
  <2> SUFFICES ASSUME LogInv, NEW s \in Visible, MaxMessages > 0
               PROVE  Len(segs[s]) <= MaxMessages + Cardinality(Writers) - 1
    BY DEF SegmentBound
  <2>1. /\ s \in DOMAIN segs /\ s <= GlobLimit /\ Len(segs[s]) \in Nat
        /\ MaxMessages \in Int
    BY LimitsAssumption DEF LogInv, TypeOK, LogTypeOK, Visible
  <2>2. IsFiniteSet(MayWrite(s)) /\ Cardinality(MayWrite(s)) \in Nat
    BY WritersAssumption, FS_Subset, FS_CardinalityType DEF MayWrite
  <2>3. Cardinality(Writers) \in Nat /\ Cardinality(Writers) # 0
    BY WritersAssumption, FS_CardinalityType, FS_EmptySet
  <2>4. CASE Len(segs[s]) >= MaxMessages
    BY <2>1, <2>2, <2>3, <2>4 DEF LogInv, SegmentCap
  <2>5. CASE Len(segs[s]) < MaxMessages
    BY <2>1, <2>3, <2>5
  <2> QED
    BY <2>1, <2>4, <2>5
<1> QED
  BY <1>1, LogInvariant, PTL

-----------------------------------------------------------------------------
(* What was written stays.                                                 *)

\* No step removes a message from a segment, nor a segment.
LEMMA LinesGrow ==
    ASSUME LogInv, [Next]_vars
    PROVE  \A s \in DOMAIN segs : /\ s \in DOMAIN segs'
                                  /\ LinesOf(s) \cap Messages \subseteq LinesOf(s)'
<1>1. LogTypeOK /\ ValuesAssumption
  BY ValuesAssumption DEF LogInv, TypeOK
<1>2. ASSUME segs' = segs
      PROVE  \A s \in DOMAIN segs : s \in DOMAIN segs' /\ LinesOf(s) \subseteq LinesOf(s)'
  BY <1>2 DEF LinesOf
<1>3. ASSUME NEW w \in Writers, NEW x \in Lines, LineStep(w, x), NEW s \in DOMAIN segs
      PROVE  s \in DOMAIN segs' /\ LinesOf(s) \cap Messages \subseteq LinesOf(s)'
  <2>1. CASE s # wseg[w]
    BY <1>3, <2>1 DEF LineStep, LinesOf
  <2>2. CASE s = wseg[w]
    <3>1. /\ segs[s] \in Seq(Lines) /\ segs'[s] = Written(segs[s], x)
          /\ s \in DOMAIN segs'
      BY <1>1, <1>3, <2>2 DEF LineStep, LogTypeOK
    <3>2. /\ Len(segs'[s]) \in Len(segs[s])..(Len(segs[s]) + 1)
          /\ Len(segs[s]) \in Nat
          /\ \A i \in 1..Len(segs[s]) : segs[s][i] # Torn => segs'[s][i] = segs[s][i]
      BY <3>1, WrittenLines
    <3> QED
      BY <1>1, <3>1, <3>2 DEF LinesOf, ValuesAssumption
  <2> QED
    BY <2>1, <2>2
<1>4. ASSUME NEW w \in Writers, Choose(w), NEW s \in DOMAIN segs
      PROVE  s \in DOMAIN segs' /\ LinesOf(s) \subseteq LinesOf(s)'
  <2>1. s \in DOMAIN segs' /\ segs'[s] = segs[s]
    BY <1>4, ChooseEffect
  <2> QED
    BY <2>1 DEF LinesOf
<1>5. ASSUME NEW w \in Writers, Write(w) \/ TearWrite(w), NEW s \in DOMAIN segs
      PROVE  s \in DOMAIN segs' /\ LinesOf(s) \cap Messages \subseteq LinesOf(s)'
  BY <1>3, <1>5, WriteEffect, TearEffect
<1>6. ASSUME NEW w \in Writers, \/ \E m \in Messages : Locate(w, m)
                                \/ Ack(w) \/ CrashWriter(w)
      PROVE  segs' = segs
  BY <1>6 DEF Locate, Ack, CrashWriter, logVars
<1>7. ASSUME NEW p \in Pollers, PollStep(p) \/ CrashPoller(p) PROVE segs' = segs
  BY <1>7 DEF PollStep, LoadCursor, Glob, ReadSegment, ReturnEmpty, Mark,
              SaveBegin, SaveEnd, Return, CrashPoller, logVars
<1>8. ASSUME NEW a \in Agents, SaveElsewhereBegin(a) \/ SaveElsewhereEnd(a)
      PROVE  segs' = segs
  BY <1>8 DEF SaveElsewhereBegin, SaveElsewhereEnd, logVars
<1>9. UNCHANGED vars => segs' = segs
  BY DEF vars, logVars
<1> QED
  BY <1>2, <1>4, <1>5, <1>6, <1>7, <1>8, <1>9 DEF Next, WriterStep

\* What append_message wrote is there when it returns.
AckInv ==
    /\ \A s \in DOMAIN segs : segs[s] \in Seq(Messages)
    /\ \A w \in Writers : wpc[w] = "written" => wmsg[w] \in LinesOf(wseg[w])
    /\ AckedStored

LEMMA AckStep ==
    ASSUME ~TornWrites, LogInv, AckInv, [Next]_vars
    PROVE  AckInv'
<1>1. /\ LogTypeOK /\ WriterTypeOK /\ LogTypeOK' /\ WriterTypeOK'
      /\ ValuesAssumption
  BY TypeStep, ValuesAssumption DEF LogInv, TypeOK
<1>2. \A s \in DOMAIN segs : /\ s \in DOMAIN segs'
                             /\ LinesOf(s) \cap Messages \subseteq LinesOf(s)'
  BY LinesGrow
<1>3. ASSUME UNCHANGED <<wmsg, wseg>>, acked' = acked,
             \A s \in DOMAIN segs' : segs'[s] \in Seq(Messages),
             \A w \in Writers : wpc'[w] = "written" => wpc[w] = "written"
      PROVE  AckInv'
  BY <1>1, <1>2, <1>3 DEF AckInv, AckedStored, WriterTypeOK
<1>4. ASSUME NEW w \in Writers, NEW m \in Messages, Locate(w, m) PROVE AckInv'
  <2>1. UNCHANGED <<segs, acked>> /\ wpc'[w] = "located"
    BY <1>1, <1>4 DEF Locate, logVars, WriterTypeOK
  <2>2. \A v \in Writers \ {w} : wpc'[v] = wpc[v] /\ wmsg'[v] = wmsg[v] /\ wseg'[v] = wseg[v]
    BY <1>1, <1>4 DEF Locate, WriterTypeOK
  <2> QED
    BY <1>1, <2>1, <2>2 DEF AckInv, AckedStored, LinesOf, CursorOf
<1>5. ASSUME NEW w \in Writers, Choose(w) PROVE AckInv'
  <2>1. /\ wpc' = [wpc EXCEPT ![w] = "chosen"] /\ wpc[w] = "located"
        /\ \A v \in Writers \ {w} : wseg'[v] = wseg[v]
        /\ wmsg' = wmsg /\ acked' = acked
    <3>1. wseg' = [wseg EXCEPT ![w] = wseg'[w]]
      BY <1>5, ChooseEffect
    <3> QED
      BY <1>1, <1>5, <3>1, ChooseEffect DEF Choose, WriterTypeOK
  <2>2. \A s \in DOMAIN segs' : segs'[s] \in Seq(Messages)
    <3>1. /\ \A s \in DOMAIN segs : segs'[s] = segs[s]
          /\ \A s \in DOMAIN segs' \ DOMAIN segs : segs'[s] = <<>>
      BY <1>5, ChooseEffect
    <3>2. <<>> \in Seq(Messages)
      OBVIOUS
    <3> QED
      BY <3>1, <3>2 DEF AckInv
  <2>3. \A v \in Writers : wpc'[v] = "written" =>
                              wpc[v] = "written" /\ wseg'[v] = wseg[v]
    BY <1>1, <2>1 DEF WriterTypeOK
  <2> QED
    BY <1>1, <1>2, <2>1, <2>2, <2>3 DEF AckInv, AckedStored, WriterTypeOK
<1>6. ASSUME NEW w \in Writers, Write(w) PROVE AckInv'
  <2> DEFINE s == wseg[w]
             m == wmsg[w]
  <2>1. LineStep(w, m) /\ m \in Messages
    BY <1>6, WriteEffect
  <2>2. /\ s \in DOMAIN segs /\ DOMAIN segs' = DOMAIN segs
        /\ segs'[s] = Written(segs[s], m) /\ segs[s] \in Seq(Messages)
        /\ \A t \in DOMAIN segs : t # s => segs'[t] = segs[t]
    BY <2>1 DEF LineStep, AckInv
  <2>3. segs[s] \in Seq(Lines) /\ \A i \in 1..Len(segs[s]) : segs[s][i] # Torn
    BY <1>1, <2>2 DEF ValuesAssumption
  <2>4. segs'[s] = Append(segs[s], m)
    BY <2>1, <2>2, <2>3, WrittenLines
  <2>5. m \in LinesOf(s)'
    <3>1. /\ Len(segs'[s]) = Len(segs[s]) + 1 /\ Len(segs[s]) \in Nat
          /\ segs'[s][Len(segs[s]) + 1] = m
      BY <2>1, <2>2, <2>4
    <3>2. s' = s
      BY <1>6 DEF Write
    <3> QED
      BY <3>1, <3>2 DEF LinesOf
  <2>6. \A t \in DOMAIN segs' : segs'[t] \in Seq(Messages)
    <3>1. Append(segs[s], m) \in Seq(Messages)
      BY <2>1, <2>2
    <3> HIDE DEF s, m
    <3> QED
      BY <2>2, <2>4, <3>1 DEF AckInv
  <2>7. /\ wmsg' = wmsg /\ wseg' = wseg /\ acked' = acked
        /\ \A v \in Writers \ {w} : wpc'[v] = wpc[v]
    BY <1>6 DEF Write
  <2> QED
    BY <1>1, <1>2, <2>5, <2>6, <2>7 DEF AckInv, AckedStored, WriterTypeOK
<1>7. ASSUME NEW w \in Writers, Ack(w) PROVE AckInv'
  <2>1. /\ wpc[w] = "written" /\ UNCHANGED <<segs, wmsg, wseg>>
        /\ acked' = acked \cup {CursorOf(w)}
        /\ wpc' = [wpc EXCEPT ![w] = "idle"]
    BY <1>7 DEF Ack, logVars
  <2>2. wseg[w] \in DOMAIN segs /\ wmsg[w] \in LinesOf(wseg[w])
    BY <1>1, <2>1 DEF AckInv, WriterTypeOK
  <2>3. \A v \in Writers : wpc'[v] = "written" => wpc[v] = "written"
    BY <1>1, <2>1 DEF WriterTypeOK
  <2>5. AckedStored'
    BY <1>1, <2>1, <2>2 DEF AckInv, AckedStored, LinesOf, CursorOf
  <2>6. \A v \in Writers : wpc'[v] = "written" => (wmsg[v] \in LinesOf(wseg[v]))'
    BY <2>1, <2>3 DEF AckInv, LinesOf
  <2> QED
    BY <2>1, <2>5, <2>6 DEF AckInv
<1>8. ASSUME NEW w \in Writers, CrashWriter(w) PROVE AckInv'
  BY <1>1, <1>3, <1>8 DEF CrashWriter, logVars, AckInv, WriterTypeOK
<1>9. ASSUME NEW w \in Writers, TearWrite(w) PROVE AckInv'
  BY <1>9 DEF TearWrite
<1>10. ASSUME UNCHANGED <<logVars, writerVars>> PROVE AckInv'
  BY <1>3, <1>10 DEF logVars, writerVars, AckInv
<1>11. ASSUME NEW p \in Pollers, PollStep(p) \/ CrashPoller(p)
       PROVE  UNCHANGED <<logVars, writerVars>>
  BY <1>11 DEF PollStep, LoadCursor, Glob, ReadSegment, ReturnEmpty, Mark,
               SaveBegin, SaveEnd, Return, CrashPoller
<1>12. ASSUME NEW a \in Agents, SaveElsewhereBegin(a) \/ SaveElsewhereEnd(a)
       PROVE  UNCHANGED <<logVars, writerVars>>
  BY <1>12 DEF SaveElsewhereBegin, SaveElsewhereEnd
<1>13. CASE UNCHANGED vars
  BY <1>10, <1>13 DEF vars
<1> QED
  BY <1>4, <1>5, <1>6, <1>7, <1>8, <1>9, <1>10, <1>11, <1>12, <1>13
     DEF Next, WriterStep

\* Unless a write is cut short, a message whose append_message returned stays
\* in the segment its cursor names: no race for the segment, no crash between
\* two steps and no later write removes it.
THEOREM Stored == ASSUME ~TornWrites PROVE Spec => []AckedStored
<1>1. Init => AckInv
  BY DEF Init, AckInv, AckedStored
<1>2. LogInv /\ AckInv /\ [Next]_vars => AckInv'
  BY AckStep
<1>3. AckInv => AckedStored
  BY DEF AckInv
<1> QED
  BY <1>1, <1>2, <1>3, LogInvariant, PTL DEF Spec

-----------------------------------------------------------------------------
(* Cursors.                                                                *)

Resolves(c) == c.segment \in Visible /\ c.id \in LinesOf(c.segment)

\* A poll only saves a cursor it found in the segments.
ResolveInv ==
    /\ CursorResolves
    /\ \A p \in Pollers : ppc[p] \in {"marking", "saving"} => Resolves(pcur[p])

LEMMA ResolveStep ==
    ASSUME LogInv, ResolveInv, [Next]_vars
    PROVE  ResolveInv'
<1>1. TypeOK /\ TypeOK'
  BY TypeStep DEF LogInv
<1>2. CursorTypeOK /\ PollTypeOK /\ CursorTypeOK' /\ PollTypeOK'
  BY <1>1 DEF TypeOK
<1>3. ASSUME NEW c \in CursorRec, Resolves(c) PROVE Resolves(c)'
  <2>1. /\ c.segment \in DOMAIN segs /\ c.segment <= GlobLimit
        /\ c.id \in LinesOf(c.segment) \cap Messages
    BY <1>3 DEF Resolves, Visible
  <2> QED
    BY <2>1, LinesGrow DEF Resolves, Visible
<1>4. \A a \in Agents : cursor[a] # None =>
          cursor[a] \in CursorRec /\ Resolves(cursor[a])
  BY <1>2 DEF CursorTypeOK, ResolveInv, CursorResolves, Resolves
<1>5. \A p \in Pollers : ppc[p] \in {"marking", "saving"} =>
          pcur[p] \in CursorRec /\ Resolves(pcur[p])
  BY <1>2 DEF PollTypeOK, ResolveInv
<1>6. ASSUME \A a \in Agents : cursor'[a] # None => cursor'[a] = cursor[a],
             \A p \in Pollers : ppc'[p] \in {"marking", "saving"} =>
                 ppc[p] \in {"marking", "saving"} /\ pcur'[p] = pcur[p]
      PROVE  ResolveInv'
  <2>1. CursorResolves'
    BY <1>2, <1>3, <1>4, <1>6 DEF CursorResolves, Resolves, CursorTypeOK
  <2>2. \A p \in Pollers : ppc'[p] \in {"marking", "saving"} => Resolves(pcur[p])'
    BY <1>3, <1>5, <1>6 DEF Resolves
  <2> QED
    BY <2>1, <2>2 DEF ResolveInv
<1>7. ASSUME NEW w \in Writers, WriterStep(w) \/ CrashWriter(w) \/ TearWrite(w)
      PROVE  ResolveInv'
  <2>1. UNCHANGED <<cursor, ppc, pcur>>
    BY <1>7 DEF WriterStep, Locate, Choose, Write, Ack, CrashWriter, TearWrite,
                cursorVars, pollVars
  <2> QED
    BY <1>6, <2>1
<1>8. ASSUME NEW p \in Pollers, UNCHANGED cursor,
             \/ LoadCursor(p) \/ Glob(p) \/ ReadSegment(p) \/ ReturnEmpty(p)
             \/ SaveBegin(p) \/ Return(p) \/ Leave(p)
      PROVE  ResolveInv'
  <2>1. \A q \in Pollers : ppc'[q] \in {"marking", "saving"} =>
            ppc[q] \in {"marking", "saving"} /\ pcur'[q] = pcur[q]
    BY <1>2, <1>8 DEF LoadCursor, Glob, ReadSegment, ReturnEmpty, SaveBegin, Return,
                      Leave, PollTypeOK
  <2> QED
    BY <1>6, <1>8, <2>1
<1>9. ASSUME NEW p \in Pollers, Mark(p) PROVE ResolveInv'
  <2> DEFINE m == LastGot(p)
  <2>1. cursor' = cursor /\ segs' = segs
    BY <1>9 DEF Mark, cursorVars, logVars
  <2>2. PICK s \in Visible :
          /\ m \in LinesOf(s)
          /\ \/ Leave(p)
             \/ /\ pcur' = [pcur EXCEPT ![p] = [id |-> m, segment |-> s]]
                /\ ppc' = [ppc EXCEPT ![p] = "marking"]
    BY <1>9 DEF Mark, IsSegmentOf
  <2>3. CASE Leave(p)
    BY <1>8, <2>1, <2>3
  <2>4. CASE /\ pcur' = [pcur EXCEPT ![p] = [id |-> m, segment |-> s]]
             /\ ppc' = [ppc EXCEPT ![p] = "marking"]
    <3> DEFINE c == [id |-> m, segment |-> s]
    <3>1. Resolves(c)
      BY <2>2 DEF Resolves
    <3>2. pcur'[p] = c /\ \A q \in Pollers \ {p} : pcur'[q] = pcur[q] /\ ppc'[q] = ppc[q]
      BY <1>2, <2>4 DEF PollTypeOK
    <3> HIDE DEF c
    <3>3. \A q \in Pollers : ppc'[q] \in {"marking", "saving"} => Resolves(pcur'[q])
      BY <1>5, <3>1, <3>2
    <3> QED
      BY <2>1, <3>3 DEF ResolveInv, CursorResolves, Resolves, Visible, LinesOf
  <2> QED
    BY <2>2, <2>3, <2>4
<1>10. ASSUME NEW p \in Pollers, SaveEnd(p) PROVE ResolveInv'
  <2>1. /\ segs' = segs /\ ppc[p] = "saving" /\ pcur' = pcur
        /\ cursor' = [cursor EXCEPT ![AgentOf[p]] = pcur[p]]
        /\ ppc' = [ppc EXCEPT ![p] = "returning"]
    BY <1>10 DEF SaveEnd, logVars
  <2>2. \A a \in Agents : cursor'[a] # None => Resolves(cursor'[a])
    BY <1>2, <1>4, <1>5, <2>1, AgentsAssumption DEF CursorTypeOK
  <2>3. \A q \in Pollers : ppc'[q] \in {"marking", "saving"} =>
            ppc[q] \in {"marking", "saving"}
    BY <1>2, <2>1 DEF PollTypeOK
  <2>4. CursorResolves'
    BY <2>1, <2>2 DEF CursorResolves, Resolves, Visible, LinesOf
  <2>5. \A q \in Pollers : ppc'[q] \in {"marking", "saving"} => Resolves(pcur[q])'
    BY <1>5, <2>1, <2>3 DEF Resolves, Visible, LinesOf
  <2> QED
    BY <2>4, <2>5 DEF ResolveInv
<1>11. ASSUME NEW p \in Pollers, CrashPoller(p) PROVE ResolveInv'
  <2>1. \A a \in Agents : cursor'[a] # None => cursor'[a] = cursor[a]
    BY <1>2, <1>11, AgentsAssumption DEF CrashPoller, cursorVars, CursorTypeOK
  <2>2. Leave(p)
    BY <1>11 DEF CrashPoller
  <2> QED
    BY <1>2, <1>6, <2>1, <2>2 DEF Leave, PollTypeOK
<1>12. ASSUME NEW a \in Agents, SaveElsewhereBegin(a) \/ SaveElsewhereEnd(a)
       PROVE  ResolveInv'
  BY <1>6, <1>12 DEF SaveElsewhereBegin, SaveElsewhereEnd, pollVars
<1>13. CASE UNCHANGED vars
  BY <1>6, <1>13 DEF vars, cursorVars, pollVars
<1>14. ASSUME NEW p \in Pollers,
              LoadCursor(p) \/ Glob(p) \/ ReadSegment(p) \/ ReturnEmpty(p)
                \/ SaveBegin(p) \/ Return(p)
       PROVE  UNCHANGED cursor
  BY <1>14 DEF LoadCursor, Glob, ReadSegment, ReturnEmpty, SaveBegin, Return, cursorVars
<1> QED
  BY <1>7, <1>8, <1>9, <1>10, <1>11, <1>12, <1>13, <1>14 DEF Next, PollStep

\* A saved cursor always resolves: the file that holds an agent's cursor never
\* names a line list_messages cannot find, whoever else polls for the agent,
\* crashes or writes in the meantime.
THEOREM Resolvable == Spec => []CursorResolves
<1>1. Init => ResolveInv
  BY DEF Init, ResolveInv, CursorResolves
<1>2. LogInv /\ ResolveInv /\ [Next]_vars => ResolveInv'
  BY ResolveStep
<1>3. ResolveInv => CursorResolves
  BY DEF ResolveInv
<1> QED
  BY <1>1, <1>2, <1>3, LogInvariant, PTL DEF Spec

-----------------------------------------------------------------------------
(* What an agent that polls a room is handed: nothing twice, and its       *)
(* cursor never goes back.                                                 *)

\* No crash, no line cut short, no other room in the cursor file, and one poller
\* for each agent.
Undisturbed ==
    /\ ~TornWrites /\ MaxCrashes = 0 /\ SharedCursors = {}
    /\ \A p, q \in Pollers : AgentOf[p] = AgentOf[q] => p = q

\* Message m comes before n in the log.
Before(m, n) ==
    \E s, t \in DOMAIN segs : \E i \in 1..Len(segs[s]), j \in 1..Len(segs[t]) :
        segs[s][i] = m /\ segs[t][j] = n /\ (s < t \/ (s = t /\ i < j))

Reached(m, c) == c # None /\ (m = c.id \/ Before(m, c.id))

Distinct(q)   == \A i, j \in 1..Len(q) : q[i] = q[j] => i = j
Increasing(q) == \A i, j \in 1..Len(q) : i < j => Before(q[i], q[j])

\* A message is in the log once, and what a writer is about to write is not.
Pending(w) == wpc[w] \in {"located", "chosen"}

LinesOnce ==
    /\ \A s, t \in DOMAIN segs : \A i \in 1..Len(segs[s]), j \in 1..Len(segs[t]) :
          segs[s][i] = segs[t][j] => s = t /\ i = j
    /\ \A s \in DOMAIN segs : LinesOf(s) \subseteq used
    /\ \A w \in Writers : Pending(w) =>
          /\ wmsg[w] \in used
          /\ \A s \in DOMAIN segs : wmsg[w] \notin LinesOf(s)
    /\ \A v, w \in Writers : Pending(v) /\ Pending(w) /\ wmsg[v] = wmsg[w] => v = w

Cur(p) == cursor[AgentOf[p]]

\* A poll that reads goes on from the saved cursor, which no one else moves.
\* What it has collected is of segments before those it is still to read, and
\* empty until it has met the cursor's line.
ReadOK(p) ==
    /\ ppc[p] \in {"idle", "loaded"} => pgot[p] = <<>>
    /\ ppc[p] \in {"loaded", "reading"} => pcur[p] = Cur(p)
    /\ ppc[p] = "loaded" => (pfound[p] <=> pcur[p] = None)
    /\ ppc[p] = "reading" =>
          /\ ~pfound[p] => /\ pgot[p] = <<>> /\ pcur[p].segment \in ptodo[p]
                           /\ \A s \in ptodo[p] : pcur[p].segment <= s
          /\ pfound[p] /\ pcur[p] # None => \A s \in ptodo[p] : pcur[p].segment < s
          /\ \A m \in InLine(pgot[p]) :
                \E t \in DOMAIN segs : m \in LinesOf(t) /\ \A s \in ptodo[p] : t < s

\* What it has collected is in the order of the log, and comes after the saved
\* cursor until that is the last of it.
BatchOK(p) ==
    /\ ppc[p] \in {"loaded", "reading", "marking", "saving"} =>
          /\ Increasing(pgot[p])
          /\ Cur(p) # None => \A m \in InLine(pgot[p]) : Before(Cur(p).id, m)
    /\ ppc[p] \in {"marking", "saving"} => pgot[p] # <<>> /\ pcur[p].id = LastGot(p)
    /\ ppc[p] = "returning" =>
          /\ Distinct(pgot[p])
          /\ \A m \in InLine(pgot[p]) :
                Reached(m, Cur(p)) /\ m \notin InLine(inbox[AgentOf[p]])

\* What an agent was handed its cursor has passed.
InboxOK(a) == Distinct(inbox[a]) /\ \A m \in InLine(inbox[a]) : Reached(m, cursor[a])

\* A cursor file is locked only by the agent's own poll.
LockOK(a) ==
    lock[a] # None =>
        lock[a] \in Pollers /\ AgentOf[lock[a]] = a /\ ppc[lock[a]] = "saving"

PollInv ==
    /\ \A a \in Agents : InboxOK(a) /\ LockOK(a)
    /\ \A p \in Pollers : ReadOK(p) /\ BatchOK(p)

-----------------------------------------------------------------------------
(* The order of the log.                                                   *)

LEMMA BeforeIrreflexive ==
    ASSUME LogTypeOK, LinesOnce, NEW m
    PROVE  ~Before(m, m)
<1> SUFFICES ASSUME Before(m, m) PROVE FALSE
  OBVIOUS
<1>1. PICK s, t \in DOMAIN segs : \E i \in 1..Len(segs[s]), j \in 1..Len(segs[t]) :
          segs[s][i] = m /\ segs[t][j] = m /\ (s < t \/ (s = t /\ i < j))
  BY DEF Before
<1>2. PICK i \in 1..Len(segs[s]), j \in 1..Len(segs[t]) :
          segs[s][i] = m /\ segs[t][j] = m /\ (s < t \/ (s = t /\ i < j))
  BY <1>1
<1>3. s = t /\ i = j
  BY <1>2 DEF LinesOnce
<1>4. s \in Nat /\ i \in Int
  BY DEF LogTypeOK
<1> QED
  BY <1>2, <1>3, <1>4

LEMMA BeforeTransitive ==
    ASSUME LogTypeOK, LinesOnce, NEW m, NEW n, NEW o, Before(m, n), Before(n, o)
    PROVE  Before(m, o)
<1>1. PICK s, t \in DOMAIN segs : \E i \in 1..Len(segs[s]), j \in 1..Len(segs[t]) :
          segs[s][i] = m /\ segs[t][j] = n /\ (s < t \/ (s = t /\ i < j))
  BY DEF Before
<1>2. PICK i \in 1..Len(segs[s]), j \in 1..Len(segs[t]) :
          segs[s][i] = m /\ segs[t][j] = n /\ (s < t \/ (s = t /\ i < j))
  BY <1>1
<1>3. PICK u, v \in DOMAIN segs : \E k \in 1..Len(segs[u]), l \in 1..Len(segs[v]) :
          segs[u][k] = n /\ segs[v][l] = o /\ (u < v \/ (u = v /\ k < l))
  BY DEF Before
<1>4. PICK k \in 1..Len(segs[u]), l \in 1..Len(segs[v]) :
          segs[u][k] = n /\ segs[v][l] = o /\ (u < v \/ (u = v /\ k < l))
  BY <1>3
<1>5. u = t /\ k = j
  BY <1>2, <1>4 DEF LinesOnce
<1>6. s \in Nat /\ t \in Nat /\ v \in Nat /\ i \in Int /\ j \in Int /\ l \in Int
  BY DEF LogTypeOK
<1>7. s < v \/ (s = v /\ i < l)
  BY <1>2, <1>4, <1>5, <1>6
<1> QED
  BY <1>2, <1>4, <1>7 DEF Before

\* No step moves a line.
Grows ==
    /\ \A s \in DOMAIN segs :
          /\ s \in DOMAIN segs' /\ Len(segs[s]) \in Nat /\ Len(segs'[s]) \in Nat
          /\ Len(segs[s]) <= Len(segs'[s])
          /\ \A i \in 1..Len(segs[s]) : segs'[s][i] = segs[s][i]

LEMMA Growing ==
    ASSUME Grows
    PROVE  /\ \A m, n : Before(m, n) => Before(m, n)'
           /\ \A m, c : Reached(m, c) => Reached(m, c)'
           /\ \A s \in DOMAIN segs : s \in DOMAIN segs' /\ LinesOf(s) \subseteq LinesOf(s)'
<1>1. ASSUME NEW m, NEW n, Before(m, n) PROVE Before(m, n)'
  <2>1. PICK s, t \in DOMAIN segs : \E i \in 1..Len(segs[s]), j \in 1..Len(segs[t]) :
            segs[s][i] = m /\ segs[t][j] = n /\ (s < t \/ (s = t /\ i < j))
    BY <1>1 DEF Before
  <2>2. PICK i \in 1..Len(segs[s]), j \in 1..Len(segs[t]) :
            segs[s][i] = m /\ segs[t][j] = n /\ (s < t \/ (s = t /\ i < j))
    BY <2>1
  <2>3. /\ s \in DOMAIN segs' /\ i \in 1..Len(segs'[s]) /\ segs'[s][i] = m
        /\ t \in DOMAIN segs' /\ j \in 1..Len(segs'[t]) /\ segs'[t][j] = n
    BY <2>2 DEF Grows
  <2> QED
    BY <2>2, <2>3 DEF Before
<1>2. ASSUME NEW s \in DOMAIN segs
      PROVE  s \in DOMAIN segs' /\ LinesOf(s) \subseteq LinesOf(s)'
  BY DEF Grows, LinesOf
<1> QED
  BY <1>1, <1>2 DEF Reached

\* The line of a writer goes to the end of the segment it chose.
LEMMA Appends ==
    ASSUME LogInv, AckInv, NEW w \in Writers, Write(w)
    PROVE  /\ wseg[w] \in DOMAIN segs /\ DOMAIN segs' = DOMAIN segs
           /\ wmsg[w] \in Messages /\ segs[wseg[w]] \in Seq(Messages)
           /\ segs'[wseg[w]] = Append(segs[wseg[w]], wmsg[w])
           /\ \A s \in DOMAIN segs : s # wseg[w] => segs'[s] = segs[s]
<1> DEFINE q == segs[wseg[w]]
<1>1. LineStep(w, wmsg[w]) /\ wmsg[w] \in Messages
  BY WriteEffect
<1>2. /\ wseg[w] \in DOMAIN segs /\ DOMAIN segs' = DOMAIN segs
      /\ segs'[wseg[w]] = Written(q, wmsg[w])
      /\ \A s \in DOMAIN segs : s # wseg[w] => segs'[s] = segs[s]
  BY <1>1 DEF LineStep
<1>3. q \in Seq(Messages) /\ q \in Seq(Lines)
  BY <1>2 DEF AckInv, LogInv, TypeOK, LogTypeOK
<1>4. \A i \in 1..Len(q) : q[i] # Torn
  BY <1>3, ValuesAssumption
<1>5. wmsg[w] \in Lines
  BY <1>1 DEF Lines
<1>6. Written(q, wmsg[w]) = Append(q, wmsg[w])
  <2> HIDE DEF q
  <2> QED
    BY <1>1, <1>3, <1>4, <1>5, WrittenLines
<1> QED
  BY <1>1, <1>2, <1>3, <1>6

\* The other steps leave the lines there are.
LEMMA OtherSteps ==
    ASSUME ~TornWrites, LogInv, [Next]_vars,
           ~\E w \in Writers : Write(w)
    PROVE  /\ \A s \in DOMAIN segs : s \in DOMAIN segs' /\ segs'[s] = segs[s]
           /\ \A s \in DOMAIN segs' \ DOMAIN segs : segs'[s] = <<>>
<1>1. ASSUME NEW w \in Writers, Choose(w)
      PROVE  /\ \A s \in DOMAIN segs : s \in DOMAIN segs' /\ segs'[s] = segs[s]
             /\ \A s \in DOMAIN segs' \ DOMAIN segs : segs'[s] = <<>>
  BY <1>1, ChooseEffect
<1>2. ASSUME NEW w \in Writers, ~Choose(w), ~Write(w),
             WriterStep(w) \/ CrashWriter(w) \/ TearWrite(w)
      PROVE  segs' = segs
  BY <1>2 DEF WriterStep, Locate, Ack, CrashWriter, TearWrite, logVars
<1>3. ASSUME NEW p \in Pollers, PollStep(p) \/ CrashPoller(p) PROVE segs' = segs
  BY <1>3 DEF PollStep, LoadCursor, Glob, ReadSegment, ReturnEmpty, Mark,
              SaveBegin, SaveEnd, Return, CrashPoller, logVars
<1>4. ASSUME NEW a \in Agents, SaveElsewhereBegin(a) \/ SaveElsewhereEnd(a)
      PROVE  segs' = segs
  BY <1>4 DEF SaveElsewhereBegin, SaveElsewhereEnd, logVars
<1>5. UNCHANGED vars => segs' = segs
  BY DEF vars, logVars
<1> QED
  BY <1>1, <1>2, <1>3, <1>4, <1>5 DEF Next

LEMMA GrowStep ==
    ASSUME ~TornWrites, LogInv, AckInv, [Next]_vars
    PROVE  Grows
<1>1. \A s \in DOMAIN segs : segs[s] \in Seq(Messages) /\ Len(segs[s]) \in Nat
  BY DEF AckInv
<1>2. ASSUME NEW w \in Writers, Write(w) PROVE Grows
  <2>1. /\ wseg[w] \in DOMAIN segs /\ DOMAIN segs' = DOMAIN segs
        /\ wmsg[w] \in Messages /\ segs[wseg[w]] \in Seq(Messages)
        /\ segs'[wseg[w]] = Append(segs[wseg[w]], wmsg[w])
        /\ \A s \in DOMAIN segs : s # wseg[w] => segs'[s] = segs[s]
    BY <1>2, Appends
  <2>2. /\ Len(segs'[wseg[w]]) = Len(segs[wseg[w]]) + 1
        /\ \A i \in 1..Len(segs[wseg[w]]) : segs'[wseg[w]][i] = segs[wseg[w]][i]
    BY <2>1
  <2> QED
    BY <1>1, <2>1, <2>2 DEF Grows
<1>3. CASE ~\E w \in Writers : Write(w)
  BY <1>1, <1>3, OtherSteps DEF Grows
<1> QED
  BY <1>2, <1>3

LEMMA LinesOnceStep ==
    ASSUME ~TornWrites, LogInv, AckInv, LinesOnce, [Next]_vars
    PROVE  LinesOnce'
<1>0. /\ wpc \in [Writers -> {"idle", "located", "chosen", "written"}]
      /\ wmsg \in [Writers -> Messages \cup {None}]
      /\ \A s \in DOMAIN segs : segs[s] \in Seq(Messages) /\ Len(segs[s]) \in Nat
  BY DEF LogInv, TypeOK, WriterTypeOK, AckInv
<1>1. ASSUME NEW w \in Writers, Write(w) PROVE LinesOnce'
  <2> DEFINE s == wseg[w]
             n == Len(segs[wseg[w]])
  <2>1. /\ s \in DOMAIN segs /\ DOMAIN segs' = DOMAIN segs
        /\ wmsg[w] \in Messages /\ segs[s] \in Seq(Messages)
        /\ segs'[s] = Append(segs[s], wmsg[w])
        /\ \A t \in DOMAIN segs : t # s => segs'[t] = segs[t]
    BY <1>1, Appends
  <2>2. /\ n \in Nat /\ Len(segs'[s]) = n + 1 /\ segs'[s][n + 1] = wmsg[w]
        /\ \A i \in 1..n : segs'[s][i] = segs[s][i]
    BY <2>1
  <2>3. /\ wpc[w] = "chosen" /\ wpc' = [wpc EXCEPT ![w] = "written"]
        /\ UNCHANGED <<used, wmsg, wseg>>
    BY <1>1 DEF Write
  <2>4. Pending(w) /\ \A v \in Writers : Pending(v)' => Pending(v) /\ v # w
    BY <1>0, <2>3 DEF Pending
  <2>5. /\ wmsg[w] \in used /\ \A t \in DOMAIN segs : wmsg[w] \notin LinesOf(t)
        /\ \A v \in Writers : Pending(v)' => wmsg[v] # wmsg[w]
    BY <2>4 DEF LinesOnce
  <2> HIDE DEF s, n
  <2>6. \A t \in DOMAIN segs : \A i \in 1..Len(segs'[t]) :
            \/ i \in 1..Len(segs[t]) /\ segs'[t][i] = segs[t][i] /\ segs'[t][i] # wmsg[w]
            \/ t = s /\ i = n + 1 /\ segs'[t][i] = wmsg[w]
    <3> SUFFICES ASSUME NEW t \in DOMAIN segs, NEW i \in 1..Len(segs'[t])
                 PROVE  \/ /\ i \in 1..Len(segs[t]) /\ segs'[t][i] = segs[t][i]
                           /\ segs'[t][i] # wmsg[w]
                        \/ t = s /\ i = n + 1 /\ segs'[t][i] = wmsg[w]
      OBVIOUS
    <3>1. \A j \in 1..Len(segs[t]) : segs[t][j] # wmsg[w]
      BY <2>5 DEF LinesOf
    <3>2. CASE t # s
      BY <2>1, <3>1, <3>2
    <3>3. CASE t = s
      <4>1. n = Len(segs[t])
        BY <3>3 DEF n, s
      <4> QED
        BY <2>2, <3>1, <3>3, <4>1
    <3> QED
      BY <3>2, <3>3
  <2>7. \A t \in DOMAIN segs : LinesOf(t)' \subseteq LinesOf(t) \cup {wmsg[w]}
    BY <2>6 DEF LinesOf
  <2>8. \A t, u \in DOMAIN segs' : \A i \in 1..Len(segs'[t]), j \in 1..Len(segs'[u]) :
            segs'[t][i] = segs'[u][j] => t = u /\ i = j
    BY <2>1, <2>6 DEF LinesOnce
  <2>9. \A t \in DOMAIN segs' : LinesOf(t)' \subseteq used'
    BY <2>1, <2>3, <2>5, <2>7 DEF LinesOnce
  <2>10. \A v \in Writers : Pending(v)' =>
            /\ wmsg'[v] \in used'
            /\ \A t \in DOMAIN segs' : wmsg'[v] \notin LinesOf(t)'
    BY <2>1, <2>3, <2>4, <2>5, <2>7 DEF LinesOnce
  <2>11. \A v, x \in Writers : Pending(v)' /\ Pending(x)' /\ wmsg'[v] = wmsg'[x] => v = x
    BY <2>3, <2>4 DEF LinesOnce
  <2> QED
    BY <2>8, <2>9, <2>10, <2>11 DEF LinesOnce
<1>2. ASSUME ~\E w \in Writers : Write(w),
             used \subseteq used',
             \A v \in Writers : Pending(v)' => Pending(v) /\ wmsg'[v] = wmsg[v]
      PROVE  LinesOnce'
  <2>1. /\ \A s \in DOMAIN segs : s \in DOMAIN segs' /\ segs'[s] = segs[s]
        /\ \A s \in DOMAIN segs' \ DOMAIN segs : segs'[s] = <<>>
    BY <1>2, OtherSteps
  <2>2. \A s \in DOMAIN segs' : \A i \in 1..Len(segs'[s]) :
            s \in DOMAIN segs /\ segs'[s] = segs[s]
    BY <2>1
  <2>3. \A s \in DOMAIN segs' :
            LinesOf(s)' = {} \/ (s \in DOMAIN segs /\ LinesOf(s)' = LinesOf(s))
    BY <2>1 DEF LinesOf
  <2>4. \A s, t \in DOMAIN segs' : \A i \in 1..Len(segs'[s]), j \in 1..Len(segs'[t]) :
            segs'[s][i] = segs'[t][j] => s = t /\ i = j
    BY <2>2 DEF LinesOnce
  <2> QED
    BY <1>2, <2>3, <2>4 DEF LinesOnce
<1>3. ASSUME NEW w \in Writers, NEW m \in Messages, Locate(w, m) PROVE LinesOnce'
  <2>1. /\ m \notin used /\ used' = used \cup {m} /\ segs' = segs
        /\ wmsg' = [wmsg EXCEPT ![w] = m] /\ wpc' = [wpc EXCEPT ![w] = "located"]
    BY <1>3 DEF Locate, logVars
  <2>2. \A v \in Writers : v # w => wmsg'[v] = wmsg[v] /\ (Pending(v)' <=> Pending(v))
    BY <1>0, <2>1 DEF Pending
  <2>3. wmsg'[w] = m /\ \A s \in DOMAIN segs : m \notin LinesOf(s)
    BY <1>0, <2>1 DEF LinesOnce
  <2>4. \A v \in Writers : Pending(v)' =>
            /\ wmsg'[v] \in used'
            /\ \A s \in DOMAIN segs : wmsg'[v] \notin LinesOf(s)
    BY <2>1, <2>2, <2>3 DEF LinesOnce
  <2>5. \A v, x \in Writers : Pending(v)' /\ Pending(x)' /\ wmsg'[v] = wmsg'[x] => v = x
    BY <2>1, <2>2, <2>3 DEF LinesOnce
  <2> QED
    BY <2>1, <2>4, <2>5 DEF LinesOnce, LinesOf
<1>4. ASSUME NEW w \in Writers, Choose(w) \/ Ack(w) \/ CrashWriter(w) \/ TearWrite(w),
             ~\E v \in Writers : Write(v)
      PROVE  LinesOnce'
  <2>1. UNCHANGED <<used, wmsg>> /\ \A v \in Writers : Pending(v)' => Pending(v)
    BY <1>0, <1>4 DEF Choose, Ack, CrashWriter, TearWrite, Pending
  <2> QED
    BY <1>2, <1>4, <2>1
<1>5. ASSUME ~\E w \in Writers : WriterStep(w) \/ CrashWriter(w) \/ TearWrite(w)
      PROVE  LinesOnce'
  <2>1. UNCHANGED writerVars /\ ~\E w \in Writers : Write(w)
    BY <1>5 DEF Next, WriterStep, PollStep, LoadCursor, Glob, ReadSegment, ReturnEmpty, Mark,
               SaveBegin, SaveEnd, Return, CrashPoller, SaveElsewhereBegin,
               SaveElsewhereEnd, vars
  <2> QED
    BY <1>2, <2>1 DEF writerVars, Pending
<1> QED
  BY <1>1, <1>3, <1>4, <1>5 DEF WriterStep

-----------------------------------------------------------------------------
(* The steps of others.                                                    *)

LEMMA PollKept ==
    ASSUME Grows, NEW p \in Pollers, ReadOK(p), BatchOK(p), ptodo[p] \subseteq DOMAIN segs,
           ppc'[p] = ppc[p], pcur'[p] = pcur[p], pfound'[p] = pfound[p],
           ptodo'[p] = ptodo[p], pgot'[p] = pgot[p],
           cursor'[AgentOf[p]] = cursor[AgentOf[p]], inbox'[AgentOf[p]] = inbox[AgentOf[p]]
    PROVE  ReadOK(p)' /\ BatchOK(p)'
<1>1. ReadOK(p)'
  <2>1. Cur(p)' = Cur(p) /\ InLine(pgot[p])' = InLine(pgot[p])
    BY DEF Cur, InLine
  <2>2. ASSUME ppc[p] = "reading", NEW m \in InLine(pgot[p])
        PROVE  (\E t \in DOMAIN segs : m \in LinesOf(t) /\ \A s \in ptodo[p] : t < s)'
    <3>1. PICK t \in DOMAIN segs : m \in LinesOf(t) /\ \A s \in ptodo[p] : t < s
      BY <2>2 DEF ReadOK
    <3>2. t \in DOMAIN segs' /\ m \in LinesOf(t)'
      BY <3>1, Growing
    <3> QED
      BY <3>1, <3>2
  <2> QED
    BY <2>1, <2>2 DEF ReadOK
<1>2. BatchOK(p)'
  <2>1. Increasing(pgot[p]) => Increasing(pgot[p])'
    BY Growing DEF Increasing
  <2>2. ASSUME Cur(p) # None => \A m \in InLine(pgot[p]) : Before(Cur(p).id, m)
        PROVE  (Cur(p) # None => \A m \in InLine(pgot[p]) : Before(Cur(p).id, m))'
    BY <2>2, Growing DEF Cur, InLine
  <2>3. /\ Distinct(pgot[p]) => Distinct(pgot[p])'
        /\ InLine(pgot[p])' = InLine(pgot[p])
        /\ InLine(inbox[AgentOf[p]])' = InLine(inbox[AgentOf[p]])
        /\ LastGot(p)' = LastGot(p)
    BY DEF Distinct, InLine, LastGot
  <2>4. \A m \in InLine(pgot[p]) : Reached(m, Cur(p)) => Reached(m, Cur(p))'
    BY Growing DEF Cur
  <2> QED
    BY <2>1, <2>2, <2>3, <2>4 DEF BatchOK
<1> QED
  BY <1>1, <1>2

LEMMA InboxKept ==
    ASSUME Grows, NEW a \in Agents, InboxOK(a), cursor'[a] = cursor[a], inbox'[a] = inbox[a]
    PROVE  InboxOK(a)'
BY Growing DEF InboxOK, Distinct, InLine

\* A step of one poller leaves the polls of other agents alone.
Own(p) ==
    /\ \A q \in Pollers \ {p} :
          /\ ppc'[q] = ppc[q] /\ pcur'[q] = pcur[q] /\ pfound'[q] = pfound[q]
          /\ ptodo'[q] = ptodo[q] /\ pgot'[q] = pgot[q]
    /\ \A a \in Agents \ {AgentOf[p]} :
          cursor'[a] = cursor[a] /\ lock'[a] = lock[a] /\ inbox'[a] = inbox[a]

LEMMA OwnStep ==
    ASSUME Undisturbed, TypeOK, PollInv, Grows, NEW p \in Pollers, Own(p),
           ReadOK(p)', BatchOK(p)', InboxOK(AgentOf[p])', LockOK(AgentOf[p])'
    PROVE  PollInv'
<1>1. ASSUME NEW q \in Pollers, q # p PROVE ReadOK(q)' /\ BatchOK(q)'
  <2>1. AgentOf[q] \in Agents \ {AgentOf[p]}
    BY <1>1, AgentsAssumption DEF Undisturbed
  <2>2. ptodo[q] \subseteq DOMAIN segs
    BY DEF TypeOK, PollTypeOK
  <2> QED
    BY <1>1, <2>1, <2>2, PollKept DEF Own, PollInv
<1>2. ASSUME NEW a \in Agents, a # AgentOf[p] PROVE InboxOK(a)' /\ LockOK(a)'
  <2>1. InboxOK(a)'
    BY <1>2, InboxKept DEF Own, PollInv
  <2>2. LockOK(a)'
    BY <1>2 DEF Own, PollInv, LockOK
  <2> QED
    BY <2>1, <2>2
<1> QED
  BY <1>1, <1>2 DEF PollInv

LEMMA OwnFrame ==
    ASSUME TypeOK, NEW p \in Pollers, PollStep(p)
    PROVE  Own(p) /\ segs' = segs
<1> USE AgentsAssumption DEF TypeOK, PollTypeOK, CursorTypeOK, Own, logVars, cursorVars, Leave
<1>1. CASE LoadCursor(p)
  BY <1>1 DEF LoadCursor
<1>2. CASE Glob(p)
  BY <1>2 DEF Glob
<1>3. CASE ReadSegment(p)
  <2>1. /\ UNCHANGED <<segs, cursor, lock, inbox>>
        /\ \/ Leave(p)
           \/ /\ \E q : pgot' = [pgot EXCEPT ![p] = q]
              /\ \E b : pfound' = [pfound EXCEPT ![p] = b]
              /\ \E t : ptodo' = [ptodo EXCEPT ![p] = t]
              /\ UNCHANGED <<ppc, pcur>>
    BY <1>3 DEF ReadSegment
  <2> QED
    BY <2>1
<1>4. CASE ReturnEmpty(p)
  BY <1>4 DEF ReturnEmpty
<1>5. CASE Mark(p)
  BY <1>5 DEF Mark
<1>6. CASE SaveBegin(p)
  BY <1>6 DEF SaveBegin
<1>7. CASE SaveEnd(p)
  BY <1>7 DEF SaveEnd
<1>8. CASE Return(p)
  BY <1>8 DEF Return
<1> QED
  BY <1>1, <1>2, <1>3, <1>4, <1>5, <1>6, <1>7, <1>8 DEF PollStep

-----------------------------------------------------------------------------
(* Reading a segment.                                                      *)

\* A poll keeps the end of a segment, from the line after the cursor's on.
LEMMA KeptEnd ==
    ASSUME NEW q \in Seq(Messages), Distinct(q), NEW c, NEW found \in BOOLEAN,
           NEW k \in 0..Len(q), IF found THEN k = 0 ELSE k # 0 /\ q[k] = c.id
    PROVE  /\ Kept(q, c, found) \in Seq(Messages)
           /\ Len(Kept(q, c, found)) = Len(q) - k
           /\ \A i \in 1..(Len(q) - k) : Kept(q, c, found)[i] = q[k + i]
<1>1. CASE found
  BY <1>1 DEF Kept
<1>2. CASE ~found
  <2> DEFINE after == {i \in 1..Len(q) : \E j \in 1..(i - 1) : q[j] = c.id}
  <2>0. k \in 1..Len(q) /\ q[k] = c.id /\ Len(q) \in Nat
    BY <1>2
  <2>1. after = (k + 1)..Len(q)
    <3>1. \A j \in 1..Len(q) : q[j] = c.id => j = k
      BY <2>0 DEF Distinct
    <3> QED
      BY <2>0, <3>1
  <2>2. Cardinality((k + 1)..Len(q)) = Len(q) - k
    <3>1. k + 1 \in Int /\ Len(q) \in Int
      BY <2>0
    <3>2. Cardinality((k + 1)..Len(q)) = IF k + 1 > Len(q) THEN 0 ELSE Len(q) - (k + 1) + 1
      BY <3>1, FS_Interval
    <3> QED
      BY <2>0, <3>2
  <2>3. Kept(q, c, found) = SubSeq(q, Len(q) - Cardinality(after) + 1, Len(q))
    BY <1>2 DEF Kept
  <2> HIDE DEF after
  <2>4. Kept(q, c, found) = SubSeq(q, k + 1, Len(q))
    BY <2>0, <2>1, <2>2, <2>3
  <2> QED
    BY <2>0, <2>4
<1> QED
  BY <1>1, <1>2

\* What is where in two sequences joined.
Parts(q, r) ==
    /\ Len(q) \in Nat /\ Len(r) \in Nat /\ Len(q \o r) = Len(q) + Len(r)
    /\ \A i \in 1..Len(q) : (q \o r)[i] = q[i]
    /\ \A i \in 1..Len(r) : (q \o r)[Len(q) + i] = r[i]
    /\ \A i \in 1..Len(q \o r) :
          i \in 1..Len(q) \/ \E j \in 1..Len(r) : i = Len(q) + j

LEMMA Joined ==
    ASSUME NEW S, NEW q \in Seq(S), NEW r \in Seq(S)
    PROVE  q \o r \in Seq(S) /\ Parts(q, r)
<1>1. /\ q \o r \in Seq(S) /\ Len(q) \in Nat /\ Len(r) \in Nat
      /\ Len(q \o r) = Len(q) + Len(r)
  OBVIOUS
<1>2. \A i \in 1..Len(q) : (q \o r)[i] = q[i]
  OBVIOUS
<1>3. ASSUME NEW i \in 1..Len(r) PROVE (q \o r)[Len(q) + i] = r[i]
  <2>1. Len(q) + i \in 1..(Len(q) + Len(r)) /\ Len(q) + i > Len(q) /\ (Len(q) + i) - Len(q) = i
    BY <1>1
  <2> QED
    BY <2>1
<1>4. ASSUME NEW i \in 1..Len(q \o r), i \notin 1..Len(q)
      PROVE  \E j \in 1..Len(r) : i = Len(q) + j
  <2>1. i - Len(q) \in 1..Len(r) /\ i = Len(q) + (i - Len(q))
    BY <1>1, <1>4
  <2> QED
    BY <2>1
<1> QED
  BY <1>1, <1>2, <1>3, <1>4 DEF Parts

\* What a poll keeps of the next segment is its end: all of it, or what follows
\* the cursor's line, which it holds if the poll has not met it yet.
LEMMA KeptPart ==
    ASSUME LogTypeOK, AckInv, LinesOnce, ResolveInv, CursorTypeOK, PollTypeOK,
           NEW p \in Pollers, ppc[p] = "reading", ReadOK(p),
           NEW s \in ptodo[p], \A t \in ptodo[p] : s <= t
    PROVE  LET q   == segs[s]
               c   == pcur[p]
               new == Kept(q, c, pfound[p])
           IN /\ ~pfound[p] => c.segment = s /\ pgot[p] = <<>>
              /\ pfound[p] /\ c # None => c.segment < s
              /\ \E k \in 0..Len(q) :
                    /\ IF pfound[p] THEN k = 0 ELSE k # 0 /\ q[k] = c.id
                    /\ new \in Seq(Messages) /\ Len(new) = Len(q) - k
                    /\ \A i \in 1..(Len(q) - k) : new[i] = q[k + i]
<1> DEFINE q   == segs[s]
           c   == pcur[p]
           new == Kept(q, c, pfound[p])
<1>1. /\ s \in DOMAIN segs /\ s \in Nat /\ ptodo[p] \subseteq DOMAIN segs
      /\ \A t \in DOMAIN segs : t \in Nat
      /\ q \in Seq(Messages) /\ Len(q) \in Nat
      /\ pgot[p] \in Seq(Messages) /\ Len(pgot[p]) \in Nat /\ pfound[p] \in BOOLEAN
      /\ c = Cur(p) /\ c \in Cursors /\ (~pfound[p] => c # None)
  BY DEF LogTypeOK, AckInv, PollTypeOK, ReadOK
<1>2. Distinct(q) /\ \A t \in ptodo[p] \ {s} : s < t
  BY <1>1 DEF Distinct, LinesOnce
\* The cursor's line.
<1>3. c # None => /\ c.segment \in DOMAIN segs
                  /\ \E k \in 1..Len(segs[c.segment]) : segs[c.segment][k] = c.id
  <2>1. c # None => Cur(p).segment \in Visible /\ Cur(p).id \in LinesOf(Cur(p).segment)
    BY <1>1, AgentsAssumption DEF ResolveInv, CursorResolves, Cur
  <2> QED
    BY <1>1, <2>1 DEF Visible, LinesOf
<1>4. /\ ~pfound[p] => c.segment = s /\ pgot[p] = <<>>
      /\ pfound[p] /\ c # None => c.segment < s
  <2>1. ~pfound[p] => c.segment \in ptodo[p] /\ c.segment <= s /\ pgot[p] = <<>>
    BY DEF ReadOK
  <2>2. ~pfound[p] => c.segment = s
    BY <1>1, <2>1
  <2> QED
    BY <2>1, <2>2 DEF ReadOK
<1>5. PICK k \in 0..Len(q) : IF pfound[p] THEN k = 0 ELSE k # 0 /\ q[k] = c.id
  <2>1. CASE pfound[p]
    BY <1>1, <2>1
  <2>2. CASE ~pfound[p]
    <3>1. PICK k \in 1..Len(q) : q[k] = c.id
      BY <1>1, <1>3, <1>4, <2>2
    <3> QED
      BY <1>1, <2>2, <3>1
  <2> QED
    BY <2>1, <2>2
<1>6. /\ new \in Seq(Messages) /\ Len(new) = Len(q) - k
      /\ \A i \in 1..(Len(q) - k) : new[i] = q[k + i]
  <2> HIDE DEF q, c
  <2> QED
    BY <1>1, <1>2, <1>5, KeptEnd
<1> HIDE DEF new
<1> QED
  BY <1>4, <1>5, <1>6 DEF new

\* What a poll reads next comes after what it has collected.
LEMMA ReadNext ==
    ASSUME LogTypeOK, AckInv, LinesOnce, ResolveInv, CursorTypeOK, PollTypeOK,
           NEW p \in Pollers, ppc[p] = "reading", ReadOK(p), BatchOK(p),
           NEW s \in ptodo[p], \A t \in ptodo[p] : s <= t
    PROVE  LET new == Kept(segs[s], pcur[p], pfound[p])
               all == pgot[p] \o new
           IN /\ Increasing(all)
              /\ Cur(p) # None => \A m \in InLine(all) : Before(Cur(p).id, m)
              /\ \A m \in InLine(all) :
                    \E t \in DOMAIN segs : m \in LinesOf(t) /\ \A u \in ptodo[p] \ {s} : t < u
              /\ pcur[p] # None => \A u \in ptodo[p] \ {s} : pcur[p].segment < u
              /\ ~pfound[p] => pcur[p].id \in LinesOf(s)
<1> DEFINE q   == segs[s]
           c   == pcur[p]
           new == Kept(q, c, pfound[p])
           all == pgot[p] \o new
<1>1. /\ s \in DOMAIN segs /\ s \in Nat /\ ptodo[p] \subseteq DOMAIN segs
      /\ \A t \in DOMAIN segs : t \in Nat
      /\ q \in Seq(Messages) /\ Len(q) \in Nat
      /\ pgot[p] \in Seq(Messages) /\ Len(pgot[p]) \in Nat /\ pfound[p] \in BOOLEAN
      /\ c = Cur(p) /\ c \in Cursors /\ (~pfound[p] => c # None)
  BY DEF LogTypeOK, AckInv, PollTypeOK, ReadOK
<1>2. Distinct(q) /\ \A t \in ptodo[p] \ {s} : s < t
  BY <1>1 DEF Distinct, LinesOnce
\* The cursor's line.
<1>3. c # None => /\ c.segment \in DOMAIN segs
                  /\ \E k \in 1..Len(segs[c.segment]) : segs[c.segment][k] = c.id
  <2>1. c # None => Cur(p).segment \in Visible /\ Cur(p).id \in LinesOf(Cur(p).segment)
    BY <1>1, AgentsAssumption DEF ResolveInv, CursorResolves, Cur
  <2> QED
    BY <1>1, <2>1 DEF Visible, LinesOf
<1>4. /\ ~pfound[p] => c.segment = s /\ pgot[p] = <<>>
      /\ pfound[p] /\ c # None => c.segment < s
  BY KeptPart
<1>5. PICK k \in 0..Len(q) :
          /\ IF pfound[p] THEN k = 0 ELSE k # 0 /\ q[k] = c.id
          /\ new \in Seq(Messages) /\ Len(new) = Len(q) - k
          /\ \A i \in 1..(Len(q) - k) : new[i] = q[k + i]
  BY KeptPart
<1>6. /\ new \in Seq(Messages) /\ Len(new) = Len(q) - k
      /\ \A i \in 1..(Len(q) - k) : new[i] = q[k + i]
  BY <1>5
<1>7. \A i \in 1..Len(new) : k + i \in 1..Len(q) /\ new[i] = q[k + i]
  BY <1>1, <1>5, <1>6
<1>8. \A i, j \in 1..Len(new) : i < j => Before(new[i], new[j])
  <2> SUFFICES ASSUME NEW i \in 1..Len(new), NEW j \in 1..Len(new), i < j
               PROVE  Before(new[i], new[j])
    OBVIOUS
  <2>1. k + i \in 1..Len(q) /\ k + j \in 1..Len(q) /\ k + i < k + j
    BY <1>1, <1>5, <1>6, <1>7
  <2> QED
    BY <1>1, <1>7, <2>1 DEF Before
<1>9. c # None => \A i \in 1..Len(new) : Before(c.id, new[i])
  <2> SUFFICES ASSUME c # None, NEW i \in 1..Len(new) PROVE Before(c.id, new[i])
    OBVIOUS
  <2>1. k + i \in 1..Len(q) /\ new[i] = q[k + i]
    BY <1>7
  <2>2. CASE pfound[p]
    <3>1. c.segment \in DOMAIN segs /\ c.segment < s
      BY <1>3, <1>4, <2>2
    <3>2. PICK l \in 1..Len(segs[c.segment]) : segs[c.segment][l] = c.id
      BY <1>3
    <3> QED
      BY <1>1, <2>1, <3>1, <3>2 DEF Before
  <2>3. CASE ~pfound[p]
    <3>1. k \in 1..Len(q) /\ q[k] = c.id /\ k < k + i
      BY <1>1, <1>5, <1>6, <2>3
    <3> QED
      BY <1>1, <2>1, <3>1 DEF Before
  <2> QED
    BY <2>2, <2>3
<1>10. \A i \in 1..Len(pgot[p]), j \in 1..Len(new) : Before(pgot[p][i], new[j])
  <2> SUFFICES ASSUME NEW i \in 1..Len(pgot[p]), NEW j \in 1..Len(new)
               PROVE  Before(pgot[p][i], new[j])
    OBVIOUS
  <2>1. PICK t \in DOMAIN segs : pgot[p][i] \in LinesOf(t) /\ t < s
    BY DEF ReadOK, InLine
  <2>2. PICK l \in 1..Len(segs[t]) : segs[t][l] = pgot[p][i]
    BY <2>1 DEF LinesOf
  <2>3. k + j \in 1..Len(q) /\ new[j] = q[k + j]
    BY <1>7
  <2> QED
    BY <1>1, <2>1, <2>2, <2>3 DEF Before
<1> HIDE DEF new
<1>11. /\ \A i \in 1..Len(pgot[p]) : all[i] = pgot[p][i]
       /\ \A i \in 1..Len(new) : all[Len(pgot[p]) + i] = new[i]
       /\ \A i \in 1..Len(all) :
             i \in 1..Len(pgot[p]) \/ \E j \in 1..Len(new) : i = Len(pgot[p]) + j
       /\ Len(new) \in Nat
  <2>1. pgot[p] \in Seq(Messages) /\ new \in Seq(Messages)
    BY <1>1, <1>6
  <2>2. Parts(pgot[p], new)
    BY <2>1, Joined
  <2> QED
    BY <2>2 DEF Parts, all
<1>12. \A i, j \in 1..Len(pgot[p]) : i < j => Before(pgot[p][i], pgot[p][j])
  BY DEF BatchOK, Increasing
<1> HIDE DEF all
<1>13. Increasing(all)
  <2> SUFFICES ASSUME NEW i \in 1..Len(all), NEW j \in 1..Len(all), i < j
               PROVE  Before(all[i], all[j])
    BY DEF Increasing
  <2>1. CASE i \in 1..Len(pgot[p]) /\ j \in 1..Len(pgot[p])
    BY <1>11, <1>12, <2>1
  <2>2. ASSUME i \in 1..Len(pgot[p]), NEW k2 \in 1..Len(new), j = Len(pgot[p]) + k2
        PROVE  Before(all[i], all[j])
    BY <1>10, <1>11, <2>2
  <2>3. ASSUME NEW k1 \in 1..Len(new), i = Len(pgot[p]) + k1
        PROVE  Before(all[i], all[j])
    <3>1. PICK k2 \in 1..Len(new) : j = Len(pgot[p]) + k2
      <4>1. Len(pgot[p]) \in Nat
        BY <1>1
      <4>2. ~(j \in 1..Len(pgot[p]))
        BY <2>3, <4>1
      <4> QED
        BY <1>11, <4>2
    <3>2. k1 < k2
      BY <1>1, <2>3, <3>1
    <3> QED
      BY <1>8, <1>11, <2>3, <3>1, <3>2
  <2> QED
    BY <1>11, <2>1, <2>2, <2>3
<1>14. \A m \in InLine(all) : m \in InLine(pgot[p]) \/ \E i \in 1..Len(new) : m = new[i]
  <2> SUFFICES ASSUME NEW m \in InLine(all)
               PROVE  m \in InLine(pgot[p]) \/ \E i \in 1..Len(new) : m = new[i]
    OBVIOUS
  <2>1. PICK i \in 1..Len(all) : m = all[i]
    BY DEF InLine
  <2>2. CASE i \in 1..Len(pgot[p])
    <3>1. m = pgot[p][i]
      BY <1>11, <2>1, <2>2
    <3> QED
      BY <2>2, <3>1 DEF InLine
  <2>3. CASE \E j \in 1..Len(new) : i = Len(pgot[p]) + j
    <3>1. PICK j \in 1..Len(new) : i = Len(pgot[p]) + j
      BY <2>3
    <3>2. m = new[j]
      BY ONLY <1>11, <2>1, <3>1
    <3> QED
      BY <3>2
  <2> QED
    BY ONLY <1>11, <2>1, <2>2, <2>3
<1>15. Cur(p) # None => \A m \in InLine(all) : Before(Cur(p).id, m)
  BY <1>1, <1>9, <1>14 DEF BatchOK
<1>16. \A m \in InLine(all) :
          \E t \in DOMAIN segs : m \in LinesOf(t) /\ \A u \in ptodo[p] \ {s} : t < u
  <2>1. \A i \in 1..Len(new) : new[i] \in LinesOf(s)
    BY <1>7 DEF LinesOf
  <2> QED
    BY <1>1, <1>2, <1>14, <2>1 DEF ReadOK
<1>17. pcur[p] # None => \A u \in ptodo[p] \ {s} : pcur[p].segment < u
  BY <1>1, <1>2, <1>4 DEF ReadOK
<1>18. ~pfound[p] => pcur[p].id \in LinesOf(s)
  BY <1>1, <1>3, <1>4 DEF LinesOf
<1> QED
  BY <1>13, <1>15, <1>16, <1>17, <1>18 DEF all, new

-----------------------------------------------------------------------------
(* The steps of a poll.                                                    *)

\* An agent whose poll does not hold the lock of its cursor file finds it free.
LEMMA Unlocked ==
    ASSUME Undisturbed, PollInv, NEW p \in Pollers, ppc[p] # "saving"
    PROVE  lock[AgentOf[p]] = None
BY AgentsAssumption DEF Undisturbed, PollInv, LockOK

LEMMA PollKeeps ==
    ASSUME Undisturbed, LogInv, AckInv, LinesOnce, ResolveInv, PollInv, Grows,
           NEW p \in Pollers, PollStep(p)
    PROVE  PollInv'
<1> DEFINE a == AgentOf[p]
<1>0. /\ TypeOK /\ LogTypeOK /\ PollTypeOK /\ CursorTypeOK /\ a \in Agents
      /\ Own(p) /\ segs' = segs
      /\ ReadOK(p) /\ BatchOK(p) /\ InboxOK(a) /\ LockOK(a)
  BY OwnFrame, AgentsAssumption DEF LogInv, TypeOK, PollInv
<1>1. /\ \A m, n : Before(m, n) => Before(m, n)'
      /\ \A m, c : Reached(m, c) => Reached(m, c)'
      /\ \A s \in DOMAIN segs : LinesOf(s) \subseteq LinesOf(s)'
  BY Growing
<1>2. SUFFICES ReadOK(p)' /\ BatchOK(p)' /\ InboxOK(a)' /\ LockOK(a)'
  BY <1>0, OwnStep
\* What stays while the poll leaves the cursor file alone.
<1>3. ASSUME UNCHANGED <<cursor, lock, inbox>>, ppc[p] # "saving"
      PROVE  InboxOK(a)' /\ LockOK(a)'
  <2>1. InboxOK(a)'
    BY <1>0, <1>3, InboxKept
  <2>2. lock[a] = None
    BY <1>3, Unlocked
  <2> QED
    BY <1>3, <2>1, <2>2 DEF LockOK
<1>4. ASSUME Leave(p) PROVE ReadOK(p)' /\ BatchOK(p)'
  <2>1. ppc'[p] = "idle" /\ pgot'[p] = <<>>
    BY <1>0, <1>4 DEF Leave, PollTypeOK
  <2> QED
    BY <2>1 DEF ReadOK, BatchOK
<1>5. CASE LoadCursor(p)
  <2>1. /\ ppc[p] = "idle" /\ ppc'[p] = "loaded" /\ pcur'[p] = cursor[a]
        /\ pfound'[p] = (cursor[a] = None) /\ pgot' = pgot
        /\ UNCHANGED <<cursor, lock, inbox>>
    <3>1. ppc[p] = "idle"
      BY <1>5 DEF LoadCursor
    <3>2. lock[a] = None
      BY <3>1, Unlocked
    <3> QED
      BY <1>0, <1>5, <3>2 DEF LoadCursor, PollTypeOK, cursorVars
  <2>2. pgot'[p] = <<>>
    BY <1>0, <2>1 DEF ReadOK
  <2>3. ReadOK(p)'
    BY <2>1, <2>2 DEF ReadOK, Cur
  <2>4. BatchOK(p)'
    BY <2>1, <2>2 DEF BatchOK, Increasing, InLine
  <2> QED
    BY <1>3, <2>1, <2>3, <2>4
<1>6. CASE Glob(p)
  <2>1. /\ ppc[p] = "loaded" /\ ppc'[p] = "reading" /\ ptodo'[p] = FromCursor(pcur[p])
        /\ UNCHANGED <<cursor, lock, inbox, pcur, pfound, pgot>>
    BY <1>0, <1>6 DEF Glob, PollTypeOK, cursorVars
  <2>2. /\ pcur[p] = cursor[a] /\ pgot[p] = <<>> /\ (pfound[p] <=> pcur[p] = None)
    BY <1>0, <2>1 DEF ReadOK, Cur
  <2>3. pcur[p] # None => pcur[p].segment \in Visible
    BY <1>0, <2>2 DEF ResolveInv, CursorResolves
  <2>4. ReadOK(p)'
    <3>1. ~pfound[p] => /\ pcur[p].segment \in FromCursor(pcur[p])
                        /\ \A s \in FromCursor(pcur[p]) : pcur[p].segment <= s
      <4>1. \A s \in Visible : s \in Nat
        BY <1>0 DEF Visible, LogTypeOK
      <4> QED
        BY <2>2, <2>3, <4>1 DEF FromCursor
    <3>2. InLine(pgot[p]) = {}
      BY <2>2 DEF InLine
    <3>3. InLine(pgot[p])' = {}
      BY <2>1, <3>2 DEF InLine
    <3> QED
      BY <2>1, <2>2, <3>1, <3>3 DEF ReadOK, Cur
  <2>5. BatchOK(p)'
    BY <2>1, <2>2 DEF BatchOK, Increasing, InLine
  <2> QED
    BY <1>3, <2>1, <2>4, <2>5
<1>7. CASE ReadSegment(p)
  <2>1. PICK s \in ptodo[p] :
          /\ \A t \in ptodo[p] : s <= t
          /\ IF Unparsable(s)
             THEN Leave(p)
             ELSE /\ pgot' = [pgot EXCEPT ![p] =
                                @ \o Kept(segs[s], pcur[p], pfound[p])]
                  /\ pfound' = [pfound EXCEPT ![p] =
                                  @ \/ pcur[p].id \in LinesOf(s)]
                  /\ ptodo' = [ptodo EXCEPT ![p] = @ \ {s}]
                  /\ UNCHANGED <<ppc, pcur>>
    BY <1>7 DEF ReadSegment
  <2>2. ppc[p] = "reading" /\ UNCHANGED <<cursor, lock, inbox>>
    BY <1>7 DEF ReadSegment, cursorVars
  <2>3. CASE Leave(p)
    BY <1>3, <1>4, <2>2, <2>3
  <2>4. CASE ~Leave(p)
    <3> DEFINE all == pgot[p] \o Kept(segs[s], pcur[p], pfound[p])
    <3>1. /\ pgot'[p] = all /\ ptodo'[p] = ptodo[p] \ {s}
          /\ pfound'[p] = (pfound[p] \/ pcur[p].id \in LinesOf(s))
          /\ UNCHANGED <<ppc, pcur>>
      BY <1>0, <2>1, <2>4 DEF PollTypeOK
    <3>2. /\ Increasing(all)
          /\ Cur(p) # None => \A m \in InLine(all) : Before(Cur(p).id, m)
          /\ \A m \in InLine(all) :
                \E t \in DOMAIN segs : m \in LinesOf(t) /\ \A u \in ptodo[p] \ {s} : t < u
          /\ pcur[p] # None => \A u \in ptodo[p] \ {s} : pcur[p].segment < u
          /\ ~pfound[p] => pcur[p].id \in LinesOf(s)
      BY <1>0, <2>1, <2>2, ReadNext
    <3>3. pfound'[p]
      BY <3>1, <3>2
    <3>4. pcur[p] = Cur(p)
      BY <1>0, <2>2 DEF ReadOK
    <3> HIDE DEF all
    <3>5. ReadOK(p)'
      <4>1. \A m \in InLine(pgot'[p]) :
               \E t \in DOMAIN segs' : m \in LinesOf(t)' /\ \A u \in ptodo'[p] : t < u
        BY <1>0, <1>1, <3>1, <3>2
      <4> QED
        BY <2>2, <3>1, <3>2, <3>3, <3>4, <4>1 DEF ReadOK, Cur, InLine
    <3>6. BatchOK(p)'
      <4>1. Increasing(pgot[p])'
        BY <1>1, <3>1, <3>2 DEF Increasing
      <4>2. (Cur(p) # None => \A m \in InLine(pgot[p]) : Before(Cur(p).id, m))'
        BY <1>1, <2>2, <3>1, <3>2 DEF Cur, InLine
      <4> QED
        BY <2>2, <3>1, <4>1, <4>2 DEF BatchOK
    <3> QED
      BY <1>3, <2>2, <3>5, <3>6
  <2> QED
    BY <2>3, <2>4
<1>8. CASE ReturnEmpty(p)
  BY <1>3, <1>4, <1>8 DEF ReturnEmpty, cursorVars
<1>9. CASE Mark(p)
  <2>1. ppc[p] = "reading" /\ UNCHANGED <<cursor, lock, inbox>> /\ pgot[p] # <<>>
    BY <1>9 DEF Mark, cursorVars
  <2>2. CASE Leave(p)
    BY <1>3, <1>4, <2>1, <2>2
  <2>3. CASE ~Leave(p)
    <3>1. /\ ppc'[p] = "marking" /\ pgot' = pgot /\ pcur'[p].id = LastGot(p)
      BY <1>0, <1>9, <2>3 DEF Mark, PollTypeOK
    <3>2. ReadOK(p)'
      BY <3>1 DEF ReadOK
    <3>3. BatchOK(p)'
      <4>1. Increasing(pgot[p])'
        BY <1>0, <1>1, <2>1, <3>1 DEF BatchOK, Increasing
      <4>2. (Cur(p) # None => \A m \in InLine(pgot[p]) : Before(Cur(p).id, m))'
        BY <1>0, <1>1, <2>1, <3>1 DEF BatchOK, Cur, InLine
      <4> QED
        BY <2>1, <3>1, <4>1, <4>2 DEF BatchOK, LastGot
    <3> QED
      BY <1>3, <2>1, <3>2, <3>3
  <2> QED
    BY <2>2, <2>3
<1>10. CASE SaveBegin(p)
  <2>1. /\ ppc[p] = "marking" /\ ppc'[p] = "saving" /\ lock'[a] = p
        /\ UNCHANGED <<cursor, inbox, pcur, pgot>>
    BY <1>0, <1>10 DEF SaveBegin, PollTypeOK, CursorTypeOK
  <2>2. ReadOK(p)'
    BY <2>1 DEF ReadOK
  <2>3. BatchOK(p)'
    <3>1. Increasing(pgot[p])'
      BY <1>0, <1>1, <2>1 DEF BatchOK, Increasing
    <3>2. (Cur(p) # None => \A m \in InLine(pgot[p]) : Before(Cur(p).id, m))'
      BY <1>0, <1>1, <2>1 DEF BatchOK, Cur, InLine
    <3> QED
      BY <1>0, <2>1, <3>1, <3>2 DEF BatchOK, LastGot
  <2>4. InboxOK(a)'
    BY <1>0, <2>1, InboxKept
  <2>5. LockOK(a)'
    BY <2>1 DEF LockOK
  <2> QED
    BY <2>2, <2>3, <2>4, <2>5
<1>11. CASE SaveEnd(p)
  <2>1. /\ ppc[p] = "saving" /\ ppc'[p] = "returning" /\ lock'[a] = None
        /\ cursor'[a] = pcur[p] /\ pcur[p] # None
        /\ UNCHANGED <<inbox, pcur, pgot>>
    BY <1>0, <1>11 DEF SaveEnd, PollTypeOK, CursorTypeOK
  <2> DEFINE q == pgot[p]
  <2>2. /\ q \in Seq(Messages) /\ q # <<>> /\ pcur[p].id = q[Len(q)]
        /\ Len(q) \in Nat /\ Len(q) \in 1..Len(q)
    BY <1>0, <2>1 DEF BatchOK, LastGot, PollTypeOK
  <2>3. /\ \A i, j \in 1..Len(q) : i < j => Before(q[i], q[j])
        /\ cursor[a] # None => \A m \in InLine(q) : Before(cursor[a].id, m)
    BY <1>0, <2>1 DEF BatchOK, Increasing, Cur
  <2> HIDE DEF q
  <2>4. Distinct(q)
    <3> SUFFICES ASSUME NEW i \in 1..Len(q), NEW j \in 1..Len(q), q[i] = q[j]
                 PROVE  i = j
      BY DEF Distinct
    <3>1. ~(i < j) /\ ~(j < i)
      BY <1>0, <2>3, BeforeIrreflexive
    <3> QED
      BY <2>2, <3>1
  <2>5. \A m \in InLine(q) : Reached(m, pcur[p])
    <3> SUFFICES ASSUME NEW i \in 1..Len(q) PROVE Reached(q[i], pcur[p])
      BY DEF InLine
    <3>1. i < Len(q) \/ i = Len(q)
      BY <2>2
    <3> QED
      BY <2>1, <2>2, <2>3, <3>1 DEF Reached
  <2>6. \A m \in InLine(inbox[a]) : Reached(m, cursor[a])
    BY <1>0 DEF InboxOK
  <2>7. \A m \in InLine(q) : m \notin InLine(inbox[a])
    <3> SUFFICES ASSUME NEW m \in InLine(q), m \in InLine(inbox[a]) PROVE FALSE
      OBVIOUS
    <3>1. /\ cursor[a] # None /\ Before(cursor[a].id, m)
          /\ m = cursor[a].id \/ Before(m, cursor[a].id)
      BY <2>3, <2>6 DEF Reached
    <3>2. Before(m, m)
      BY <1>0, <3>1, BeforeTransitive
    <3> QED
      BY <1>0, <3>2, BeforeIrreflexive
  <2>8. \A m \in InLine(inbox[a]) : Reached(m, pcur[p])
    <3> SUFFICES ASSUME NEW m \in InLine(inbox[a]) PROVE Reached(m, pcur[p])
      OBVIOUS
    <3>1. cursor[a] # None /\ (m = cursor[a].id \/ Before(m, cursor[a].id))
      BY <2>6 DEF Reached
    <3>2. Before(cursor[a].id, q[Len(q)])
      BY <2>2, <2>3, <3>1 DEF InLine
    <3>3. Before(m, q[Len(q)])
      BY <1>0, <3>1, <3>2, BeforeTransitive
    <3> QED
      BY <2>1, <2>2, <3>3 DEF Reached
  <2>9. ReadOK(p)'
    BY <2>1 DEF ReadOK
  <2>10. BatchOK(p)'
    <3>1. Distinct(pgot[p])'
      BY <2>1, <2>4 DEF Distinct, q
    <3>2. /\ InLine(pgot[p])' = InLine(q) /\ InLine(inbox[AgentOf[p]])' = InLine(inbox[a])
      BY <2>1 DEF InLine, q
    <3>3. \A m \in InLine(q) : Reached(m, Cur(p))'
      BY <1>1, <2>1, <2>5 DEF Cur
    <3> QED
      BY <2>1, <2>7, <3>1, <3>2, <3>3 DEF BatchOK
  <2>11. InboxOK(a)'
    <3>1. Distinct(inbox[a])'
      BY <1>0, <2>1 DEF Distinct, InboxOK
    <3>2. InLine(inbox[a])' = InLine(inbox[a])
      BY <2>1 DEF InLine
    <3>3. \A m \in InLine(inbox[a]) : Reached(m, cursor[a])'
      BY <1>1, <2>1, <2>8
    <3> QED
      BY <3>1, <3>2, <3>3 DEF InboxOK
  <2>12. LockOK(a)'
    BY <2>1 DEF LockOK
  <2> QED
    BY <2>9, <2>10, <2>11, <2>12
<1>12. CASE Return(p)
  <2>1. /\ ppc[p] = "returning" /\ Leave(p) /\ UNCHANGED <<cursor, lock>>
        /\ inbox'[a] = inbox[a] \o pgot[p]
    BY <1>0, <1>12 DEF Return, cursorVars, PollTypeOK
  <2>2. LockOK(a)'
    <3>1. lock[a] = None
      BY <2>1, Unlocked
    <3> QED
      BY <2>1, <3>1 DEF LockOK
  <2> DEFINE q == inbox[a]
             r == pgot[p]
  <2>3. q \in Seq(Messages) /\ r \in Seq(Messages)
    BY <1>0 DEF PollTypeOK
  <2>4. /\ Distinct(q) /\ \A m \in InLine(q) : Reached(m, cursor[a])
        /\ Distinct(r) /\ \A m \in InLine(r) : Reached(m, cursor[a]) /\ m \notin InLine(q)
    BY <1>0, <2>1 DEF InboxOK, BatchOK, Cur
  <2> HIDE DEF q, r
  <2>5. /\ Len(q) \in Nat /\ Len(r) \in Nat
        /\ \A i \in 1..Len(q) : (q \o r)[i] = q[i]
        /\ \A i \in 1..Len(r) : (q \o r)[Len(q) + i] = r[i]
        /\ \A i \in 1..Len(q \o r) :
              i \in 1..Len(q) \/ \E j \in 1..Len(r) : i = Len(q) + j
    <3>1. Parts(q, r)
      BY <2>3, Joined
    <3> QED
      BY <3>1 DEF Parts
  <2>6. Distinct(q \o r)
    <3> SUFFICES ASSUME NEW i \in 1..Len(q \o r), NEW j \in 1..Len(q \o r),
                        (q \o r)[i] = (q \o r)[j]
                 PROVE  i = j
      BY DEF Distinct
    <3>1. CASE i \in 1..Len(q) /\ j \in 1..Len(q)
      BY <2>4, <2>5, <3>1 DEF Distinct
    <3>2. ASSUME NEW k \in 1..Len(r), NEW l \in 1..Len(r), i = Len(q) + k, j = Len(q) + l
          PROVE  i = j
      BY <2>4, <2>5, <3>2 DEF Distinct
    <3>3. ASSUME NEW l \in 1..Len(r), i \in 1..Len(q), j = Len(q) + l PROVE FALSE
      <4>1. q[i] = r[l]
        BY <2>5, <3>3
      <4>2. q[i] \in InLine(q) /\ r[l] \in InLine(r)
        BY <3>3 DEF InLine
      <4> QED
        BY <2>4, <4>1, <4>2
    <3>4. ASSUME NEW l \in 1..Len(r), j \in 1..Len(q), i = Len(q) + l PROVE FALSE
      BY <2>4, <2>5, <3>4 DEF InLine
    <3> QED
      BY <2>5, <3>1, <3>2, <3>3, <3>4
  <2>7. \A m \in InLine(q \o r) : m \in InLine(q) \/ m \in InLine(r)
    BY SMTT(30), <2>5 DEF InLine
  <2>8. InboxOK(a)'
    <3>1. Distinct(inbox[a])'
      BY <2>1, <2>6 DEF Distinct, q, r
    <3>2. InLine(inbox[a])' = InLine(q \o r)
      BY <2>1 DEF InLine, q, r
    <3>3. \A m \in InLine(q \o r) : Reached(m, cursor[a])'
      BY <1>1, <2>1, <2>4, <2>7
    <3> QED
      BY <3>1, <3>2, <3>3 DEF InboxOK
  <2> QED
    BY <1>4, <2>1, <2>2, <2>8
<1> QED
  BY <1>5, <1>6, <1>7, <1>8, <1>9, <1>10, <1>11, <1>12 DEF PollStep

-----------------------------------------------------------------------------
(* The invariant.                                                          *)

Inv == LogInv /\ AckInv /\ LinesOnce /\ ResolveInv /\ PollInv

LEMMA InvInit == Init => Inv
<1> SUFFICES ASSUME Init PROVE Inv
  OBVIOUS
<1>1. LogInv
  BY LogInvInit
<1>2. AckInv /\ ResolveInv
  BY DEF Init, AckInv, AckedStored, ResolveInv, CursorResolves
<1>3. LinesOnce
  BY DEF Init, LinesOnce, Pending
<1>4. PollInv
  BY AgentsAssumption DEF Init, PollInv, InboxOK, LockOK, ReadOK, BatchOK, Distinct, InLine
<1> QED
  BY <1>1, <1>2, <1>3, <1>4 DEF Inv

LEMMA InvStep ==
    ASSUME Undisturbed, Inv, [Next]_vars
    PROVE  Inv'
<1> USE DEF Inv
<1>1. LogInv' /\ AckInv' /\ ResolveInv' /\ LinesOnce' /\ Grows
  BY LogInvStep, AckStep, ResolveStep, LinesOnceStep, GrowStep DEF Undisturbed
<1>2. ASSUME UNCHANGED <<cursorVars, pollVars>> PROVE PollInv'
  <2>1. \A p \in Pollers : ReadOK(p)' /\ BatchOK(p)'
    <3>1. \A p \in Pollers : ptodo[p] \subseteq DOMAIN segs
      BY DEF LogInv, TypeOK, PollTypeOK
    <3> QED
      BY <1>1, <1>2, <3>1, PollKept DEF PollInv, cursorVars, pollVars
  <2>2. \A a \in Agents : InboxOK(a)'
    BY <1>1, <1>2, InboxKept DEF PollInv, cursorVars, pollVars
  <2>3. \A a \in Agents : LockOK(a)'
    BY <1>2 DEF PollInv, LockOK, cursorVars, pollVars
  <2> QED
    BY <2>1, <2>2, <2>3 DEF PollInv
<1>3. ASSUME NEW w \in Writers, WriterStep(w) \/ CrashWriter(w) \/ TearWrite(w)
      PROVE  UNCHANGED <<cursorVars, pollVars>>
  BY <1>3 DEF WriterStep, Locate, Choose, Write, Ack, CrashWriter, TearWrite
<1>4. ASSUME NEW p \in Pollers, PollStep(p) PROVE PollInv'
  BY <1>1, <1>4, PollKeeps
<1>5. \A p \in Pollers : ~CrashPoller(p)
  BY DEF CrashPoller, Undisturbed, LogInv, TypeOK
<1>6. \A a \in Agents : ~SaveElsewhereBegin(a) /\ ~SaveElsewhereEnd(a)
  BY ValuesAssumption DEF SaveElsewhereBegin, SaveElsewhereEnd, Undisturbed, PollInv, LockOK
<1>7. ASSUME UNCHANGED vars PROVE PollInv'
  BY <1>2, <1>7 DEF vars
<1>8. PollInv'
  BY <1>2, <1>3, <1>4, <1>5, <1>6, <1>7 DEF Next
<1> QED
  BY <1>1, <1>8

LEMMA Invariant == ASSUME Undisturbed PROVE Spec => []Inv
<1>1. Inv /\ [Next]_vars => Inv'
  BY InvStep
<1> QED
  BY <1>1, InvInit, PTL DEF Spec

\* Without crashes and with one poller for each agent, no message is handed to
\* an agent twice, whatever writers race and whenever they rotate.
THEOREM NotTwice == ASSUME Undisturbed PROVE Spec => []NoDuplicateDelivery
<1>1. Inv => NoDuplicateDelivery
  BY DEF Inv, PollInv, InboxOK, Distinct, NoDuplicateDelivery
<1> QED
  BY <1>1, Invariant, PTL

\* What a cursor has passed, in the words of Before.
LEMMA UpToReached ==
    LogTypeOK /\ AckInv /\ LinesOnce =>
        \A c \in CursorRec : Resolves(c) =>
            \A m : m \in UpTo(c) <=> m = c.id \/ Before(m, c.id)
<1> SUFFICES ASSUME LogTypeOK, AckInv, LinesOnce, NEW c \in CursorRec, Resolves(c), NEW m
             PROVE  m \in UpTo(c) <=> m = c.id \/ Before(m, c.id)
  OBVIOUS
<1> DEFINE t     == c.segment
           lines == segs[t]
<1>1. t \in DOMAIN segs /\ Len(lines) \in Nat
  BY DEF Resolves, Visible, AckInv
<1>2. PICK k \in 1..Len(lines) : lines[k] = c.id
  BY DEF Resolves, LinesOf
<1>3. \A s \in DOMAIN segs : \A i \in 1..Len(segs[s]) : segs[s][i] = c.id => s = t /\ i = k
  BY <1>1, <1>2 DEF LinesOnce
<1>4. {j \in 1..Len(lines) : \A i \in 1..(j - 1) : lines[i] # c.id} = 1..k
  BY <1>1, <1>2, <1>3
<1>5. m \in UpTo(c) <=> \/ \E s \in DOMAIN segs : s < t /\ m \in LinesOf(s)
                        \/ \E i \in 1..k : m = lines[i]
  BY <1>4 DEF UpTo
<1>6. Before(m, c.id) <=> \E s \in DOMAIN segs : \E i \in 1..Len(segs[s]) :
                              segs[s][i] = m /\ (s < t \/ (s = t /\ i < k))
  BY <1>1, <1>2, <1>3 DEF Before
<1>7. (\E i \in 1..k : m = lines[i]) <=>
          m = c.id \/ \E i \in 1..Len(lines) : lines[i] = m /\ i < k
  BY <1>1, <1>2
<1>8. (\E s \in DOMAIN segs : s < t /\ m \in LinesOf(s)) <=>
          \E s \in DOMAIN segs : \E i \in 1..Len(segs[s]) : segs[s][i] = m /\ s < t
  BY DEF LinesOf
<1> QED
  BY <1>1, <1>5, <1>6, <1>7, <1>8

\* Without crashes and with one poller for each agent, no poll moves a cursor
\* back, although it reads the cursor long before it saves the new one.
THEOREM Monotone == ASSUME Undisturbed PROVE Spec => CursorMonotone
<1> DEFINE Passed == \A c \in CursorRec : Resolves(c) =>
                        \A m : m \in UpTo(c) <=> m = c.id \/ Before(m, c.id)
           A      == \A a \in Agents :
                        cursor[a] # None =>
                            cursor'[a] # None /\ UpTo(cursor[a]) \subseteq UpTo(cursor[a])'
<1>1. Inv => Passed
  BY UpToReached DEF Inv, LogInv, TypeOK
<1>2. ASSUME Inv, Inv', Passed, Passed', [Next]_vars, NEW a \in Agents, cursor[a] # None
      PROVE  cursor'[a] # None /\ UpTo(cursor[a]) \subseteq UpTo(cursor[a])'
  <2>1. /\ Grows /\ CursorTypeOK /\ PollTypeOK /\ LogTypeOK' /\ LinesOnce'
        /\ cursor[a] \in CursorRec /\ Resolves(cursor[a])
    BY <1>2, GrowStep DEF Undisturbed, Inv, LogInv, TypeOK, CursorTypeOK, Cursors,
                          ResolveInv, CursorResolves, Resolves
  <2>2. CASE cursor'[a] = cursor[a]
    <3> DEFINE c == cursor[a]
    <3>1. Resolves(c)'
      BY <1>2, <2>2 DEF Inv, ResolveInv, CursorResolves, Resolves
    <3>2. c' = c /\ c \in CursorRec
      BY <2>1, <2>2
    <3>3. (\A m : m \in UpTo(c) <=> m = c.id \/ Before(m, c.id))'
      BY <1>2, <3>1, <3>2
    <3>4. \A m : m \in UpTo(c) <=> m = c.id \/ Before(m, c.id)
      BY <1>2, <2>1
    <3> QED
      BY <1>2, <2>1, <2>2, <3>3, <3>4, Growing
  <2>3. CASE cursor'[a] # cursor[a]
    <3>1. PICK p \in Pollers : SaveEnd(p) /\ AgentOf[p] = a
      <4>1. ASSUME NEW w \in Writers, WriterStep(w) \/ CrashWriter(w) \/ TearWrite(w)
            PROVE  UNCHANGED cursor
        BY <4>1 DEF WriterStep, Locate, Choose, Write, Ack, CrashWriter, TearWrite,
                    cursorVars
      <4>2. \A p \in Pollers : ~CrashPoller(p)
        BY <1>2, Undisturbed DEF CrashPoller, Undisturbed, Inv, LogInv, TypeOK
      <4>3. ASSUME NEW p \in Pollers, PollStep(p), ~SaveEnd(p) PROVE UNCHANGED cursor
        BY <4>3 DEF PollStep, LoadCursor, Glob, ReadSegment, ReturnEmpty, Mark,
                    SaveBegin, Return, cursorVars
      <4>4. ASSUME NEW p \in Pollers, SaveEnd(p), AgentOf[p] # a
            PROVE  cursor'[a] = cursor[a]
        BY <2>1, <4>4, AgentsAssumption DEF SaveEnd, CursorTypeOK
      <4>5. ASSUME NEW b \in Agents, SaveElsewhereBegin(b) \/ SaveElsewhereEnd(b)
            PROVE  UNCHANGED cursor
        BY <4>5 DEF SaveElsewhereBegin, SaveElsewhereEnd
      <4>6. UNCHANGED vars => UNCHANGED cursor
        BY DEF vars, cursorVars
      <4> QED
        BY <1>2, <2>3, <4>1, <4>2, <4>3, <4>4, <4>5, <4>6 DEF Next
    <3> DEFINE c == cursor[a]
    <3>2. PICK d \in CursorRec : d = pcur[p] /\ cursor'[a] = d /\ Resolves(d)'
      BY <1>2, <2>1, <3>1 DEF SaveEnd, Inv, ResolveInv, CursorResolves, Resolves,
                              CursorTypeOK, PollTypeOK, Cursors
    <3>3. Before(c.id, d.id)
      <4>1. pgot[p] # <<>> /\ pgot[p] \in Seq(Messages) /\ d.id = LastGot(p)
        BY <1>2, <2>1, <3>1, <3>2 DEF Inv, PollInv, BatchOK, SaveEnd, PollTypeOK
      <4>2. d.id \in InLine(pgot[p])
        BY <4>1 DEF LastGot, InLine
      <4> QED
        BY <1>2, <3>1, <4>2 DEF Inv, PollInv, BatchOK, SaveEnd, Cur
    <3>4. (\A m : m \in UpTo(d) <=> m = d.id \/ Before(m, d.id))'
      BY <1>2, <3>2
    <3>5. \A m : m \in UpTo(c) <=> m = c.id \/ Before(m, c.id)
      BY <1>2, <2>1
    <3>6. ASSUME NEW m, m = c.id \/ Before(m, c.id) PROVE Before(m, d.id)
      BY <1>2, <3>3, <3>6, BeforeTransitive DEF Inv, LogInv, TypeOK
    <3>7. UpTo(c) \subseteq UpTo(d)'
      BY <2>1, <3>4, <3>5, <3>6, Growing
    <3>8. UpTo(cursor[a])' = UpTo(d)'
      BY <3>2 DEF UpTo, LinesOf
    <3> QED
      BY <3>2, <3>7, <3>8, NoneAssumption
  <2> QED
    BY <2>2, <2>3
<1>3. Inv /\ Inv' /\ Passed /\ Passed' /\ [Next]_vars => [A]_vars
  BY <1>2
<1> QED
  BY <1>1, <1>3, Invariant, PTL DEF Spec, CursorMonotone

-----------------------------------------------------------------------------
(* The stream: the segments' lines, segment by segment.                    *)

\* Every set of natural numbers that has an element has a least one.
LEMMA Least ==
    ASSUME NEW N \in SUBSET Nat, N # {}
    PROVE  \E k \in N : \A l \in N : k <= l
<1>1. PICK k \in N : \A l \in N : <<l, k>> \notin OpToRel(<, Nat)
  BY WFMin, NatLessThanWellFounded, Zenon
<1>2. ASSUME NEW l \in N PROVE k <= l
  <2>1. l \in Nat /\ k \in Nat
    BY <1>2
  <2>2. <<l, k>> \in OpToRel(<, Nat) <=> l < k
    BY <2>1 DEF OpToRel
  <2>3. ~(l < k)
    BY <1>1, <1>2, <2>2, Zenon
  <2> QED
    BY <2>1, <2>3
<1> QED
  BY <1>2

\* The function FlattenSeq defines by recursion, up to n.
Flattens(f, q, n) ==
    f = [i \in 1..n |-> IF i = 1 THEN q[i] ELSE f[i - 1] \o q[i]]

Equations(f, q, n) ==
    \A i \in 1..n : f[i] = IF i = 1 THEN q[i] ELSE f[i - 1] \o q[i]

LEMMA FlattensExists ==
    ASSUME NEW q, NEW n \in Nat
    PROVE  \E f : Flattens(f, q, n)
<1> DEFINE Missing == {k \in Nat : ~\E f : Flattens(f, q, k)}
<1> SUFFICES ASSUME Missing # {} PROVE FALSE
  OBVIOUS
<1>1. PICK k \in Missing : \A l \in Missing : k <= l
  <2> HIDE DEF Missing
  <2>1. Missing \in SUBSET Nat
    BY DEF Missing
  <2> QED
    BY <2>1, Least
<1>2. CASE k = 0
  <2>1. Flattens([i \in 1..0 |-> <<>>], q, 0)
    BY DEF Flattens
  <2> QED
    BY <1>2, <2>1
<1>3. CASE k # 0
  <2>1. k - 1 \in Nat /\ k \in Nat /\ ~(k <= k - 1)
    BY <1>3
  <2>2. PICK f : Flattens(f, q, k - 1)
    BY <1>1, <2>1
  <2> DEFINE g == [i \in 1..k |-> IF i = 1 THEN q[i] ELSE f[i - 1] \o q[i]]
  <2>3. \A i \in 1..(k - 1) : f[i] = IF i = 1 THEN q[i] ELSE f[i - 1] \o q[i]
    BY <2>2 DEF Flattens
  <2>4. \A i \in 1..(k - 1) : g[i] = f[i]
    BY <2>1, <2>3
  <2>5. \A i \in 1..k : g[i] = IF i = 1 THEN q[i] ELSE g[i - 1] \o q[i]
    <3> SUFFICES ASSUME NEW i \in 1..k
                 PROVE  g[i] = IF i = 1 THEN q[i] ELSE g[i - 1] \o q[i]
      OBVIOUS
    <3>1. i = 1 \/ i - 1 \in 1..(k - 1)
      BY <2>1
    <3> QED
      BY <2>4, <3>1
  <2>6. g = [i \in 1..k |-> g[i]]
    OBVIOUS
  <2>7. Flattens(g, q, k)
    <3> HIDE DEF g
    <3> QED
      BY <2>5, <2>6 DEF Flattens
  <2> QED
    BY <1>1, <2>7
<1> QED
  BY <1>2, <1>3

LEMMA FlattenDef ==
    ASSUME NEW q, Len(q) # 0, Len(q) \in Nat
    PROVE  \E f : Seqs!FlattenSeq(q) = f[Len(q)] /\ Equations(f, q, Len(q))
<1>1. \E f : Flattens(f, q, Len(q))
  BY FlattensExists
<1> DEFINE g == CHOOSE f : Flattens(f, q, Len(q))
<1>2. Flattens(g, q, Len(q))
  BY <1>1
<1>3. Seqs!FlattenSeq(q) = g[Len(q)]
  BY DEF Seqs!FlattenSeq, Flattens
<1> HIDE DEF g
<1>4. Equations(g, q, Len(q))
  BY <1>2 DEF Flattens, Equations
<1> QED
  BY <1>3, <1>4

LEMMA FlattenEmpty == Seqs!FlattenSeq(<<>>) = <<>>
BY DEF Seqs!FlattenSeq

\* The first n members of q are sequences over S, and those of r.
Shared(q, r, n, S) == \A i \in 1..n : q[i] \in Seq(S) /\ r[i] = q[i]

\* Functions that satisfy the equations on the same sequences agree, and their
\* values are sequences.
LEMMA FlattenAgree ==
    ASSUME NEW S, NEW n \in Nat, NEW q, NEW r, NEW f, NEW g,
           Shared(q, r, n, S), Equations(f, q, n), Equations(g, r, n)
    PROVE  \A i \in 1..n : f[i] \in Seq(S) /\ g[i] = f[i]
<1> DEFINE Odd == {k \in 1..n : ~(f[k] \in Seq(S) /\ g[k] = f[k])}
<1> SUFFICES ASSUME Odd # {} PROVE FALSE
  OBVIOUS
<1>1. PICK k \in Odd : \A l \in Odd : k <= l
  <2>1. Odd \in SUBSET Nat
    OBVIOUS
  <2> HIDE DEF Odd
  <2> QED
    BY <2>1, Least
<1>2. CASE k = 1
  BY <1>1, <1>2 DEF Equations, Shared
<1>3. CASE k # 1
  <2>1. k - 1 \in 1..n /\ ~(k <= k - 1)
    BY <1>1, <1>3
  <2>2. f[k - 1] \in Seq(S) /\ g[k - 1] = f[k - 1]
    BY <1>1, <2>1
  <2>3. f[k] = f[k - 1] \o q[k] /\ g[k] = g[k - 1] \o r[k] /\ q[k] \in Seq(S) /\ r[k] = q[k]
    BY <1>1, <1>3 DEF Equations, Shared
  <2>4. f[k] \in Seq(S)
    BY <2>2, <2>3
  <2> QED
    BY <1>1, <2>2, <2>3, <2>4
<1> QED
  BY <1>2, <1>3

\* What flattening gives when the last sequence grows, or an empty one is added.
LEMMA FlattenGrows ==
    ASSUME NEW S, NEW q \in Seq(Seq(S)), NEW r \in Seq(Seq(S)), NEW x \in S,
           Len(q) # 0, Len(r) = Len(q), r[Len(q)] = Append(q[Len(q)], x),
           \A i \in 1..(Len(q) - 1) : r[i] = q[i]
    PROVE  /\ Seqs!FlattenSeq(q) \in Seq(S)
           /\ Seqs!FlattenSeq(r) = Append(Seqs!FlattenSeq(q), x)
<1> DEFINE n == Len(q)
<1>1. n \in Nat /\ n >= 1 /\ n - 1 \in Nat /\ n \in 1..n
  OBVIOUS
<1>2. \A i \in 1..n : q[i] \in Seq(S) /\ r[i] \in Seq(S)
  OBVIOUS
<1>3. PICK f : Seqs!FlattenSeq(q) = f[n] /\ Equations(f, q, n)
  BY <1>1, FlattenDef
<1>4. PICK g : Seqs!FlattenSeq(r) = g[n] /\ Equations(g, r, n)
  BY <1>1, FlattenDef
<1>5. r[n] = Append(q[n], x) /\ \A i \in 1..(n - 1) : r[i] = q[i]
  OBVIOUS
<1> HIDE DEF n
<1>6. \A i \in 1..n : f[i] \in Seq(S) /\ f[i] = f[i]
  <2>1. Shared(q, q, n, S)
    BY <1>2 DEF Shared
  <2> QED
    BY <1>1, <1>3, <2>1, FlattenAgree
<1>7. \A i \in 1..(n - 1) : f[i] \in Seq(S) /\ g[i] = f[i]
  <2>1. \A i \in 1..(n - 1) : i \in 1..n
    BY <1>1
  <2>2. Shared(q, r, n - 1, S)
    BY <1>2, <1>5, <2>1 DEF Shared
  <2>3. Equations(f, q, n - 1) /\ Equations(g, r, n - 1)
    BY <1>3, <1>4, <2>1 DEF Equations
  <2> QED
    BY <1>1, <2>2, <2>3, FlattenAgree
<1>8. g[n] = Append(f[n], x)
  <2>1. CASE n = 1
    BY <1>1, <1>3, <1>4, <1>5, <2>1 DEF Equations
  <2>2. CASE n # 1
    <3>1. n - 1 \in 1..(n - 1)
      BY <1>1, <2>2
    <3>2. g[n - 1] = f[n - 1] /\ f[n - 1] \in Seq(S) /\ q[n] \in Seq(S)
      BY <1>1, <1>2, <1>7, <3>1
    <3>3. f[n] = f[n - 1] \o q[n] /\ g[n] = f[n - 1] \o Append(q[n], x)
      BY <1>1, <1>3, <1>4, <1>5, <2>2, <3>2 DEF Equations
    <3>4. \A a, b \in Seq(S) : a \o Append(b, x) = Append(a \o b, x)
      OBVIOUS
    <3> QED
      BY <3>2, <3>3, <3>4
  <2> QED
    BY <2>1, <2>2
<1> QED
  BY <1>1, <1>3, <1>4, <1>6, <1>8

LEMMA FlattenMore ==
    ASSUME NEW S, NEW q \in Seq(Seq(S)), NEW r \in Seq(Seq(S)),
           Len(r) = Len(q) + 1, r[Len(r)] = <<>>, \A i \in 1..Len(q) : r[i] = q[i]
    PROVE  Seqs!FlattenSeq(r) = Seqs!FlattenSeq(q)
<1> DEFINE n == Len(q)
<1>1. n \in Nat /\ n + 1 # 0 /\ n + 1 \in Nat /\ n + 1 \in 1..(n + 1) /\ Len(r) = n + 1
  OBVIOUS
<1>2. PICK g : Seqs!FlattenSeq(r) = g[n + 1] /\ Equations(g, r, n + 1)
  <2>1. Len(r) # 0 /\ Len(r) \in Nat
    BY <1>1
  <2>2. \E g : Seqs!FlattenSeq(r) = g[Len(r)] /\ Equations(g, r, Len(r))
    BY <2>1, FlattenDef
  <2> QED
    BY <1>1, <2>2
<1>3. r[n + 1] = <<>>
  BY <1>1
<1>4. CASE n = 0
  <2>1. q = <<>>
    BY <1>4
  <2>2. g[n + 1] = <<>>
    BY <1>1, <1>2, <1>3, <1>4 DEF Equations
  <2> QED
    BY <1>2, <2>1, <2>2, FlattenEmpty
<1>5. CASE n # 0
  <2>1. PICK f : Seqs!FlattenSeq(q) = f[n] /\ Equations(f, q, n)
    BY <1>1, <1>5, FlattenDef
  <2>2. Shared(q, r, n, S)
    BY DEF Shared
  <2> HIDE DEF n
  <2>3. Equations(g, r, n)
    <3>1. \A i \in 1..n : i \in 1..(n + 1)
      BY <1>1
    <3> QED
      BY <1>2, <3>1 DEF Equations
  <2>4. \A i \in 1..n : f[i] \in Seq(S) /\ g[i] = f[i]
    <3>1. Equations(f, q, n)
      BY <2>1
    <3> QED
      BY ONLY <1>1, <2>2, <2>3, <3>1, FlattenAgree
  <2>5. n \in 1..n /\ n + 1 # 1 /\ (n + 1) - 1 = n
    BY <1>1, <1>5
  <2>6. g[n + 1] = f[n] \o <<>> /\ f[n] \in Seq(S)
    <3>1. g[n + 1] = g[n] \o r[n + 1] /\ g[n] = f[n]
      BY <1>1, <1>2, <2>4, <2>5 DEF Equations
    <3> QED
      BY <1>3, <2>4, <2>5, <3>1
  <2> QED
    BY <1>2, <2>1, <2>6
<1> QED
  BY <1>4, <1>5

-----------------------------------------------------------------------------
(* One writer: what it appends goes to the end of the log.                 *)

OneWriter == \A v, w \in Writers : v = w

\* There are n segments, at most one more than the glob lists, and the writer
\* is at the last of them (or at the last listed one, which sends it on).
EndAt(n) ==
    /\ DOMAIN segs = 1..n /\ n <= GlobLimit + 1
    /\ \A w \in Writers :
          /\ wpc[w] = "located" =>
                wseg[w] = IF n = 0 THEN 1 ELSE IF n > GlobLimit THEN GlobLimit ELSE n
          /\ wpc[w] = "chosen" => wseg[w] = n

EndInv == \E n \in Nat : EndAt(n)

\* The segment the writer chooses is the last, and the only new one.
LEMMA ChooseLast ==
    ASSUME OneWriter, LogInv, NEW n \in Nat, EndAt(n), NEW w \in Writers, Choose(w)
    PROVE  /\ wseg'[w] \in {n, n + 1} /\ DOMAIN segs' = 1..wseg'[w]
           /\ wseg'[w] <= GlobLimit + 1
           /\ \A s \in 1..n : segs'[s] = segs[s]
           /\ wseg'[w] = n + 1 => segs'[n + 1] = <<>>
<1> DEFINE s == wseg[w]
           t == wseg'[w]
<1>1. /\ wpc[w] = "located" /\ t \in {s, s + 1} /\ DOMAIN segs = 1..n
      /\ DOMAIN segs' = 1..n \cup {s, t}
      /\ \A u \in 1..n : segs'[u] = segs[u] /\ bytes'[u] = bytes[u]
      /\ \A u \in DOMAIN segs' \ 1..n : segs'[u] = <<>> /\ bytes'[u] = 0
      /\ t = s => ~ShouldRotate(segs'[s], bytes'[s])
      /\ t = s + 1 => ShouldRotate(segs'[s], bytes'[s])
  BY ChooseEffect DEF EndAt
<1>2. /\ s = IF n = 0 THEN 1 ELSE IF n > GlobLimit THEN GlobLimit ELSE n
      /\ n <= GlobLimit + 1 /\ GlobLimit \in Nat /\ GlobLimit >= 1
  BY <1>1, LimitsAssumption DEF EndAt
<1> HIDE DEF s, t
<1>3. CASE n = 0
  <2>1. s = 1 /\ segs'[s] = <<>> /\ bytes'[s] = 0
    BY <1>1, <1>2, <1>3
  <2>2. ~ShouldRotate(<<>>, 0)
    BY LimitsAssumption DEF ShouldRotate
  <2>3. t = 1
    BY <1>1, <2>1, <2>2
  <2> QED
    BY <1>1, <1>2, <1>3, <2>1, <2>3 DEF t
<1>4. CASE n # 0 /\ n <= GlobLimit
  <2>1. s = n
    BY <1>2, <1>4
  <2>2. DOMAIN segs' = 1..t
    BY <1>1, <1>4, <2>1
  <2> QED
    BY <1>1, <1>2, <1>4, <2>1, <2>2 DEF t
<1>5. CASE n > GlobLimit
  <2>1. n = GlobLimit + 1 /\ s = GlobLimit /\ s \in 1..n /\ s + 1 \in 1..n /\ n # 0
    BY <1>2, <1>5
  <2>2. ShouldRotate(segs[s], bytes[s])
    BY <1>1, <2>1 DEF LogInv, SealedAreFull, ShouldRotate
  <2>3. t = n
    BY <1>1, <2>1, <2>2
  <2>4. DOMAIN segs' = 1..n
    BY <1>1, <2>1, <2>3
  <2> QED
    BY <1>1, <1>2, <2>1, <2>3, <2>4 DEF t
<1> QED
  BY <1>2, <1>3, <1>4, <1>5

LEMMA EndStep ==
    ASSUME OneWriter, LogInv, EndInv, [Next]_vars
    PROVE  EndInv'
<1>0. /\ wpc \in [Writers -> {"idle", "located", "chosen", "written"}]
      /\ wseg \in [Writers -> Nat] /\ GlobLimit \in Nat /\ GlobLimit >= 1
  BY LimitsAssumption DEF LogInv, TypeOK, WriterTypeOK
<1>1. PICK n \in Nat : EndAt(n)
  BY DEF EndInv
<1>2. ASSUME DOMAIN segs' = DOMAIN segs, wseg' = wseg,
             \A w \in Writers : wpc'[w] \in {"located", "chosen"} => wpc'[w] = wpc[w]
      PROVE  EndInv'
  <2>1. EndAt(n)'
    BY <1>1, <1>2 DEF EndAt
  <2> QED
    BY <2>1 DEF EndInv
<1>3. ASSUME NEW w \in Writers, NEW m \in Messages, Locate(w, m) PROVE EndInv'
  <2>1. PICK s \in DOMAIN segs \cup {1} : IsActive(s) /\ wseg' = [wseg EXCEPT ![w] = s]
    BY <1>3 DEF Locate
  <2>2. segs' = segs /\ wpc' = [wpc EXCEPT ![w] = "located"]
    BY <1>3 DEF Locate, logVars
  <2>3. DOMAIN segs = 1..n /\ n <= GlobLimit + 1
    BY <1>1 DEF EndAt
  <2>4. s = IF n = 0 THEN 1 ELSE IF n > GlobLimit THEN GlobLimit ELSE n
    <3>1. \A t : t \in Visible <=> t \in 1..n /\ t <= GlobLimit
      BY <2>3 DEF Visible
    <3>2. CASE n = 0
      BY <2>3, <3>2, <2>1
    <3>3. CASE n # 0 /\ n <= GlobLimit
      <4>1. n \in Visible
        BY <1>0, <3>1, <3>3
      <4> QED
        BY <1>0, <2>1, <3>1, <3>3, <4>1 DEF IsActive
    <3>4. CASE n > GlobLimit
      <4>1. GlobLimit \in Visible
        BY <1>0, <3>1, <3>4
      <4> QED
        BY <1>0, <2>1, <3>1, <3>4, <4>1 DEF IsActive
    <3> QED
      BY <1>0, <3>2, <3>3, <3>4
  <2>5. \A v \in Writers : v = w
    BY DEF OneWriter
  <2>6. EndAt(n)'
    <3>1. \A v \in Writers : wpc'[v] = "located" /\ wseg'[v] = s
      BY <1>0, <2>1, <2>2, <2>5
    <3> QED
      BY <2>2, <2>3, <2>4, <3>1 DEF EndAt
  <2> QED
    BY <2>6 DEF EndInv
<1>4. ASSUME NEW w \in Writers, Choose(w) PROVE EndInv'
  <2>1. PICK k \in Nat : wseg'[w] = k /\ DOMAIN segs' = 1..k /\ k <= GlobLimit + 1
    BY <1>1, <1>4, ChooseLast
  <2>2. \A v \in Writers : v = w /\ wpc'[v] = "chosen"
    BY <1>0, <1>4 DEF Choose, OneWriter
  <2>3. EndAt(k)'
    BY <2>1, <2>2 DEF EndAt
  <2> QED
    BY <2>3 DEF EndInv
<1>5. ASSUME NEW w \in Writers, Write(w) \/ TearWrite(w) PROVE EndInv'
  <2>1. CASE Write(w)
    <3>1. DOMAIN segs' = DOMAIN segs /\ wseg' = wseg
      BY <2>1 DEF Write
    <3>2. \A v \in Writers : wpc'[v] \in {"located", "chosen"} => wpc'[v] = wpc[v]
      BY <1>0, <2>1 DEF Write
    <3> QED
      BY <1>2, <3>1, <3>2
  <2>2. CASE TearWrite(w)
    <3>1. DOMAIN segs' = DOMAIN segs /\ wseg' = wseg
      BY <2>2 DEF TearWrite
    <3>2. \A v \in Writers : wpc'[v] \in {"located", "chosen"} => wpc'[v] = wpc[v]
      BY <1>0, <2>2 DEF TearWrite
    <3> QED
      BY <1>2, <3>1, <3>2
  <2> QED
    BY <1>5, <2>1, <2>2
<1>6. ASSUME NEW w \in Writers, Ack(w) \/ CrashWriter(w) PROVE EndInv'
  <2>1. segs' = segs /\ wseg' = wseg
    BY <1>6 DEF Ack, CrashWriter, logVars
  <2>2. \A v \in Writers : wpc'[v] \in {"located", "chosen"} => wpc'[v] = wpc[v]
    BY <1>0, <1>6 DEF Ack, CrashWriter
  <2> QED
    BY <1>2, <2>1, <2>2
<1>7. ASSUME UNCHANGED <<logVars, writerVars>> PROVE EndInv'
  BY <1>2, <1>7 DEF logVars, writerVars
<1>8. ASSUME NEW p \in Pollers, PollStep(p) \/ CrashPoller(p)
      PROVE  UNCHANGED <<logVars, writerVars>>
  BY <1>8 DEF PollStep, LoadCursor, Glob, ReadSegment, ReturnEmpty, Mark,
              SaveBegin, SaveEnd, Return, CrashPoller
<1>9. ASSUME NEW a \in Agents, SaveElsewhereBegin(a) \/ SaveElsewhereEnd(a)
      PROVE  UNCHANGED <<logVars, writerVars>>
  BY <1>9 DEF SaveElsewhereBegin, SaveElsewhereEnd
<1>10. UNCHANGED vars => UNCHANGED <<logVars, writerVars>>
  BY DEF vars
<1> QED
  BY <1>3, <1>4, <1>5, <1>6, <1>7, <1>8, <1>9, <1>10 DEF Next, WriterStep

LEMMA SegsSequence ==
    ASSUME AckInv, NEW n \in Nat, DOMAIN segs = 1..n, LogTypeOK
    PROVE  segs \in Seq(Seq(Messages)) /\ Len(segs) = n
<1>1. segs \in [1..n -> Seq(Messages)]
  BY DEF AckInv, LogTypeOK
<1> QED
  BY <1>1

\* A write appends to the stream, and nothing else changes it.
LEMMA StreamStep ==
    ASSUME Undisturbed, OneWriter, LogInv, LogInv', AckInv, AckInv', EndInv, [Next]_vars
    PROVE  /\ \A w \in Writers : Write(w) => Stream' = Append(Stream, wmsg[w])
           /\ (\A w \in Writers : ~Write(w)) => Stream' = Stream
<1>1. PICK n \in Nat : EndAt(n)
  BY DEF EndInv
<1>2. LogTypeOK /\ LogTypeOK' /\ ~TornWrites /\ DOMAIN segs = 1..n
  BY <1>1 DEF LogInv, TypeOK, Undisturbed, EndAt
<1>3. segs \in Seq(Seq(Messages)) /\ Len(segs) = n
  BY <1>2, SegsSequence
<1>4. ASSUME NEW k \in Nat, DOMAIN segs' = 1..k
      PROVE  segs' \in Seq(Seq(Messages)) /\ Len(segs') = k
  <2>1. segs' \in [1..k -> Seq(Messages)]
    BY <1>2, <1>4 DEF AckInv, LogTypeOK
  <2> QED
    BY <2>1
<1>5. ASSUME NEW w \in Writers, Write(w) PROVE Stream' = Append(Stream, wmsg[w])
  <2>1. wseg[w] = n
    BY <1>1, <1>5 DEF EndAt, Write
  <2>2. /\ n \in 1..n /\ DOMAIN segs' = 1..n /\ wmsg[w] \in Messages
        /\ segs'[n] = Append(segs[n], wmsg[w])
        /\ \A s \in 1..n : s # n => segs'[s] = segs[s]
    BY <1>2, <1>5, <2>1, Appends
  <2>3. segs' \in Seq(Seq(Messages)) /\ Len(segs') = n
    BY <1>4, <2>2
  <2>4. n # 0 /\ \A s \in 1..(n - 1) : segs'[s] = segs[s]
    BY <2>2
  <2>5. /\ Len(segs) # 0 /\ Len(segs') = Len(segs) /\ wmsg[w] \in Messages
        /\ segs'[Len(segs)] = Append(segs[Len(segs)], wmsg[w])
        /\ \A s \in 1..(Len(segs) - 1) : segs'[s] = segs[s]
    BY <1>3, <2>2, <2>3, <2>4
  <2>6. Seqs!FlattenSeq(segs') = Append(Seqs!FlattenSeq(segs), wmsg[w])
    BY <1>3, <2>3, <2>5, FlattenGrows
  <2> QED
    BY <2>6 DEF Stream
<1>6. ASSUME \A w \in Writers : ~Write(w) PROVE Stream' = Stream
  <2>1. /\ \A s \in DOMAIN segs : s \in DOMAIN segs' /\ segs'[s] = segs[s]
        /\ \A s \in DOMAIN segs' \ DOMAIN segs : segs'[s] = <<>>
    BY <1>2, <1>6, OtherSteps
  <2>2. DOMAIN segs' = 1..n \/ DOMAIN segs' = 1..(n + 1)
    <3>1. ASSUME NEW w \in Writers, Choose(w)
          PROVE  DOMAIN segs' = 1..n \/ DOMAIN segs' = 1..(n + 1)
      BY <1>1, <3>1, ChooseLast
    <3>2. CASE \A w \in Writers : ~Choose(w)
      <4>1. DOMAIN segs' = DOMAIN segs
        BY <1>2, <1>6, <3>2 DEF Next, WriterStep, Locate, Ack, CrashWriter, TearWrite, PollStep,
              LoadCursor, Glob, ReadSegment, ReturnEmpty, Mark, SaveBegin, SaveEnd,
              Return, CrashPoller, SaveElsewhereBegin, SaveElsewhereEnd, vars, logVars
      <4> QED
        BY <1>2, <4>1
    <3> QED
      BY <3>1, <3>2
  <2>3. CASE DOMAIN segs' = 1..n
    <3>1. segs \in [1..n -> Seq(Messages)] /\ segs' \in [1..n -> Seq(Messages)]
      BY <1>2, <2>3 DEF LogTypeOK, AckInv
    <3>2. segs' = segs
      BY <1>2, <2>1, <3>1
    <3> QED
      BY <3>2 DEF Stream
  <2>4. CASE DOMAIN segs' = 1..(n + 1)
    <3>1. segs' \in Seq(Seq(Messages)) /\ Len(segs') = n + 1 /\ n + 1 \in Nat
      BY <1>4, <2>4
    <3>2. segs'[n + 1] = <<>> /\ \A s \in 1..n : segs'[s] = segs[s]
      BY <1>2, <2>1, <2>4
    <3>3. Seqs!FlattenSeq(segs') = Seqs!FlattenSeq(segs)
      BY <1>3, <3>1, <3>2, FlattenMore
    <3> QED
      BY <3>3 DEF Stream
  <2> QED
    BY <2>2, <2>3, <2>4
<1> QED
  BY <1>5, <1>6

InLog(m) == \E s \in DOMAIN segs : m \in LinesOf(s)

\* No line comes before one that was there, and a segment that is not the last
\* gets no more lines.
AtEnd ==
    /\ \A m, n : InLog(n) /\ Before(m, n)' => Before(m, n)
    /\ \A s \in DOMAIN segs, t \in DOMAIN segs' :
          t < s => t \in DOMAIN segs /\ segs'[t] = segs[t]

LEMMA AtEndStep ==
    ASSUME Undisturbed, OneWriter, LogInv, LogInv', AckInv, LinesOnce, LinesOnce', EndInv,
           [Next]_vars
    PROVE  AtEnd
<1>1. PICK n \in Nat : EndAt(n)
  BY DEF EndInv
<1>2. DOMAIN segs = 1..n /\ ~TornWrites /\ DOMAIN segs' \subseteq Nat \ {0}
  BY <1>1 DEF EndAt, Undisturbed, LogInv, TypeOK, LogTypeOK
<1>3. CASE \E w \in Writers : Write(w)
  <2>1. PICK w \in Writers : Write(w)
    BY <1>3
  <2>2. wseg[w] = n
    BY <1>1, <2>1 DEF EndAt, Write
  <2>3. /\ n \in 1..n /\ DOMAIN segs' = 1..n /\ segs[n] \in Seq(Messages)
        /\ segs'[n] = Append(segs[n], wmsg[w])
        /\ \A s \in 1..n : s # n => segs'[s] = segs[s]
    BY <1>2, <2>1, <2>2, Appends
  <2> DEFINE l == Len(segs[n])
  <2>4. /\ l \in Nat /\ Len(segs'[n]) = l + 1 /\ segs'[n][l + 1] = wmsg[w]
        /\ \A i \in 1..l : segs'[n][i] = segs[n][i]
    BY <2>3
  <2>5. ~InLog(wmsg[w])
    BY <2>1 DEF InLog, LinesOnce, Pending, Write
  <2>6. ASSUME NEW s \in 1..n, NEW i \in 1..Len(segs'[s])
        PROVE  \/ s = n /\ i = l + 1
               \/ i \in 1..Len(segs[s]) /\ segs'[s][i] = segs[s][i]
    <3>1. CASE s # n
      BY <2>3, <3>1
    <3>2. CASE s = n
      BY <2>4, <3>2
    <3> QED
      BY <3>1, <3>2
  <2> HIDE DEF l
  <2>7. ASSUME NEW a, NEW b, InLog(b), Before(a, b)' PROVE Before(a, b)
    <3>1. PICK s, t \in 1..n : \E i \in 1..Len(segs'[s]), j \in 1..Len(segs'[t]) :
              segs'[s][i] = a /\ segs'[t][j] = b /\ (s < t \/ (s = t /\ i < j))
      BY <2>3, <2>7 DEF Before
    <3>2. PICK i \in 1..Len(segs'[s]), j \in 1..Len(segs'[t]) :
              segs'[s][i] = a /\ segs'[t][j] = b /\ (s < t \/ (s = t /\ i < j))
      BY <3>1
    <3>3. ~(t = n /\ j = l + 1)
      BY <2>4, <2>5, <2>7, <3>2
    <3>4. j \in 1..Len(segs[t]) /\ segs'[t][j] = segs[t][j]
      BY <2>6, <3>3
    <3>5. ~(s = n /\ i = l + 1)
      <4>1. t = n => j \in 1..l
        BY <3>4 DEF l
      <4> QED
        BY <2>4, <3>2, <4>1
    <3>6. i \in 1..Len(segs[s]) /\ segs'[s][i] = segs[s][i]
      BY <2>6, <3>5
    <3> QED
      BY <1>2, <3>2, <3>4, <3>6 DEF Before
  <2>8. ASSUME NEW s \in 1..n, NEW t \in 1..n, t < s PROVE segs'[t] = segs[t]
    BY <2>3, <2>8
  <2> QED
    BY <1>2, <2>3, <2>7, <2>8 DEF AtEnd
<1>4. CASE ~\E w \in Writers : Write(w)
  <2>1. /\ \A s \in DOMAIN segs : s \in DOMAIN segs' /\ segs'[s] = segs[s]
        /\ \A s \in DOMAIN segs' \ DOMAIN segs : segs'[s] = <<>>
    BY <1>2, <1>4, OtherSteps
  <2>2. \A s \in DOMAIN segs' : \A i \in 1..Len(segs'[s]) :
            s \in DOMAIN segs /\ i \in 1..Len(segs[s]) /\ segs'[s][i] = segs[s][i]
    BY <2>1
  <2>3. ASSUME NEW a, NEW b, Before(a, b)' PROVE Before(a, b)
    BY <2>2, <2>3 DEF Before
  <2>4. ASSUME NEW s \in DOMAIN segs, NEW t \in DOMAIN segs', t < s
        PROVE  t \in DOMAIN segs /\ segs'[t] = segs[t]
    BY <1>2, <2>1, <2>4
  <2> QED
    BY <2>3, <2>4 DEF AtEnd
<1> QED
  BY <1>3, <1>4

\* The stream holds all lines, each before those that follow it.
StreamInv ==
    /\ Stream \in Seq(Messages)
    /\ Increasing(Stream)
    /\ \A m : m \in InLine(Stream) <=> InLog(m)

LEMMA StreamInvStep ==
    ASSUME Undisturbed, OneWriter, LogInv, LogInv', AckInv, AckInv', EndInv, Grows,
           StreamInv, [Next]_vars
    PROVE  StreamInv'
<1>0. \A w \in Writers : Write(w) => Stream' = Append(Stream, wmsg[w])
  BY StreamStep
<1>1. (\A w \in Writers : ~Write(w)) => Stream' = Stream
  BY StreamStep
<1>2. PICK n \in Nat : EndAt(n)
  BY DEF EndInv
<1>3. /\ DOMAIN segs = 1..n /\ ~TornWrites
      /\ Stream \in Seq(Messages) /\ Len(Stream) \in Nat
      /\ \A i, j \in 1..Len(Stream) : i < j => Before(Stream[i], Stream[j])
      /\ \A m : m \in InLine(Stream) <=> InLog(m)
  BY <1>2 DEF EndAt, Undisturbed, StreamInv, Increasing
<1>4. \A a, b : Before(a, b) => Before(a, b)'
  BY Growing
<1>5. ASSUME NEW w \in Writers, Write(w) PROVE StreamInv'
  <2>1. wseg[w] = n
    BY <1>2, <1>5 DEF EndAt, Write
  <2>2. /\ n \in 1..n /\ DOMAIN segs' = 1..n /\ wmsg[w] \in Messages
        /\ segs[n] \in Seq(Messages)
        /\ segs'[n] = Append(segs[n], wmsg[w])
        /\ \A s \in 1..n : s # n => segs'[s] = segs[s]
    BY <1>3, <1>5, <2>1, Appends
  <2> DEFINE l == Len(segs[n])
             k == Len(Stream)
  <2> PICK m \in Messages : m = wmsg[w]
    BY <2>2
  <2>3. /\ l \in Nat /\ Len(segs'[n]) = l + 1 /\ segs'[n][l + 1] = m
        /\ \A i \in 1..l : segs'[n][i] = segs[n][i]
    BY <2>2
  <2>4. /\ Stream' \in Seq(Messages) /\ Len(Stream') = k + 1 /\ Stream'[k + 1] = m
        /\ \A i \in 1..k : Stream'[i] = Stream[i]
    <3>1. Stream' = Append(Stream, m)
      BY <1>0, <1>5
    <3> QED
      BY <1>3, <2>2, <3>1
  <2> HIDE DEF l, k
  <2>5. \A x : InLog(x)' <=> InLog(x) \/ x = m
    <3>1. \A s \in 1..n : s # n => LinesOf(s)' = LinesOf(s)
      BY <2>2 DEF LinesOf
    <3>2. LinesOf(n)' = LinesOf(n) \cup {m}
      <4>1. /\ LinesOf(n)' = {segs'[n][i] : i \in 1..(l + 1)}
            /\ LinesOf(n) = {segs[n][i] : i \in 1..l}
        BY <2>3 DEF LinesOf, l
      <4>2. 1..(l + 1) = (1..l) \cup {l + 1}
        BY <2>3
      <4> QED
        BY <2>3, <4>1, <4>2
    <3> QED
      BY <1>3, <2>2, <3>1, <3>2 DEF InLog
  <2>6. \A x : x \in InLine(Stream)' <=> x \in InLine(Stream) \/ x = m
    <3>1. /\ InLine(Stream)' = {Stream'[i] : i \in 1..(k + 1)}
          /\ InLine(Stream) = {Stream[i] : i \in 1..k}
      BY <2>4 DEF InLine, k
    <3>2. 1..(k + 1) = (1..k) \cup {k + 1}
      BY <1>3 DEF k
    <3> QED
      BY <2>4, <3>1, <3>2
  <2>7. \A x : InLog(x) => Before(x, m)'
    <3> SUFFICES ASSUME NEW x, InLog(x) PROVE Before(x, m)'
      OBVIOUS
    <3>0. PICK s \in 1..n : \E i \in 1..Len(segs[s]) : segs[s][i] = x
      BY <1>3 DEF InLog, LinesOf
    <3>1. PICK i \in 1..Len(segs[s]) : segs[s][i] = x
      BY <3>0
    <3>2. i \in 1..Len(segs'[s]) /\ segs'[s][i] = x /\ (s = n => i \in 1..l)
      BY <1>3, <3>1 DEF Grows, l
    <3>3. s < n \/ (s = n /\ i < l + 1)
      BY <2>3, <3>2
    <3>4. l + 1 \in 1..Len(segs'[n])
      BY <2>3
    <3> QED
      BY <2>2, <2>3, <3>2, <3>3, <3>4 DEF Before
  <2>8. Increasing(Stream)'
    <3> SUFFICES ASSUME NEW i \in 1..(k + 1), NEW j \in 1..(k + 1), i < j
                 PROVE  Before(Stream[i], Stream[j])'
      BY <2>4 DEF Increasing
    <3>1. k \in Nat /\ i \in 1..k
      BY <1>3 DEF k
    <3>2. CASE j = k + 1
      <4>1. InLog(Stream[i])
        BY <1>3, <3>1 DEF InLine, k
      <4>2. Stream'[i] = Stream[i] /\ Stream'[j] = m
        BY <2>4, <3>1, <3>2
      <4>3. \A x : x = Stream[i] => Before(x, m)'
        BY <2>7, <4>1
      <4> QED
        BY <4>2, <4>3 DEF Before
    <3>3. CASE j # k + 1
      <4>1. j \in 1..k
        BY <3>1, <3>3
      <4>2. Before(Stream[i], Stream[j])
        BY <1>3, <3>1, <4>1 DEF k
      <4>3. Stream'[i] = Stream[i] /\ Stream'[j] = Stream[j]
        BY <2>4, <3>1, <4>1
      <4>4. \A x, y : x = Stream[i] /\ y = Stream[j] => Before(x, y)'
        BY <1>4, <4>2
      <4> QED
        BY <4>3, <4>4 DEF Before
    <3> QED
      BY <3>2, <3>3
  <2> QED
    BY <1>3, <2>4, <2>5, <2>6, <2>8 DEF StreamInv
<1>6. ASSUME \A w \in Writers : ~Write(w) PROVE StreamInv'
  <2>1. Stream' = Stream
    BY <1>1, <1>6
  <2>2. /\ \A s \in DOMAIN segs : s \in DOMAIN segs' /\ segs'[s] = segs[s]
        /\ \A s \in DOMAIN segs' \ DOMAIN segs : segs'[s] = <<>>
    BY <1>3, <1>6, OtherSteps
  <2>3. \A x : InLog(x)' <=> InLog(x)
    BY <2>2 DEF InLog, LinesOf
  <2>4. Increasing(Stream)'
    BY <1>3, <1>4, <2>1 DEF Increasing
  <2>5. InLine(Stream)' = InLine(Stream)
    BY <2>1 DEF InLine
  <2> QED
    BY <1>3, <2>1, <2>3, <2>4, <2>5 DEF StreamInv
<1> QED
  BY <1>5, <1>6

-----------------------------------------------------------------------------
(* One writer: what a poll hands on leaves nothing out.                    *)

\* What an agent was handed is in the order of the log, and unless a poll is
\* about to hand more over it is everything its cursor has passed.
HandedAll(a) ==
    /\ Increasing(inbox[a])
    /\ (\A p \in Pollers : AgentOf[p] = a => ppc[p] # "returning") =>
          \A m : Reached(m, cursor[a]) => m \in InLine(inbox[a])

Collected(m, p) == Reached(m, Cur(p)) \/ m \in InLine(pgot[p])

\* A poll has collected the segments before those it is still to read, as far as
\* the cursor had not passed them, and whatever comes before what it collected.
ReadAll(p) ==
    /\ \A m \in InLine(pgot[p]) : InLog(m)
    /\ ppc[p] = "reading" =>
          \A s \in ptodo[p], t \in DOMAIN segs :
              t \notin ptodo[p] /\ t < s => \A m \in LinesOf(t) : Collected(m, p)
    /\ ppc[p] \in {"reading", "marking", "saving"} =>
          \A n \in InLine(pgot[p]) : \A m : Before(m, n) => Collected(m, p)
    /\ ppc[p] = "returning" =>
          /\ pgot[p] # <<>>
          /\ Increasing(inbox[AgentOf[p]] \o pgot[p])
          /\ \A m : Reached(m, Cur(p)) =>
                m \in InLine(inbox[AgentOf[p]]) \/ m \in InLine(pgot[p])

GapFree ==
    /\ \A a \in Agents : HandedAll(a)
    /\ \A p \in Pollers : ReadAll(p)

\* The steps of others.
LEMMA ReachedKept ==
    ASSUME AtEnd, ResolveInv, NEW a \in Agents, cursor'[a] = cursor[a]
    PROVE  \A m : Reached(m, cursor[a])' => Reached(m, cursor[a])
<1> SUFFICES ASSUME NEW m, Reached(m, cursor[a])' PROVE Reached(m, cursor[a])
  OBVIOUS
<1> PICK c : c = cursor[a]
  OBVIOUS
<1>1. Reached(m, c)'
  BY DEF Reached, Before
<1>2. c # None /\ (m = c.id \/ Before(m, c.id)')
  BY <1>1 DEF Reached
<1>3. InLog(c.id)
  BY <1>2 DEF ResolveInv, CursorResolves, InLog, Visible
<1>4. m = c.id \/ Before(m, c.id)
  BY <1>2, <1>3 DEF AtEnd
<1> QED
  BY <1>2, <1>4 DEF Reached

LEMMA HandedKept ==
    ASSUME AtEnd, Grows, ResolveInv, NEW a \in Agents, HandedAll(a),
           cursor'[a] = cursor[a], inbox'[a] = inbox[a],
           \A p \in Pollers : AgentOf[p] = a /\ ppc[p] = "returning" => ppc'[p] = "returning"
    PROVE  HandedAll(a)'
<1>1. Increasing(inbox[a])'
  BY Growing DEF HandedAll, Increasing
<1>2. \A m : Reached(m, cursor[a])' => Reached(m, cursor[a])
  BY ReachedKept
<1>3. InLine(inbox[a])' = InLine(inbox[a])
  BY DEF InLine
<1> QED
  BY <1>1, <1>2, <1>3 DEF HandedAll

LEMMA CollectedKept ==
    ASSUME Grows, NEW p \in Pollers, pgot'[p] = pgot[p], Cur(p)' = Cur(p)
    PROVE  \A m : Collected(m, p) => Collected(m, p)'
<1>1. InLine(pgot[p])' = InLine(pgot[p])
  BY DEF InLine
<1>2. ASSUME NEW m, Reached(m, Cur(p)) PROVE Reached(m, Cur(p))'
  BY <1>2, Growing DEF Cur
<1> QED
  BY <1>1, <1>2 DEF Collected

LEMMA ReadKept ==
    ASSUME AtEnd, Grows, ResolveInv, LogTypeOK, NEW p \in Pollers, AgentOf[p] \in Agents,
           ReadAll(p),
           ptodo[p] \subseteq DOMAIN segs, ppc'[p] = ppc[p], ptodo'[p] = ptodo[p],
           pgot'[p] = pgot[p], cursor'[AgentOf[p]] = cursor[AgentOf[p]],
           inbox'[AgentOf[p]] = inbox[AgentOf[p]]
    PROVE  ReadAll(p)'
<1>0. /\ InLine(pgot[p])' = InLine(pgot[p])
      /\ InLine(inbox[AgentOf[p]])' = InLine(inbox[AgentOf[p]])
      /\ Cur(p)' = Cur(p)
  BY DEF InLine, Cur
<1>1. \A m : Collected(m, p) => Collected(m, p)'
  BY <1>0, CollectedKept
<1>2. \A m \in InLine(pgot[p]) : InLog(m)
  BY DEF ReadAll
<1>3. \A m \in InLine(pgot[p])' : InLog(m)'
  BY <1>0, <1>2, Growing DEF InLog
<1>4. ASSUME ppc[p] = "reading", NEW s \in ptodo[p], NEW t \in DOMAIN segs',
             t \notin ptodo[p], t < s, NEW m \in LinesOf(t)'
      PROVE  Collected(m, p)'
  <2>1. t \in DOMAIN segs /\ segs'[t] = segs[t]
    BY <1>4 DEF AtEnd
  <2>2. m \in LinesOf(t)
    BY <2>1 DEF LinesOf
  <2> QED
    BY <1>1, <1>4, <2>1, <2>2 DEF ReadAll
<1>5. ASSUME ppc[p] \in {"reading", "marking", "saving"}, NEW n \in InLine(pgot[p]),
             NEW m, Before(m, n)'
      PROVE  Collected(m, p)'
  <2>1. Before(m, n)
    BY <1>2, <1>5 DEF AtEnd
  <2> QED
    BY <1>1, <1>5, <2>1 DEF ReadAll
<1>6. Increasing(inbox[AgentOf[p]] \o pgot[p]) => Increasing(inbox[AgentOf[p]] \o pgot[p])'
  BY Growing DEF Increasing
<1>7. \A m : Reached(m, Cur(p))' => Reached(m, Cur(p))
  BY ReachedKept DEF Cur
<1> QED
  BY <1>0, <1>3, <1>4, <1>5, <1>6, <1>7 DEF ReadAll

\* A poll that reads a segment has then collected all of it that the cursor had
\* not passed.
LEMMA KeptAll ==
    ASSUME LogTypeOK, AckInv, LinesOnce, ResolveInv, CursorTypeOK, PollTypeOK,
           NEW p \in Pollers, ppc[p] = "reading", ReadOK(p),
           NEW s \in ptodo[p], \A t \in ptodo[p] : s <= t
    PROVE  LET new == Kept(segs[s], pcur[p], pfound[p])
           IN /\ new \in Seq(Messages)
              /\ \A m \in InLine(new) : m \in LinesOf(s)
              /\ \A m \in LinesOf(s) : Reached(m, Cur(p)) \/ m \in InLine(new)
<1> DEFINE q   == segs[s]
           c   == pcur[p]
           new == Kept(q, c, pfound[p])
<1>1. /\ s \in DOMAIN segs /\ q \in Seq(Messages) /\ Len(q) \in Nat
      /\ c = Cur(p) /\ (~pfound[p] => c # None)
  BY DEF LogTypeOK, AckInv, PollTypeOK, ReadOK
<1>2. PICK k \in 0..Len(q) :
          /\ IF pfound[p] THEN k = 0 ELSE k # 0 /\ q[k] = c.id
          /\ new \in Seq(Messages) /\ Len(new) = Len(q) - k
          /\ \A i \in 1..(Len(q) - k) : new[i] = q[k + i]
  BY KeptPart
<1> HIDE DEF new
<1>3. \A m \in InLine(new) : m \in LinesOf(s)
  <2> SUFFICES ASSUME NEW i \in 1..Len(new) PROVE new[i] \in LinesOf(s)
    BY DEF InLine
  <2>1. k + i \in 1..Len(q) /\ new[i] = q[k + i]
    BY <1>1, <1>2
  <2> QED
    BY <2>1 DEF LinesOf
<1>4. ASSUME NEW i \in 1..Len(q) PROVE Reached(q[i], Cur(p)) \/ q[i] \in InLine(new)
  <2>1. CASE i > k
    <3>1. i - k \in 1..Len(new) /\ new[i - k] = q[k + (i - k)] /\ k + (i - k) = i
      BY <1>1, <1>2, <2>1
    <3> QED
      BY <3>1 DEF InLine
  <2>2. CASE i <= k
    <3>1. k \in 1..Len(q) /\ q[k] = c.id /\ c # None
      BY <1>1, <1>2, <2>2
    <3>2. i = k \/ Before(q[i], q[k])
      BY <1>1, <2>2, <3>1 DEF Before
    <3> QED
      BY <1>1, <3>1, <3>2 DEF Reached
  <2> QED
    BY <1>1, <2>1, <2>2
<1> QED
  BY <1>2, <1>3, <1>4 DEF LinesOf, new

\* Two sequences in the order of the log, the second after the first.
LEMMA IncreasingJoined ==
    ASSUME NEW q \in Seq(Messages), NEW r \in Seq(Messages), Increasing(q), Increasing(r),
           \A m \in InLine(q), n \in InLine(r) : Before(m, n)
    PROVE  Increasing(q \o r)
<1>1. /\ Len(q) \in Nat /\ Len(r) \in Nat
      /\ \A i \in 1..Len(q) : (q \o r)[i] = q[i]
      /\ \A i \in 1..Len(r) : (q \o r)[Len(q) + i] = r[i]
      /\ \A i \in 1..Len(q \o r) :
            i \in 1..Len(q) \/ \E j \in 1..Len(r) : i = Len(q) + j
  <2>1. Parts(q, r)
    BY Joined
  <2> QED
    BY <2>1 DEF Parts
<1> SUFFICES ASSUME NEW i \in 1..Len(q \o r), NEW j \in 1..Len(q \o r), i < j
             PROVE  Before((q \o r)[i], (q \o r)[j])
  BY DEF Increasing
<1>2. CASE i \in 1..Len(q) /\ j \in 1..Len(q)
  BY <1>1, <1>2 DEF Increasing
<1>3. ASSUME i \in 1..Len(q), NEW l \in 1..Len(r), j = Len(q) + l
      PROVE  Before((q \o r)[i], (q \o r)[j])
  <2>1. q[i] \in InLine(q) /\ r[l] \in InLine(r)
    BY <1>3 DEF InLine
  <2> QED
    BY <1>1, <1>3, <2>1
<1>4. ASSUME NEW k \in 1..Len(r), i = Len(q) + k
      PROVE  Before((q \o r)[i], (q \o r)[j])
  <2>1. ~(j \in 1..Len(q))
    BY <1>1, <1>4
  <2>2. PICK l \in 1..Len(r) : j = Len(q) + l
    BY <1>1, <2>1
  <2>3. k < l
    BY <1>1, <1>4, <2>2
  <2>4. Before(r[k], r[l])
    BY <2>3 DEF Increasing
  <2> QED
    BY <1>1, <1>4, <2>2, <2>4
<1> QED
  BY <1>1, <1>2, <1>3, <1>4

LEMMA InLineJoined ==
    ASSUME NEW q \in Seq(Messages), NEW r \in Seq(Messages)
    PROVE  \A m : m \in InLine(q \o r) <=> m \in InLine(q) \/ m \in InLine(r)
<1>1. /\ Len(q) \in Nat /\ Len(r) \in Nat /\ Len(q \o r) = Len(q) + Len(r)
      /\ \A i \in 1..Len(q) : (q \o r)[i] = q[i]
      /\ \A i \in 1..Len(r) : (q \o r)[Len(q) + i] = r[i]
      /\ \A i \in 1..Len(q \o r) :
            i \in 1..Len(q) \/ \E j \in 1..Len(r) : i = Len(q) + j
  <2>1. Parts(q, r)
    BY Joined
  <2> QED
    BY <2>1 DEF Parts
<1>2. \A i \in 1..Len(q) : i \in 1..Len(q \o r)
  BY <1>1
<1>3. \A i \in 1..Len(r) : Len(q) + i \in 1..Len(q \o r)
  BY <1>1
<1>4. ASSUME NEW i \in 1..Len(q \o r)
      PROVE  (q \o r)[i] \in InLine(q) \/ (q \o r)[i] \in InLine(r)
  <2>1. CASE i \in 1..Len(q)
    BY <1>1, <2>1 DEF InLine
  <2>2. ASSUME NEW j \in 1..Len(r), i = Len(q) + j PROVE (q \o r)[i] \in InLine(r)
    BY <1>1, <2>2 DEF InLine
  <2> QED
    BY <1>1, <2>1, <2>2
<1>5. ASSUME NEW i \in 1..Len(q) PROVE q[i] \in InLine(q \o r)
  BY <1>1, <1>2 DEF InLine
<1>6. ASSUME NEW i \in 1..Len(r) PROVE r[i] \in InLine(q \o r)
  BY <1>1, <1>3 DEF InLine
<1> QED
  BY <1>4, <1>5, <1>6 DEF InLine

\* The poll that takes a step.
LEMMA GapOwn ==
    ASSUME Undisturbed, LogInv, AckInv, LinesOnce, ResolveInv, PollInv, Grows, AtEnd, GapFree,
           NEW p \in Pollers, PollStep(p)
    PROVE  HandedAll(AgentOf[p])' /\ ReadAll(p)'
<1> DEFINE a == AgentOf[p]
<1>0. /\ TypeOK /\ LogTypeOK /\ PollTypeOK /\ CursorTypeOK /\ a \in Agents
      /\ Own(p) /\ segs' = segs
      /\ ReadOK(p) /\ BatchOK(p) /\ InboxOK(a)
      /\ HandedAll(a) /\ ReadAll(p)
  BY OwnFrame, AgentsAssumption DEF LogInv, TypeOK, PollInv, GapFree
<1>1. /\ \A m, n : Before(m, n)' <=> Before(m, n)
      /\ \A s : LinesOf(s)' = LinesOf(s)
      /\ \A m : InLog(m)' <=> InLog(m)
  BY <1>0 DEF Before, LinesOf, InLog
<1>2. \A q \in Pollers : AgentOf[q] = a => q = p
  BY DEF Undisturbed
\* What stays while the poll leaves the cursor and the inbox alone.
<1>3. ASSUME UNCHANGED <<cursor, inbox>>, ppc[p] # "returning"
      PROVE  HandedAll(a)'
  BY <1>0, <1>2, <1>3, HandedKept
<1>4. ASSUME Leave(p) PROVE ReadAll(p)'
  <2>1. ppc'[p] = "idle" /\ pgot'[p] = <<>>
    BY <1>0, <1>4 DEF Leave, PollTypeOK
  <2> QED
    BY <2>1 DEF ReadAll, InLine
<1>5. ASSUME UNCHANGED <<cursor, pgot>>,
             ppc[p] \in {"reading", "marking", "saving"}, ppc'[p] \in {"marking", "saving"}
      PROVE  ReadAll(p)'
  <2>1. InLine(pgot[p])' = InLine(pgot[p]) /\ Cur(p)' = Cur(p)
    BY <1>5 DEF InLine, Cur
  <2>2. \A m : Collected(m, p) => Collected(m, p)'
    BY <1>5, <2>1, CollectedKept
  <2> QED
    BY <1>0, <1>1, <1>5, <2>1, <2>2 DEF ReadAll
<1>6. CASE LoadCursor(p)
  <2>1. /\ ppc[p] = "idle" /\ ppc'[p] = "loaded" /\ pgot' = pgot
        /\ UNCHANGED <<cursor, inbox>>
    BY <1>0, <1>6 DEF LoadCursor, PollTypeOK, cursorVars
  <2>2. pgot'[p] = <<>>
    BY <1>0, <2>1 DEF ReadOK
  <2>3. ReadAll(p)'
    BY <2>1, <2>2 DEF ReadAll, InLine
  <2> QED
    BY <1>3, <2>1, <2>3
<1>7. CASE Glob(p)
  <2>1. /\ ppc[p] = "loaded" /\ ppc'[p] = "reading" /\ ptodo'[p] = FromCursor(pcur[p])
        /\ UNCHANGED <<cursor, inbox, pgot>>
    BY <1>0, <1>7 DEF Glob, PollTypeOK, cursorVars
  <2>2. pcur[p] = cursor[a] /\ pgot'[p] = <<>> /\ cursor[a] \in Cursors
    BY <1>0, <2>1 DEF ReadOK, Cur, CursorTypeOK
  <2>3. ASSUME NEW s \in FromCursor(pcur[p]), NEW t \in DOMAIN segs,
               t \notin FromCursor(pcur[p]), t < s, NEW m \in LinesOf(t)
        PROVE  Reached(m, cursor[a])
    <3>1. /\ s \in Nat /\ t \in Nat /\ s <= GlobLimit /\ GlobLimit \in Nat
          /\ \A u \in DOMAIN segs : u \in Nat
      BY <1>0, <2>3, LimitsAssumption DEF LogTypeOK, FromCursor, Visible
    <3>2. t \in Visible
      BY <2>3, <3>1 DEF Visible
    <3>3. cursor[a] # None /\ ~(t >= cursor[a].segment)
      BY <2>2, <2>3, <3>2 DEF FromCursor
    <3>4. cursor[a].segment \in DOMAIN segs /\ cursor[a].id \in LinesOf(cursor[a].segment)
      BY <1>0, <3>3 DEF ResolveInv, CursorResolves, Visible
    <3>5. t < cursor[a].segment
      BY <3>1, <3>3, <3>4
    <3>6. Before(m, cursor[a].id)
      BY <2>3, <3>4, <3>5 DEF Before, LinesOf
    <3> QED
      BY <3>3, <3>6 DEF Reached
  <2>4. InLine(pgot[p])' = {}
    BY <2>2 DEF InLine
  <2>5. \A m : Reached(m, cursor[a]) => Collected(m, p)'
    BY <1>1, <2>1 DEF Collected, Cur, Reached
  <2>6. ReadAll(p)'
    BY <1>0, <1>1, <2>1, <2>3, <2>4, <2>5 DEF ReadAll
  <2> QED
    BY <1>3, <2>1, <2>6
<1>8. CASE ReadSegment(p)
  <2>1. PICK s \in ptodo[p] :
          /\ \A t \in ptodo[p] : s <= t
          /\ IF Unparsable(s)
             THEN Leave(p)
             ELSE /\ pgot' = [pgot EXCEPT ![p] =
                                @ \o Kept(segs[s], pcur[p], pfound[p])]
                  /\ pfound' = [pfound EXCEPT ![p] =
                                  @ \/ pcur[p].id \in LinesOf(s)]
                  /\ ptodo' = [ptodo EXCEPT ![p] = @ \ {s}]
                  /\ UNCHANGED <<ppc, pcur>>
    BY <1>8 DEF ReadSegment
  <2>2. ppc[p] = "reading" /\ UNCHANGED <<cursor, inbox>>
    BY <1>8 DEF ReadSegment, cursorVars
  <2>3. CASE Leave(p)
    BY <1>3, <1>4, <2>2, <2>3
  <2>4. CASE ~Leave(p)
    <3> DEFINE old == pgot[p]
    <3>0. PICK new : new = Kept(segs[s], pcur[p], pfound[p])
      OBVIOUS
    <3>1. pgot'[p] = old \o new /\ ptodo'[p] = ptodo[p] \ {s} /\ ppc' = ppc
      BY <1>0, <2>1, <2>4, <3>0 DEF PollTypeOK
    <3>2. /\ new \in Seq(Messages) /\ old \in Seq(Messages)
          /\ \A m \in InLine(new) : m \in LinesOf(s)
          /\ \A m \in LinesOf(s) : Reached(m, Cur(p)) \/ m \in InLine(new)
      <4>1. old \in Seq(Messages)
        BY <1>0 DEF PollTypeOK
      <4> QED
        BY <1>0, <2>1, <2>2, <3>0, <4>1, KeptAll
    <3>3. \A m : m \in InLine(pgot[p])' <=> m \in InLine(old) \/ m \in InLine(new)
      <4> HIDE DEF old
      <4>1. InLine(pgot[p])' = InLine(old \o new)
        BY <3>1 DEF InLine
      <4> QED
        BY <3>2, <4>1, InLineJoined
    <3>4. \A m : Collected(m, p)' <=> Collected(m, p) \/ m \in InLine(new)
      <4>1. \A m : Reached(m, Cur(p))' <=> Reached(m, Cur(p))
        BY <1>1, <2>2 DEF Reached, Cur
      <4> QED
        BY <3>3, <4>1 DEF Collected
    <3>5. /\ s \in DOMAIN segs /\ ptodo[p] \subseteq DOMAIN segs
          /\ \A t \in DOMAIN segs : t \in Nat
      BY <1>0 DEF PollTypeOK, LogTypeOK
    <3>6. \A m \in LinesOf(s) : Collected(m, p)'
      BY <3>2, <3>4 DEF Collected
    <3>7. ASSUME NEW u \in ptodo'[p], NEW t \in DOMAIN segs, t \notin ptodo'[p], t < u,
                 NEW m \in LinesOf(t)
          PROVE  Collected(m, p)'
      <4>1. t = s \/ t \notin ptodo[p]
        BY <3>1, <3>7
      <4>2. t \notin ptodo[p] => Collected(m, p)
        BY <1>0, <2>2, <3>1, <3>7 DEF ReadAll
      <4> QED
        BY <3>4, <3>6, <3>7, <4>1, <4>2
    <3>8. ASSUME NEW n \in InLine(new), NEW m, Before(m, n) PROVE Collected(m, p)'
      <4>1. PICK t, u \in DOMAIN segs : \E i \in 1..Len(segs[t]), j \in 1..Len(segs[u]) :
                segs[t][i] = m /\ segs[u][j] = n /\ (t < u \/ (t = u /\ i < j))
        BY <3>8 DEF Before
      <4>2. m \in LinesOf(t) /\ n \in LinesOf(u) /\ n \in LinesOf(s) /\ t <= u
        BY <3>2, <3>5, <3>8, <4>1 DEF LinesOf
      <4>3. u = s
        BY <3>5, <4>2 DEF LinesOnce, LinesOf
      <4>4. CASE t = s
        BY <3>6, <4>2, <4>4
      <4>5. CASE t # s
        <5>1. t < s /\ t \notin ptodo[p]
          BY <2>1, <3>5, <4>2, <4>3, <4>5
        <5>2. Collected(m, p)
          BY <1>0, <2>2, <4>2, <5>1 DEF ReadAll
        <5> QED
          BY <3>4, <5>2
      <4> QED
        BY <4>4, <4>5
    <3>9. ASSUME NEW n \in InLine(old), NEW m, Before(m, n) PROVE Collected(m, p)'
      BY <1>0, <2>2, <3>4, <3>9 DEF ReadAll
    <3>10. \A m \in InLine(pgot[p])' : InLog(m)'
      BY <1>0, <1>1, <3>2, <3>3, <3>5 DEF ReadAll, InLog
    <3>11. ReadAll(p)'
      <4> HIDE DEF old
      <4> QED
        BY <1>0, <1>1, <2>2, <3>1, <3>3, <3>7, <3>8, <3>9, <3>10 DEF ReadAll
    <3> QED
      BY <1>3, <2>2, <3>11
  <2> QED
    BY <2>3, <2>4
<1>9. CASE ReturnEmpty(p)
  BY <1>3, <1>4, <1>9 DEF ReturnEmpty, cursorVars
<1>10. CASE Mark(p)
  <2>1. ppc[p] = "reading" /\ UNCHANGED <<cursor, inbox>>
    BY <1>10 DEF Mark, cursorVars
  <2>2. Leave(p) \/ (ppc'[p] = "marking" /\ pgot' = pgot)
    BY <1>0, <1>10 DEF Mark, PollTypeOK
  <2> QED
    BY <1>3, <1>4, <1>5, <2>1, <2>2
<1>11. CASE SaveBegin(p)
  <2>1. ppc[p] = "marking" /\ ppc'[p] = "saving" /\ UNCHANGED <<cursor, inbox, pgot>>
    BY <1>0, <1>11 DEF SaveBegin, PollTypeOK
  <2> QED
    BY <1>3, <1>5, <2>1
<1>12. CASE SaveEnd(p)
  <2>1. /\ ppc[p] = "saving" /\ ppc'[p] = "returning"
        /\ cursor'[a] = pcur[p] /\ UNCHANGED <<inbox, pgot>>
    BY <1>0, <1>12 DEF SaveEnd, PollTypeOK, CursorTypeOK
  <2>2. /\ pgot[p] \in Seq(Messages) /\ inbox[a] \in Seq(Messages) /\ pgot[p] # <<>>
        /\ pcur[p].id = LastGot(p) /\ Increasing(pgot[p]) /\ Increasing(inbox[a])
        /\ Cur(p) # None => \A m \in InLine(pgot[p]) : Before(Cur(p).id, m)
        /\ \A m \in InLine(inbox[a]) : Reached(m, Cur(p))
    BY <1>0, <2>1 DEF BatchOK, HandedAll, PollTypeOK, InboxOK, Cur
  <2>3. \A m \in InLine(inbox[a]), n \in InLine(pgot[p]) : Before(m, n)
    <3> SUFFICES ASSUME NEW m \in InLine(inbox[a]), NEW n \in InLine(pgot[p])
                 PROVE  Before(m, n)
      OBVIOUS
    <3>1. Before(Cur(p).id, n) /\ (m = Cur(p).id \/ Before(m, Cur(p).id))
      BY <2>2 DEF Reached
    <3> QED
      BY <1>0, <3>1, BeforeTransitive
  <2>4. Increasing(inbox[a] \o pgot[p])
    BY <2>2, <2>3, IncreasingJoined
  <2>5. Increasing(inbox[a] \o pgot[p])'
    BY <1>1, <2>1, <2>4 DEF Increasing
  <2>6. LastGot(p) \in InLine(pgot[p])
    BY <2>2 DEF LastGot, InLine
  <2>7. \A m : Reached(m, Cur(p)) => m \in InLine(inbox[a])
    <3>1. \A q \in Pollers : AgentOf[q] = a => ppc[q] # "returning"
      BY <1>2, <2>1
    <3> QED
      BY <1>0, <3>1 DEF HandedAll, Cur
  <2>8. ASSUME NEW m, Reached(m, pcur[p])
        PROVE  m \in InLine(inbox[a]) \/ m \in InLine(pgot[p])
    <3>1. m = LastGot(p) \/ Before(m, LastGot(p))
      BY <2>2, <2>8 DEF Reached
    <3>2. Before(m, LastGot(p)) => Collected(m, p)
      BY <1>0, <2>1, <2>6 DEF ReadAll
    <3> QED
      BY <2>6, <2>7, <3>1, <3>2 DEF Collected
  <2>9. \A m : Reached(m, Cur(p))' => Reached(m, pcur[p])
    BY <1>1, <2>1 DEF Reached, Cur
  <2>10. InLine(pgot[p])' = InLine(pgot[p]) /\ InLine(inbox[a])' = InLine(inbox[a])
    BY <2>1 DEF InLine
  <2>11. ReadAll(p)'
    BY <1>0, <1>1, <2>1, <2>2, <2>5, <2>8, <2>9, <2>10 DEF ReadAll
  <2>12. HandedAll(a)'
    <3>1. Increasing(inbox[a])'
      BY <1>1, <2>1, <2>2 DEF Increasing
    <3> QED
      BY <2>1, <3>1 DEF HandedAll
  <2> QED
    BY <2>11, <2>12
<1>13. CASE Return(p)
  <2>1. /\ ppc[p] = "returning" /\ Leave(p) /\ cursor' = cursor
        /\ inbox'[a] = inbox[a] \o pgot[p]
    BY <1>0, <1>13 DEF Return, cursorVars, PollTypeOK
  <2>2. /\ pgot[p] \in Seq(Messages) /\ inbox[a] \in Seq(Messages)
        /\ Increasing(inbox[a] \o pgot[p])
        /\ \A m : Reached(m, Cur(p)) => m \in InLine(inbox[a]) \/ m \in InLine(pgot[p])
    BY <1>0, <2>1 DEF ReadAll, PollTypeOK
  <2>3. Increasing(inbox[a])'
    BY <1>1, <2>1, <2>2 DEF Increasing
  <2>4. InLine(inbox[a])' = InLine(inbox[a] \o pgot[p])
    BY <2>1 DEF InLine
  <2>5. \A m : m \in InLine(inbox[a] \o pgot[p]) <=> m \in InLine(inbox[a]) \/ m \in InLine(pgot[p])
    BY <2>2, InLineJoined
  <2>6. \A m : Reached(m, cursor[a])' => Reached(m, Cur(p))
    BY <1>1, <2>1 DEF Reached, Cur
  <2>7. HandedAll(a)'
    BY <2>2, <2>3, <2>4, <2>5, <2>6 DEF HandedAll
  <2> QED
    BY <1>4, <2>1, <2>7
<1> QED
  BY <1>6, <1>7, <1>8, <1>9, <1>10, <1>11, <1>12, <1>13 DEF PollStep

StreamGapInv == EndInv /\ StreamInv /\ GapFree

LEMMA StreamGapInit == Init => StreamGapInv
<1> SUFFICES ASSUME Init PROVE StreamGapInv
  OBVIOUS
<1>1. EndInv
  <2>1. EndAt(0)
    BY LimitsAssumption DEF Init, EndAt
  <2> QED
    BY <2>1 DEF EndInv
<1>2. Stream = <<>>
  <2>1. segs = <<>>
    BY DEF Init
  <2> QED
    BY <2>1, FlattenEmpty DEF Stream
<1>3. StreamInv
  <2>1. \A m : ~InLog(m)
    BY DEF Init, InLog
  <2> QED
    BY <1>2, <2>1 DEF StreamInv, Increasing, InLine
<1>4. GapFree
  BY AgentsAssumption DEF Init, GapFree, HandedAll, ReadAll, Increasing, InLine, Reached
<1> QED
  BY <1>1, <1>3, <1>4 DEF StreamGapInv

LEMMA StreamGapStep ==
    ASSUME Undisturbed, OneWriter, Inv, Inv', StreamGapInv, [Next]_vars
    PROVE  StreamGapInv'
<1> USE DEF Inv, StreamGapInv
<1>1. /\ LogInv /\ LogInv' /\ AckInv /\ AckInv' /\ LinesOnce /\ LinesOnce' /\ ResolveInv
      /\ PollInv /\ EndInv /\ StreamInv /\ GapFree
  OBVIOUS
<1>2. Grows /\ AtEnd
  BY <1>1, GrowStep, AtEndStep DEF Undisturbed
<1>3. EndInv' /\ StreamInv'
  BY <1>1, <1>2, EndStep, StreamInvStep
<1>4. LogTypeOK /\ PollTypeOK /\ TypeOK /\ \A p \in Pollers : AgentOf[p] \in Agents
  BY <1>1, AgentsAssumption DEF LogInv, TypeOK
<1>5. ASSUME UNCHANGED <<cursorVars, pollVars>> PROVE GapFree'
  <2>1. ASSUME NEW a \in Agents PROVE HandedAll(a)'
    <3>1. cursor'[a] = cursor[a] /\ inbox'[a] = inbox[a] /\ ppc' = ppc /\ HandedAll(a)
      BY <1>1, <1>5 DEF cursorVars, pollVars, GapFree
    <3> QED
      BY <1>1, <1>2, <3>1, HandedKept
  <2>2. ASSUME NEW p \in Pollers PROVE ReadAll(p)'
    <3>1. /\ ppc' = ppc /\ ptodo' = ptodo /\ pgot' = pgot /\ cursor' = cursor /\ inbox' = inbox
          /\ ptodo[p] \subseteq DOMAIN segs /\ ReadAll(p)
      BY <1>1, <1>4, <1>5 DEF cursorVars, pollVars, GapFree, PollTypeOK
    <3> QED
      BY <1>1, <1>2, <1>4, <3>1, ReadKept
  <2> QED
    BY <2>1, <2>2 DEF GapFree
<1>6. ASSUME NEW p \in Pollers, PollStep(p) PROVE GapFree'
  <2>1. Own(p)
    BY <1>4, <1>6, OwnFrame
  <2>2. HandedAll(AgentOf[p])' /\ ReadAll(p)'
    BY <1>1, <1>2, <1>6, GapOwn
  <2>3. ASSUME NEW a \in Agents, a # AgentOf[p] PROVE HandedAll(a)'
    <3>1. /\ cursor'[a] = cursor[a] /\ inbox'[a] = inbox[a] /\ HandedAll(a)
          /\ \A q \in Pollers : AgentOf[q] = a => ppc'[q] = ppc[q]
      BY <1>1, <2>1, <2>3 DEF Own, GapFree
    <3> QED
      BY <1>1, <1>2, <3>1, HandedKept
  <2>4. ASSUME NEW q \in Pollers, q # p PROVE ReadAll(q)'
    <3>1. AgentOf[q] \in Agents \ {AgentOf[p]}
      BY <1>4, <2>4 DEF Undisturbed
    <3>2. /\ ppc'[q] = ppc[q] /\ ptodo'[q] = ptodo[q] /\ pgot'[q] = pgot[q]
          /\ cursor'[AgentOf[q]] = cursor[AgentOf[q]] /\ inbox'[AgentOf[q]] = inbox[AgentOf[q]]
          /\ ptodo[q] \subseteq DOMAIN segs /\ ReadAll(q)
      BY <1>1, <1>4, <2>1, <2>4, <3>1 DEF Own, GapFree, PollTypeOK
    <3> QED
      BY <1>1, <1>2, <1>4, <3>2, ReadKept
  <2> QED
    BY <2>2, <2>3, <2>4 DEF GapFree
<1>7. ASSUME NEW w \in Writers, WriterStep(w) \/ CrashWriter(w) \/ TearWrite(w)
      PROVE  UNCHANGED <<cursorVars, pollVars>>
  BY <1>7 DEF WriterStep, Locate, Choose, Write, Ack, CrashWriter, TearWrite
<1>8. \A p \in Pollers : ~CrashPoller(p)
  BY <1>4 DEF CrashPoller, Undisturbed, TypeOK
<1>9. \A a \in Agents : ~SaveElsewhereBegin(a) /\ ~SaveElsewhereEnd(a)
  BY <1>1, ValuesAssumption DEF SaveElsewhereBegin, SaveElsewhereEnd, Undisturbed, PollInv, LockOK
<1>10. UNCHANGED vars => UNCHANGED <<cursorVars, pollVars>>
  BY DEF vars
<1>11. GapFree'
  BY <1>5, <1>6, <1>7, <1>8, <1>9, <1>10 DEF Next
<1> QED
  BY <1>3, <1>11

LEMMA StreamGapInvariant ==
    ASSUME Undisturbed, OneWriter PROVE Spec => [](Inv /\ StreamGapInv)
<1>1. Inv /\ StreamGapInv /\ [Next]_vars => (Inv /\ StreamGapInv)'
  BY InvStep, StreamGapStep
<1>2. Init => Inv /\ StreamGapInv
  BY InvInit, StreamGapInit
<1> QED
  BY <1>1, <1>2, PTL DEF Spec

\* Without crashes, with one writer and one poller for each agent, whatever the
\* saved cursor has passed was handed to the agent or is about to be.
THEOREM NothingSkipped == ASSUME Undisturbed, OneWriter PROVE Spec => []NoSkip
<1>1. ASSUME Inv, StreamGapInv PROVE NoSkip
  <2> SUFFICES ASSUME NEW a \in Agents, cursor[a] # None, NEW m \in UpTo(cursor[a])
               PROVE  \/ m \in InLine(inbox[a])
                      \/ \E p \in Pollers : /\ AgentOf[p] = a /\ ppc[p] = "returning"
                                            /\ m \in InLine(pgot[p])
    BY DEF NoSkip
  <2>1. cursor[a] \in CursorRec /\ Resolves(cursor[a])
    BY <1>1 DEF Inv, LogInv, TypeOK, CursorTypeOK, ResolveInv, CursorResolves, Resolves
  <2>2. Reached(m, cursor[a])
    BY <1>1, <2>1, UpToReached DEF Inv, LogInv, TypeOK, Reached
  <2>3. HandedAll(a) /\ \A p \in Pollers : ReadAll(p)
    BY <1>1 DEF StreamGapInv, GapFree
  <2>4. CASE \A p \in Pollers : AgentOf[p] = a => ppc[p] # "returning"
    BY <2>2, <2>3, <2>4 DEF HandedAll
  <2>5. ASSUME NEW p \in Pollers, AgentOf[p] = a, ppc[p] = "returning"
        PROVE  m \in InLine(inbox[a]) \/ m \in InLine(pgot[p])
    BY <2>2, <2>3, <2>5 DEF ReadAll, Cur
  <2> QED
    BY <2>4, <2>5
<1> QED
  BY <1>1, StreamGapInvariant, PTL

-----------------------------------------------------------------------------
(* One writer: the room is the stream RoomStream promises.                 *)

\* A sequence in the order of the log that leaves nothing out is a beginning of
\* the stream.
LEMMA Beginning ==
    ASSUME LogTypeOK, LinesOnce, StreamInv, NEW q \in Seq(Messages), Increasing(q),
           \A m \in InLine(q) : InLog(m),
           \A n \in InLine(q) : \A m : Before(m, n) => m \in InLine(q)
    PROVE  Len(q) <= Len(Stream) /\ q = SubSeq(Stream, 1, Len(q))
<1>0. /\ Stream \in Seq(Messages) /\ Len(Stream) \in Nat /\ Len(q) \in Nat
      /\ Increasing(Stream) /\ \A m : m \in InLine(Stream) <=> InLog(m)
  BY DEF StreamInv
<1>1. ASSUME NEW i \in 1..Len(q) PROVE i <= Len(Stream) /\ Stream[i] = q[i]
  <2> DEFINE Odd == {k \in 1..Len(q) : ~(k <= Len(Stream) /\ Stream[k] = q[k])}
  <2> SUFFICES ASSUME Odd # {} PROVE FALSE
    OBVIOUS
  <2>1. PICK k \in Odd : \A l \in Odd : k <= l
    <3>1. Odd \in SUBSET Nat
      BY <1>0
    <3> HIDE DEF Odd
    <3> QED
      BY <3>1, Least
  <2>2. k \in 1..Len(q) /\ ~(k <= Len(Stream) /\ Stream[k] = q[k])
    BY <2>1
  <2>3. \A l \in 1..Len(q) : l < k => l <= Len(Stream) /\ Stream[l] = q[l]
    BY <1>0, <2>1
  <2> HIDE DEF Odd
  <2>4. PICK j \in 1..Len(Stream) : Stream[j] = q[k]
    BY <1>0, <2>2 DEF InLine
  <2>5. \A x, y : ~(Before(x, y) /\ Before(y, x))
    BY BeforeTransitive, BeforeIrreflexive
  <2>6. \A l \in 1..Len(q) : l < k => Before(q[l], q[k])
    BY <2>2 DEF Increasing
  <2>7. \A l \in 1..Len(q) : k < l => Before(q[k], q[l])
    BY <2>2 DEF Increasing
  <2>8. CASE j < k
    <3>1. j \in 1..Len(q) /\ q[j] = q[k]
      BY <1>0, <2>2, <2>3, <2>4, <2>8
    <3> QED
      BY <2>5, <2>6, <2>8, <3>1
  <2>9. CASE j = k
    BY <1>0, <2>2, <2>4, <2>9
  <2>10. CASE k < j
    <3>1. k \in 1..Len(Stream)
      BY <1>0, <2>2, <2>4, <2>10
    <3>2. Before(Stream[k], q[k])
      BY <1>0, <2>4, <2>10, <3>1 DEF Increasing
    <3>3. PICK l \in 1..Len(q) : q[l] = Stream[k]
      BY <2>2, <3>2 DEF InLine
    <3>4. l < k \/ l = k \/ k < l
      BY <1>0, <2>2
    <3>5. ~(l = k)
      BY <2>2, <3>1, <3>3
    <3>6. ~(k < l)
      BY <2>5, <2>7, <3>2, <3>3
    <3>7. l < k => l \in 1..Len(Stream) /\ Stream[l] = Stream[k]
      BY <1>0, <2>3, <3>3
    <3>8. l < k => Before(Stream[l], Stream[k])
      BY <1>0, <3>1, <3>7 DEF Increasing
    <3> QED
      BY <2>5, <3>4, <3>5, <3>6, <3>7, <3>8
  <2> QED
    BY <1>0, <2>2, <2>4, <2>8, <2>9, <2>10
<1>2. Len(q) <= Len(Stream)
  BY <1>0, <1>1
<1>3. /\ SubSeq(Stream, 1, Len(q)) \in Seq(Messages)
      /\ Len(SubSeq(Stream, 1, Len(q))) = Len(q)
      /\ \A i \in 1..Len(q) : SubSeq(Stream, 1, Len(q))[i] = Stream[i]
  BY <1>0, <1>2
<1> QED
  BY <1>0, <1>1, <1>2, <1>3

LEMMA StreamRefines ==
    ASSUME Undisturbed, OneWriter, Inv, Inv', StreamGapInv, StreamGapInv', [Next]_vars
    PROVE  [Room!Next]_(Room!vars)
<1>1. /\ LogInv /\ LogInv' /\ AckInv /\ AckInv' /\ LinesOnce /\ EndInv /\ StreamInv
      /\ PollInv /\ TypeOK /\ PollTypeOK
  BY DEF Inv, StreamGapInv, LogInv, TypeOK
<1>2. \A w \in Writers : Write(w) => Stream' = Append(Stream, wmsg[w])
  BY <1>1, StreamStep
<1>3. (\A w \in Writers : ~Write(w)) => Stream' = Stream
  BY <1>1, StreamStep
<1>4. ASSUME NEW w \in Writers, Write(w) PROVE Room!Next
  <2>1. wmsg[w] \in Messages /\ ~InLog(wmsg[w])
    BY <1>1, <1>4, WriteEffect DEF LinesOnce, Pending, Write, InLog
  <2>2. \A i \in 1..Len(Stream) : Stream[i] # wmsg[w]
    BY <1>1, <2>1 DEF StreamInv, InLine
  <2>3. inbox' = inbox
    BY <1>4 DEF Write, pollVars
  <2>4. Room!Post(wmsg[w])
    BY <1>2, <1>4, <2>2, <2>3 DEF Room!Post
  <2> QED
    BY <2>1, <2>4 DEF Room!Next
<1>5. ASSUME NEW p \in Pollers, Return(p) PROVE Room!Next
  <2> DEFINE a == AgentOf[p]
  <2>1. segs' = segs /\ ppc[p] = "returning" /\ pgot[p] # <<>> /\ a \in Agents
    BY <1>5, AgentsAssumption DEF Return, logVars, StreamGapInv, GapFree, ReadAll
  <2>2. Stream' = Stream
    BY <2>1 DEF Stream
  <2>3. PICK q : q = inbox[a] \o pgot[p]
    OBVIOUS
  <2>4. /\ inbox[a] \in Seq(Messages) /\ pgot[p] \in Seq(Messages)
        /\ Len(inbox[a]) \in Nat /\ Len(pgot[p]) \in Nat \ {0}
    BY <1>1, <2>1 DEF PollTypeOK
  <2>5. q \in Seq(Messages) /\ Len(q) = Len(inbox[a]) + Len(pgot[p])
    BY <2>3, <2>4
  <2>6. inbox' = [inbox EXCEPT ![a] = q]
    BY <1>5, <2>3 DEF Return
  <2>7. /\ Increasing(q)
        /\ \A m \in InLine(q) : Reached(m, cursor[a])
        /\ \A m : Reached(m, cursor[a]) => m \in InLine(q)
    <3>1. \A m : m \in InLine(q) <=> m \in InLine(inbox[a]) \/ m \in InLine(pgot[p])
      BY <2>3, <2>4, InLineJoined
    <3>2. /\ Increasing(q)
          /\ \A m : Reached(m, cursor[a]) => m \in InLine(inbox[a]) \/ m \in InLine(pgot[p])
      BY <2>1, <2>3 DEF StreamGapInv, GapFree, ReadAll, Cur
    <3>3. /\ \A m \in InLine(inbox[a]) : Reached(m, cursor[a])
          /\ \A m \in InLine(pgot[p]) : Reached(m, cursor[a])
      BY <1>1, <2>1 DEF PollInv, InboxOK, BatchOK, Cur
    <3> QED
      BY <3>1, <3>2, <3>3
  <2>8. \A m \in InLine(q) : InLog(m)
    <3> SUFFICES ASSUME NEW m \in InLine(q) PROVE InLog(m)
      OBVIOUS
    <3>1. cursor[a] # None /\ (m = cursor[a].id \/ Before(m, cursor[a].id))
      BY <2>7 DEF Reached
    <3>2. InLog(cursor[a].id)
      BY <2>1, <3>1 DEF Inv, ResolveInv, CursorResolves, InLog, Visible
    <3>3. Before(m, cursor[a].id) => InLog(m)
      BY DEF Before, InLog, LinesOf
    <3> QED
      BY <3>1, <3>2, <3>3
  <2>9. ASSUME NEW n \in InLine(q), NEW m, Before(m, n) PROVE m \in InLine(q)
    <3>1. cursor[a] # None /\ (n = cursor[a].id \/ Before(n, cursor[a].id))
      BY <2>7 DEF Reached
    <3>2. Before(m, cursor[a].id)
      BY <1>1, <2>9, <3>1, BeforeTransitive DEF TypeOK
    <3> QED
      BY <2>7, <3>1, <3>2 DEF Reached
  <2>10. Len(q) <= Len(Stream) /\ q = SubSeq(Stream, 1, Len(q))
    BY <1>1, <2>5, <2>7, <2>8, <2>9, Beginning DEF TypeOK
  <2>11. Len(Stream) \in Nat
    BY <1>1 DEF StreamInv
  <2>12. Len(q) \in (Len(inbox[a]) + 1)..Len(Stream)
    <3>1. Len(q) <= Len(Stream) /\ Len(q) = Len(inbox[a]) + Len(pgot[p])
      BY <2>5, <2>10
    <3>2. \A x, z \in Nat, y \in Nat \ {0} : x + y <= z => x + y \in (x + 1)..z
      OBVIOUS
    <3> QED
      BY ONLY <2>4, <2>11, <3>1, <3>2
  <2>13. Room!Poll(a)
    BY <2>2, <2>6, <2>10, <2>12 DEF Room!Poll
  <2> QED
    BY <2>1, <2>13 DEF Room!Next
<1>6. ASSUME \A w \in Writers : ~Write(w), \A p \in Pollers : ~Return(p)
      PROVE  UNCHANGED Room!vars
  <2>1. inbox' = inbox
    BY <1>6 DEF Next, WriterStep, Locate, Choose, Ack, CrashWriter, TearWrite, PollStep,
              LoadCursor, Glob, ReadSegment, ReturnEmpty, Mark, SaveBegin, SaveEnd,
              CrashPoller, SaveElsewhereBegin, SaveElsewhereEnd, vars, pollVars
  <2> QED
    BY <1>3, <1>6, <2>1 DEF Room!vars
<1> QED
  BY <1>4, <1>5, <1>6

\* Without crashes, with one writer and one poller for each agent, the segment
\* files and cursors implement the stream that RoomStream promises: posts append
\* to it, and a poll hands its agent exactly the messages that come next.
THEOREM ImplementsRoom == ASSUME Undisturbed, OneWriter PROVE Spec => ImplementsStream
<1>1. Init => Room!Init
  <2> SUFFICES ASSUME Init PROVE Room!Init
    OBVIOUS
  <2>1. segs = <<>>
    BY DEF Init
  <2>2. Stream = <<>>
    BY <2>1, FlattenEmpty DEF Stream
  <2> QED
    BY <2>2 DEF Init, Room!Init
<1>2. /\ Inv /\ StreamGapInv /\ (Inv /\ StreamGapInv)' /\ [Next]_vars
      => [Room!Next]_(Room!vars)
  BY StreamRefines
<1> QED
  BY <1>1, <1>2, StreamGapInvariant, PTL DEF Spec, ImplementsStream, Room!Spec
-----------------------------------------------------------------------------
(* What a poll has collected can be found again.                           *)

\* A line of a segment the glob lists.
Listed(m) == \E s \in Visible : m \in LinesOf(s)

\* A poll reads listed segments, and collects lines of them.
ListedInv ==
    \A p \in Pollers : ptodo[p] \subseteq Visible /\ \A m \in InLine(pgot[p]) : Listed(m)

LEMMA ListedStep ==
    ASSUME LogInv, ListedInv, [Next]_vars
    PROVE  ListedInv'
<1>1. LogTypeOK /\ PollTypeOK /\ PollTypeOK'
  BY TypeStep DEF LogInv, TypeOK
<1>2. \A s : s \in Visible => s \in Visible'
  BY LinesGrow DEF Visible
<1>3. ASSUME NEW m \in Messages, Listed(m) PROVE Listed(m)'
  BY <1>2, <1>3, LinesGrow DEF Listed, Visible
<1>4. ASSUME NEW p \in Pollers, ptodo'[p] \subseteq ptodo[p],
             InLine(pgot'[p]) \subseteq InLine(pgot[p])
      PROVE  (ptodo[p] \subseteq Visible /\ \A m \in InLine(pgot[p]) : Listed(m))'
  <2>1. \A m \in InLine(pgot[p]) : m \in Messages /\ Listed(m)
    BY <1>1 DEF PollTypeOK, ListedInv, InLine
  <2>2. \A m \in InLine(pgot'[p]) : Listed(m)'
    BY <1>3, <1>4, <2>1
  <2>3. ptodo'[p] \subseteq Visible'
    BY <1>2, <1>4 DEF ListedInv
  <2> QED
    BY <2>2, <2>3 DEF InLine
<1>5. ASSUME UNCHANGED <<ptodo, pgot>> PROVE ListedInv'
  BY <1>4, <1>5 DEF ListedInv
<1>6. ASSUME NEW p \in Pollers, Leave(p) PROVE ListedInv'
  <2>1. ptodo'[p] = {} /\ pgot'[p] = <<>>
    BY <1>1, <1>6 DEF Leave, PollTypeOK
  <2>2. InLine(pgot'[p]) = {}
    BY <2>1 DEF InLine
  <2>3. \A r \in Pollers \ {p} : ptodo'[r] = ptodo[r] /\ pgot'[r] = pgot[r]
    BY <1>1, <1>6 DEF Leave, PollTypeOK
  <2>4. ASSUME NEW r \in Pollers
        PROVE  ptodo'[r] \subseteq ptodo[r] /\ InLine(pgot'[r]) \subseteq InLine(pgot[r])
    BY <2>1, <2>2, <2>3
  <2> QED
    BY <1>4, <2>4 DEF ListedInv
<1>7. ASSUME NEW p \in Pollers, Glob(p) PROVE ListedInv'
  <2>1. /\ ptodo'[p] = FromCursor(pcur[p]) /\ pgot' = pgot /\ segs' = segs
        /\ \A r \in Pollers \ {p} : ptodo'[r] = ptodo[r]
    BY <1>1, <1>7 DEF Glob, PollTypeOK, logVars
  <2>2. ptodo'[p] \subseteq Visible'
    BY <2>1 DEF FromCursor, Visible
  <2>3. \A r \in Pollers : \A m \in InLine(pgot[r]) : Listed(m)'
    BY <2>1 DEF ListedInv, Listed, Visible, LinesOf
  <2>4. \A r \in Pollers \ {p} : ptodo'[r] \subseteq Visible'
    BY <1>2, <2>1 DEF ListedInv
  <2>5. \A r \in Pollers : \A m \in InLine(pgot[r])' : Listed(m)'
    BY <2>1, <2>3 DEF InLine
  <2> QED
    BY <2>2, <2>4, <2>5 DEF ListedInv
<1>8. ASSUME NEW p \in Pollers, ReadSegment(p) PROVE ListedInv'
  <2>1. PICK s \in ptodo[p] :
          IF Unparsable(s)
          THEN Leave(p)
          ELSE /\ pgot' = [pgot EXCEPT ![p] = @ \o Kept(segs[s], pcur[p], pfound[p])]
               /\ ptodo' = [ptodo EXCEPT ![p] = @ \ {s}]
    BY <1>8 DEF ReadSegment
  <2>2. CASE Unparsable(s)
    BY <1>6, <2>1, <2>2
  <2>3. CASE ~Unparsable(s)
    <3>1. PICK new : new = Kept(segs[s], pcur[p], pfound[p])
      OBVIOUS
    <3>2. s \in Visible /\ s \in DOMAIN segs
      BY DEF ListedInv, Visible
    <3>3. segs[s] \in Seq(Messages) /\ pfound[p] \in BOOLEAN /\ pgot[p] \in Seq(Messages)
      BY <1>1, <2>3, <3>2, ParsableMessages DEF PollTypeOK
    <3>4. new \in Seq(Messages) /\ InLine(new) \subseteq LinesOf(s)
      <4>1. InLine(segs[s]) = LinesOf(s)
        BY DEF InLine, LinesOf
      <4>2. PICK q \in Seq(Messages) : q = segs[s]
        BY <3>3
      <4>3. new \in Seq(Messages) /\ InLine(new) \subseteq InLine(q)
        BY <3>1, <3>3, <4>2, KeptMessages
      <4> QED
        BY <4>1, <4>2, <4>3
    <3>5. /\ pgot'[p] = pgot[p] \o new /\ ptodo'[p] \subseteq ptodo[p]
          /\ \A r \in Pollers \ {p} : ptodo'[r] = ptodo[r] /\ pgot'[r] = pgot[r]
      BY <1>1, <2>1, <2>3, <3>1 DEF PollTypeOK
    <3>6. \A m : m \in InLine(pgot[p] \o new) <=> m \in InLine(pgot[p]) \/ m \in InLine(new)
      BY <3>3, <3>4, InLineJoined
    <3>7. segs' = segs
      BY <1>8 DEF ReadSegment, logVars
    <3>8. ASSUME NEW m, Listed(m) PROVE Listed(m)'
      BY <3>7, <3>8 DEF Listed, Visible, LinesOf
    <3>9. \A m \in InLine(pgot[p] \o new) : Listed(m)
      BY <3>2, <3>4, <3>6 DEF ListedInv, Listed
    <3>10. \A m \in InLine(pgot'[p]) : Listed(m)'
      BY <3>5, <3>8, <3>9
    <3>11. ptodo'[p] \subseteq Visible'
      BY <1>2, <3>5 DEF ListedInv
    <3>12. (ptodo[p] \subseteq Visible /\ \A m \in InLine(pgot[p]) : Listed(m))'
      BY <3>10, <3>11 DEF InLine
    <3>13. \A r \in Pollers \ {p} :
              (ptodo[r] \subseteq Visible /\ \A m \in InLine(pgot[r]) : Listed(m))'
      BY <1>4, <3>5
    <3> QED
      BY <3>12, <3>13 DEF ListedInv
  <2> QED
    BY <2>2, <2>3
<1>9. ASSUME NEW p \in Pollers, Mark(p) PROVE ListedInv'
  <2>1. Leave(p) \/ UNCHANGED <<ptodo, pgot>>
    BY <1>9 DEF Mark
  <2> QED
    BY <1>5, <1>6, <2>1
<1>10. ASSUME NEW p \in Pollers,
              LoadCursor(p) \/ SaveBegin(p) \/ SaveEnd(p)
       PROVE  UNCHANGED <<ptodo, pgot>>
  BY <1>10 DEF LoadCursor, SaveBegin, SaveEnd
<1>11. ASSUME NEW p \in Pollers, ReturnEmpty(p) \/ Return(p) \/ CrashPoller(p)
       PROVE  Leave(p)
  BY <1>11 DEF ReturnEmpty, Return, CrashPoller
<1>12. ASSUME NEW p \in Pollers, PollStep(p) \/ CrashPoller(p) PROVE ListedInv'
  BY <1>5, <1>6, <1>7, <1>8, <1>9, <1>10, <1>11, <1>12 DEF PollStep
<1>13. ASSUME NEW w \in Writers, WriterStep(w) \/ CrashWriter(w) \/ TearWrite(w)
       PROVE  UNCHANGED <<ptodo, pgot>>
  BY <1>13 DEF WriterStep, Locate, Choose, Write, Ack, CrashWriter, TearWrite, pollVars
<1>14. ASSUME NEW a \in Agents, SaveElsewhereBegin(a) \/ SaveElsewhereEnd(a)
       PROVE  UNCHANGED <<ptodo, pgot>>
  BY <1>14 DEF SaveElsewhereBegin, SaveElsewhereEnd, pollVars
<1>15. CASE UNCHANGED vars
  BY <1>5, <1>15 DEF vars, pollVars
<1> QED
  BY <1>5, <1>12, <1>13, <1>14, <1>15 DEF Next

\* A poll that collected messages finds the segment of the last of them:
\* _segment_for_message never raises its ValueError, whatever writers do
\* between the two scans, and whoever crashes or leaves a line cut short.
LastIsFound ==
    \A p \in Pollers :
        ppc[p] = "reading" /\ ptodo[p] = {} /\ pgot[p] # <<>> =>
            \E s \in Visible : IsSegmentOf(LastGot(p), s)

THEOREM Found == Spec => []LastIsFound
<1>1. Init => ListedInv
  BY DEF Init, ListedInv, InLine
<1>2. LogInv /\ ListedInv /\ [Next]_vars => ListedInv'
  BY ListedStep
<1>3. ASSUME LogInv, ListedInv PROVE LastIsFound
  <2> SUFFICES ASSUME NEW p \in Pollers, pgot[p] # <<>>
               PROVE  \E s \in Visible : IsSegmentOf(LastGot(p), s)
    BY DEF LastIsFound
  <2>1. LogTypeOK /\ pgot[p] \in Seq(Messages)
    BY <1>3 DEF LogInv, TypeOK, PollTypeOK
  <2>2. LastGot(p) \in InLine(pgot[p])
    BY <2>1 DEF LastGot, InLine
  <2> DEFINE Holding == {s \in Visible : LastGot(p) \in LinesOf(s)}
  <2>3. Holding # {} /\ Holding \in SUBSET Nat
    BY <1>3, <2>1, <2>2 DEF ListedInv, Listed, LogTypeOK, Visible
  <2>4. PICK s \in Holding : \A t \in Holding : s <= t
    <3> HIDE DEF Holding
    <3> QED
      BY <2>3, Least
  <2>5. s \in Visible /\ IsSegmentOf(LastGot(p), s)
    BY <2>4 DEF IsSegmentOf
  <2> QED
    BY <2>5
<1> QED
  BY <1>1, <1>2, <1>3, LogInvariant, PTL DEF Spec
=============================================================================
