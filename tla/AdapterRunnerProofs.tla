------------------------- MODULE AdapterRunnerProofs --------------------------
(***************************************************************************)
(* Safety of the adapter runner, for any agents, restarts and crashes.     *)
(***************************************************************************)
EXTENDS AdapterRunner, FiniteSetTheorems, TLAPS

Entries == [type : {"created", "joined", "text", "archived"},
            from : Runners \cup {Client}, answers : SUBSET Nat]

InLoop == {"polling", "processing", "answering", "posting"}

\* The log is a sequence of records, of which the client's answer nothing; only
\* a batch that was read is at hand.
LogOK ==
    /\ log \in Seq(Entries)
    /\ \A i \in 1..Len(log) : log[i].from = Client => log[i].answers = {}
    /\ batch \in [Runners -> SUBSET Nat]
    /\ \A a \in Runners : pc[a] \notin {"processing", "answering", "posting"} => batch[a] = {}

\* An agent answered a record as often as it went over it: once if the cursor is
\* past it, and once for each reset, but for the time it has it at hand.
Due(a, k) ==
    resets[a] + (IF k <= cursor[a] THEN 1 ELSE 0) - (IF k \in batch[a] THEN 1 ELSE 0)

Counted ==
    \A a \in Runners, k \in Nat \ {0} : Cardinality(AnswersTo(a, k)) <= Due(a, k)

Joined(a) == \E j \in 1..Len(log) : log[j] = Record("joined", a, {})

\* An agent in its loop, or with the room in its presence file, has joined, but
\* for one whose join ended before it was said.
JoinsKnown ==
    \A a \in Runners \ unsaid :
        pc[a] \in InLoop \/ (a \in member /\ pc[a] # "announce") => Joined(a)

Order == JoinsKnown /\ JoinedFirst

IInv == TypeOK /\ LogOK /\ Counted /\ Order

-----------------------------------------------------------------------------
LEMMA InvInit == Init => IInv
<1> SUFFICES ASSUME Init PROVE IInv
  OBVIOUS
<1> USE RunnersAssumption, LimitsAssumption DEF Init, Record
<1>1. TypeOK
  BY DEF TypeOK
<1>2. LogOK
  BY DEF LogOK, Entries
<1>3. Counted
  <2> SUFFICES ASSUME NEW a \in Runners, NEW k \in Nat \ {0}
               PROVE  Cardinality(AnswersTo(a, k)) <= Due(a, k)
    BY DEF Counted
  <2>1. AnswersTo(a, k) = {}
    BY DEF AnswersTo
  <2>2. Due(a, k) = 0
    BY DEF Due
  <2> QED
    BY <2>1, <2>2, FS_EmptySet
<1>4. Order
  BY DEF Order, JoinsKnown, JoinedFirst, InLoop
<1> QED
  BY <1>1, <1>2, <1>3, <1>4 DEF IInv

\* What an append does to the log.
LEMMA Appended ==
    ASSUME IInv, NEW r \in Entries, log' = Append(log, r)
    PROVE  /\ log' \in Seq(Entries) /\ Len(log) \in Nat /\ Len(log') = Len(log) + 1
           /\ \A i \in 1..Len(log') :
                 (i \in 1..Len(log) /\ log'[i] = log[i]) \/ (i = Len(log) + 1 /\ log'[i] = r)
<1>1. log \in Seq(Entries)
  BY DEF IInv, LogOK
<1>2. log' \in Seq(Entries) /\ Len(log) \in Nat /\ Len(log') = Len(log) + 1
  BY <1>1
<1>3. \A i \in 1..Len(log) : log'[i] = log[i]
  BY <1>1
<1>4. log'[Len(log) + 1] = r
  BY <1>1
<1>5. \A i \in 1..Len(log') : i \in 1..Len(log) \/ i = Len(log) + 1
  BY <1>2
<1> QED
  BY <1>2, <1>3, <1>4, <1>5

\* An entry that answers what is there keeps the log well typed.
LEMMA EntryTypes ==
    ASSUME IInv, NEW r \in Entries, log' = Append(log, r), r.answers \subseteq 1..Len(log)
    PROVE  \A i \in 1..Len(log') :
              /\ log'[i].type \in {"created", "joined", "text", "archived"}
              /\ log'[i].from \in Runners \cup {Client}
              /\ log'[i].answers \subseteq 1..(i - 1)
<1> SUFFICES ASSUME NEW i \in 1..Len(log')
             PROVE  /\ log'[i].type \in {"created", "joined", "text", "archived"}
                    /\ log'[i].from \in Runners \cup {Client}
                    /\ log'[i].answers \subseteq 1..(i - 1)
  OBVIOUS
<1>1. CASE i \in 1..Len(log) /\ log'[i] = log[i]
  BY <1>1 DEF IInv, TypeOK
<1>2. CASE i = Len(log) + 1 /\ log'[i] = r
  <2>1. i - 1 = Len(log)
    BY <1>2, Appended
  <2> QED
    BY <1>2, <2>1 DEF Entries
<1> QED
  BY <1>1, <1>2, Appended

\* If an answer was appended, its agent had joined.
LEMMA OrderKept ==
    ASSUME IInv, NEW r \in Entries, log' = Append(log, r), unsaid' = unsaid,
           r.type = "text" /\ r.from \in Runners \ unsaid => Joined(r.from)
    PROVE  JoinedFirst'
<1> SUFFICES ASSUME NEW i \in 1..Len(log'),
                    log'[i].type = "text", log'[i].from \in Runners \ unsaid
             PROVE  \E j \in 1..(i - 1) : log'[j] = Record("joined", log'[i].from, {})
  BY DEF JoinedFirst
<1>1. CASE i \in 1..Len(log)
  <2>1. log'[i] = log[i] /\ Len(log) \in Nat
    BY <1>1, Appended
  <2>2. PICK j \in 1..(i - 1) : log[j] = Record("joined", log[i].from, {})
    BY <1>1, <2>1 DEF IInv, Order, JoinedFirst
  <2>3. log'[j] = log[j]
    BY <1>1, <2>1, Appended
  <2> QED
    BY <2>1, <2>2, <2>3
<1>2. CASE i = Len(log) + 1
  <2>1. log'[i] = r /\ Len(log) \in Nat
    BY <1>2, Appended
  <2>2. PICK j \in 1..Len(log) : log[j] = Record("joined", r.from, {})
    BY <2>1 DEF Joined
  <2>3. log'[j] = log[j] /\ j \in 1..(i - 1)
    BY <1>2, <2>1, Appended
  <2> QED
    BY <2>1, <2>2, <2>3
<1> QED
  BY <1>1, <1>2, Appended

LEMMA Numbers ==
    ASSUME IInv, NEW a \in Runners
    PROVE  Len(log) \in Nat /\ cursor[a] \in 0..Len(log) /\ cursor[a] \in Nat /\ resets[a] \in Nat
<1>1. Len(log) \in Nat
  BY DEF IInv, LogOK
<1> QED
  BY <1>1 DEF IInv, TypeOK

LEMMA FiniteAnswers ==
    ASSUME IInv, NEW a, NEW k
    PROVE  IsFiniteSet(AnswersTo(a, k)) /\ Cardinality(AnswersTo(a, k)) \in Nat
<1>1. Len(log) \in Nat
  BY DEF IInv, LogOK
<1>2. IsFiniteSet(1..Len(log))
  BY <1>1, FS_Interval
<1>3. AnswersTo(a, k) \subseteq 1..Len(log)
  BY DEF AnswersTo
<1>4. IsFiniteSet(AnswersTo(a, k))
  BY <1>2, <1>3, FS_Subset
<1> QED
  BY <1>4, FS_CardinalityType

\* While nothing is appended, the answers are as many as before.
LEMMA CountKept ==
    ASSUME IInv, TypeOK', UNCHANGED log,
           \A a \in Runners, k \in Nat \ {0} : Due(a, k) <= Due(a, k)'
    PROVE  Counted'
<1> SUFFICES ASSUME NEW a \in Runners, NEW k \in Nat \ {0}
             PROVE  Cardinality(AnswersTo(a, k)') <= Due(a, k)'
  BY DEF Counted
<1>1. AnswersTo(a, k)' = AnswersTo(a, k)
  BY DEF AnswersTo
<1>3. Cardinality(AnswersTo(a, k)) \in Nat
  BY FiniteAnswers
<1>4. Cardinality(AnswersTo(a, k)) <= Due(a, k) /\ Due(a, k) <= Due(a, k)'
  BY DEF IInv, Counted
<1>5. Due(a, k) \in Int
  BY Numbers DEF Due
<1>6. Due(a, k)' \in Int
  BY DEF Due, TypeOK
<1> QED
  BY <1>1, <1>3, <1>4, <1>5, <1>6

\* So they are while nobody polls, and no cursor is lost.
LEMMA CountAsBefore ==
    ASSUME IInv, TypeOK', UNCHANGED <<log, cursor, resets>>,
           \A a \in Runners : batch'[a] = batch[a] \/ batch'[a] = {}
    PROVE  Counted'
<1> SUFFICES ASSUME NEW a \in Runners, NEW k \in Nat \ {0}
             PROVE  Due(a, k) <= Due(a, k)'
  BY CountKept
<1>1. batch'[a] = batch[a] \/ batch'[a] = {}
  OBVIOUS
<1> QED
  BY <1>1, Numbers DEF Due

\* A lost cursor counts as one reset.
LEMMA CountLost ==
    ASSUME IInv, TypeOK', UNCHANGED log, NEW a \in Runners, CursorLost(a),
           \A b \in Runners : batch'[b] = batch[b] \/ batch'[b] = {}
    PROVE  Counted'
<1> SUFFICES ASSUME NEW b \in Runners, NEW k \in Nat \ {0}
             PROVE  Due(b, k) <= Due(b, k)'
  BY CountKept
<1>1. CASE b = a
  <2>1. cursor'[a] = 0 /\ (cursor[a] > 0 => resets'[a] = resets[a] + 1)
                      /\ (cursor[a] = 0 => resets'[a] = resets[a])
    BY Numbers DEF CursorLost, Missed, IInv, TypeOK
  <2> QED
    BY <1>1, <2>1, Numbers DEF Due
<1>2. CASE b # a
  <2>1. cursor'[b] = cursor[b] /\ resets'[b] = resets[b]
    BY <1>2 DEF CursorLost, Missed, IInv, TypeOK
  <2> QED
    BY <1>2, <2>1, Numbers DEF Due
<1> QED
  BY <1>1, <1>2

-----------------------------------------------------------------------------
(* The steps that leave the log as it is.                                  *)

Refusal(a) == a \in refused /\ Announce(a)

LEMMA QuietStep ==
    ASSUME IInv, NEW a \in Runners,
           \/ Start(a) \/ Register(a) \/ Reset(a) \/ CheckPresence(a) \/ Join(a) \/ Refusal(a)
           \/ Poll(a) \/ Process(a) \/ CheckActive(a) \/ Crash(a)
    PROVE  IInv'
<1> USE LimitsAssumption DEF Goto, shared, told
<1>1. CASE Start(a)
  <2>0. PICK l \in {"presence", "register"} : Goto(a, l)
    BY <1>1 DEF Start
  <2>1. TypeOK'
    BY <1>1, <2>0 DEF Start, IInv, TypeOK, LogOK
  <2>2. LogOK'
    BY <1>1, <2>0 DEF Start, IInv, TypeOK, LogOK
  <2>3. Counted'
    <3>1. /\ UNCHANGED <<log, cursor, resets>>
          /\ \A b \in Runners : batch'[b] = batch[b] \/ batch'[b] = {}
      BY <1>1, <2>0 DEF Start, IInv, LogOK
    <3> QED
      BY <2>1, <3>1, CountAsBefore
  <2>4. Order'
    BY <1>1, <2>0 DEF Start, IInv, TypeOK, LogOK, Order, JoinsKnown, JoinedFirst, Joined, InLoop
  <2> QED
    BY <2>1, <2>2, <2>3, <2>4 DEF IInv
<1>2. CASE Register(a)
  <2>1. TypeOK'
    BY <1>2 DEF Register, IInv, TypeOK, LogOK
  <2>2. LogOK'
    BY <1>2 DEF Register, IInv, TypeOK, LogOK
  <2>3. Counted'
    <3>1. /\ UNCHANGED <<log, cursor, resets>>
          /\ \A b \in Runners : batch'[b] = batch[b] \/ batch'[b] = {}
      BY <1>2 DEF Register, IInv, LogOK
    <3> QED
      BY <2>1, <3>1, CountAsBefore
  <2>4. Order'
    BY <1>2 DEF Register, IInv, TypeOK, LogOK, Order, JoinsKnown, JoinedFirst, Joined, InLoop
  <2> QED
    BY <2>1, <2>2, <2>3, <2>4 DEF IInv
<1>3. CASE Reset(a)
  <2>1. TypeOK'
    BY <1>3 DEF Reset, IInv, TypeOK, LogOK
  <2>2. LogOK'
    BY <1>3 DEF Reset, IInv, TypeOK, LogOK
  <2>3. Counted'
    <3>1. /\ UNCHANGED <<log, cursor, resets>>
          /\ \A b \in Runners : batch'[b] = batch[b] \/ batch'[b] = {}
      BY <1>3 DEF Reset, IInv, LogOK
    <3> QED
      BY <2>1, <3>1, CountAsBefore
  <2>4. Order'
    BY <1>3 DEF Reset, IInv, TypeOK, LogOK, Order, JoinsKnown, JoinedFirst, Joined, InLoop
  <2> QED
    BY <2>1, <2>2, <2>3, <2>4 DEF IInv
<1>4. CASE CheckPresence(a)
  <2>0. PICK l \in {"polling", "join"} : Goto(a, l) /\ (l = "polling" => a \in member)
    BY <1>4 DEF CheckPresence
  <2>1. TypeOK'
    BY <1>4, <2>0 DEF CheckPresence, IInv, TypeOK, LogOK
  <2>2. LogOK'
    BY <1>4, <2>0 DEF CheckPresence, IInv, TypeOK, LogOK
  <2>3. Counted'
    <3>1. /\ UNCHANGED <<log, cursor, resets>>
          /\ \A b \in Runners : batch'[b] = batch[b] \/ batch'[b] = {}
      BY <1>4, <2>0 DEF CheckPresence, IInv, LogOK
    <3> QED
      BY <2>1, <3>1, CountAsBefore
  <2>4. Order'
    BY <1>4, <2>0 DEF CheckPresence, IInv, TypeOK, LogOK, Order, JoinsKnown, JoinedFirst, Joined, InLoop
  <2> QED
    BY <2>1, <2>2, <2>3, <2>4 DEF IInv
<1>5. CASE Join(a)
  <2>0. \/ /\ registered' = registered \cup {a} /\ member' = member \cup {a}
           /\ Goto(a, "announce")
        \/ UNCHANGED <<registered, member>> /\ Goto(a, "stopped")
    BY <1>5 DEF Join
  <2>1. TypeOK'
    BY <1>5, <2>0 DEF Join, IInv, TypeOK, LogOK
  <2>2. LogOK'
    BY <1>5, <2>0 DEF Join, IInv, TypeOK, LogOK
  <2>3. Counted'
    <3>1. /\ UNCHANGED <<log, cursor, resets>>
          /\ \A b \in Runners : batch'[b] = batch[b] \/ batch'[b] = {}
      BY <1>5, <2>0 DEF Join, IInv, LogOK
    <3> QED
      BY <2>1, <3>1, CountAsBefore
  <2>4. Order'
    BY <1>5, <2>0 DEF Join, IInv, TypeOK, LogOK, Order, JoinsKnown, JoinedFirst, Joined, InLoop
  <2> QED
    BY <2>1, <2>2, <2>3, <2>4 DEF IInv
<1>6. CASE Refusal(a)
  <2>1. TypeOK'
    BY <1>6 DEF Refusal, Announce, IInv, TypeOK, LogOK
  <2>2. LogOK'
    BY <1>6 DEF Refusal, Announce, IInv, TypeOK, LogOK
  <2>3. Counted'
    <3>1. /\ UNCHANGED <<log, cursor, resets>>
          /\ \A b \in Runners : batch'[b] = batch[b] \/ batch'[b] = {}
      BY <1>6 DEF Refusal, Announce, IInv, LogOK
    <3> QED
      BY <2>1, <3>1, CountAsBefore
  <2>4. Order'
    BY <1>6 DEF Refusal, Announce, IInv, TypeOK, LogOK, Order, JoinsKnown, JoinedFirst, Joined, InLoop
  <2> QED
    BY <2>1, <2>2, <2>3, <2>4 DEF IInv
<1>7. CASE Poll(a)
  <2>0. PICK c \in ReadCursor(a) :
           /\ batch' = [batch EXCEPT ![a] = Unread(c)]
           /\ resets' = Missed(a, c)
    BY <1>7 DEF Poll
  <2>5. /\ UNCHANGED <<active, log, registered, member, refused, unsaid, started, crashes>>
        /\ pc[a] = "polling" /\ Goto(a, "processing")
        /\ cursor' = [cursor EXCEPT ![a] = Len(log)]
    BY <1>7 DEF Poll
  <2>6. Len(log) \in Nat /\ cursor[a] \in 0..Len(log) /\ c \in 0..cursor[a]
    <3>1. Len(log) \in Nat /\ cursor[a] \in 0..Len(log) /\ cursor[a] \in Nat
      BY Numbers
    <3> QED
      BY <3>1 DEF ReadCursor
  <2>7. Unread(c) \subseteq 1..Len(log) /\ Unread(c) \subseteq Nat
    BY <2>6 DEF Unread
  <2>1. TypeOK'
    <3>1. resets' \in [Runners -> Nat] /\ cursor' \in [Runners -> 0..Len(log)]
      BY <2>0, <2>5, <2>6 DEF Missed, IInv, TypeOK
    <3>2. \A b \in Runners : batch'[b] \subseteq 1..Len(log)
      BY <2>0, <2>7 DEF IInv, TypeOK, LogOK
    <3>3. pc' \in [Runners -> {"stopped", "register", "reset", "presence", "join", "announce",
                             "polling", "processing", "answering", "posting"}]
      BY <2>5 DEF IInv, TypeOK
    <3> QED
      BY <2>5, <3>1, <3>2, <3>3 DEF IInv, TypeOK
  <2>2. LogOK'
    <3>1. batch' \in [Runners -> SUBSET Nat]
      BY <2>0, <2>7 DEF IInv, LogOK
    <3>2. \A b \in Runners : pc'[b] \notin {"processing", "answering", "posting"} => batch'[b] = {}
      BY <2>0, <2>5 DEF IInv, LogOK, TypeOK
    <3> QED
      BY <2>5, <3>1, <3>2 DEF IInv, LogOK
  <2>3. Counted'
    <3> SUFFICES ASSUME NEW b \in Runners, NEW k \in Nat \ {0}
                 PROVE  Due(b, k) <= Due(b, k)'
      BY <1>7, <2>1, CountKept DEF Poll
    <3>1. CASE b = a
      <4>1. /\ batch[a] = {} /\ cursor'[a] = Len(log) /\ cursor[a] \in 0..Len(log)
            /\ Len(log) \in Nat /\ c \in Nat /\ resets[a] \in Nat
        <5>1. cursor'[a] = Len(log)
          BY <2>5 DEF IInv, TypeOK
        <5>2. batch[a] = {}
          BY <2>5 DEF IInv, LogOK
        <5>3. resets[a] \in Nat
          BY Numbers
        <5> QED
          BY <2>6, <5>1, <5>2, <5>3
      <4>2. /\ batch'[a] = (c + 1)..Len(log)
            /\ resets'[a] = IF c < cursor[a] THEN resets[a] + 1 ELSE resets[a]
        BY <2>0 DEF Unread, Missed, IInv, TypeOK, LogOK
      <4> QED
        BY <3>1, <4>1, <4>2 DEF Due
    <3>2. CASE b # a
      <4>1. batch'[b] = batch[b] /\ cursor'[b] = cursor[b] /\ resets'[b] = resets[b]
        BY <1>7, <2>0, <3>2 DEF Poll, Missed, IInv, TypeOK, LogOK
      <4> QED
        BY <4>1, Numbers DEF Due
    <3> QED
      BY <3>1, <3>2
  <2>4. Order'
    BY <1>7, <2>0 DEF Poll, Unread, Missed, IInv, TypeOK, LogOK, Order, JoinsKnown, JoinedFirst, Joined, InLoop
  <2> QED
    BY <2>1, <2>2, <2>3, <2>4 DEF IInv
<1>8. CASE Process(a)
  <2>0. /\ UNCHANGED <<shared, told>> /\ pc[a] = "processing"
        /\ \/ Goto(a, "answering") /\ batch' = batch
           \/ /\ Goto(a, "polling") \/ Goto(a, "stopped")
              /\ batch' = [batch EXCEPT ![a] = {}]
    BY <1>8 DEF Process, Answer, NoAnswer, PromptRaises
  <2>5. \A b \in Runners : batch'[b] = batch[b] \/ batch'[b] = {}
    BY <2>0 DEF IInv, LogOK
  <2>1. TypeOK'
    <3>1. pc' \in [Runners -> {"stopped", "register", "reset", "presence", "join", "announce",
                             "polling", "processing", "answering", "posting"}]
      BY <2>0 DEF IInv, TypeOK
    <3> QED
      BY <2>0, <2>5, <3>1 DEF IInv, TypeOK
  <2>2. LogOK'
    BY <2>0 DEF IInv, TypeOK, LogOK
  <2>3. Counted'
    BY <2>0, <2>1, <2>5, CountAsBefore
  <2>4. Order'
    BY <2>0 DEF IInv, TypeOK, LogOK, Order, JoinsKnown, JoinedFirst, Joined, InLoop
  <2> QED
    BY <2>1, <2>2, <2>3, <2>4 DEF IInv
<1>9. CASE CheckActive(a)
  <2>0. \/ Goto(a, "posting") /\ UNCHANGED batch
        \/ Goto(a, "stopped") /\ batch' = [batch EXCEPT ![a] = {}]
    BY <1>9 DEF CheckActive
  <2>1. TypeOK'
    BY <1>9, <2>0 DEF CheckActive, IInv, TypeOK, LogOK
  <2>2. LogOK'
    BY <1>9, <2>0 DEF CheckActive, IInv, TypeOK, LogOK
  <2>3. Counted'
    <3>1. /\ UNCHANGED <<log, cursor, resets>>
          /\ \A b \in Runners : batch'[b] = batch[b] \/ batch'[b] = {}
      BY <1>9, <2>0 DEF CheckActive, IInv, LogOK
    <3> QED
      BY <2>1, <3>1, CountAsBefore
  <2>4. Order'
    BY <1>9, <2>0 DEF CheckActive, IInv, TypeOK, LogOK, Order, JoinsKnown, JoinedFirst, Joined, InLoop
  <2> QED
    BY <2>1, <2>2, <2>3, <2>4 DEF IInv
<1>10. CASE Crash(a)
  <2>0. /\ UNCHANGED <<log, active, refused, started>> /\ crashes' = crashes + 1
        /\ crashes < MaxCrashes /\ Goto(a, "stopped") /\ batch' = [batch EXCEPT ![a] = {}]
        /\ unsaid' = IF pc[a] = "announce" THEN unsaid \cup {a} ELSE unsaid
        /\ \/ UNCHANGED <<cursor, resets>> /\ member' \subseteq member
              /\ registered' \subseteq registered
           \/ CursorLost(a)
    BY <1>10 DEF Crash, RegistryLost, RoomsLost
  <2>1. TypeOK'
    <3>1. /\ resets' \in [Runners -> Nat] /\ cursor' \in [Runners -> 0..Len(log)]
          /\ member' \subseteq Runners /\ registered' \subseteq Runners
      <4>1. Len(log) \in Nat
        BY Numbers
      <4>2. CASE UNCHANGED <<cursor, resets>>
        BY <2>0, <4>2 DEF CursorLost, IInv, TypeOK
      <4>3. CASE CursorLost(a)
        BY <2>0, <4>1, <4>3 DEF CursorLost, Missed, IInv, TypeOK
      <4> QED
        BY <2>0, <4>2, <4>3
    <3>2. \A b \in Runners : batch'[b] \subseteq 1..Len(log)
      BY <2>0 DEF IInv, TypeOK, LogOK
    <3>3. pc' \in [Runners -> {"stopped", "register", "reset", "presence", "join", "announce",
                             "polling", "processing", "answering", "posting"}]
      BY <2>0 DEF IInv, TypeOK
    <3>4. crashes' \in 0..MaxCrashes
      BY <2>0 DEF IInv, TypeOK
    <3>5. unsaid' \subseteq Runners
      BY <2>0 DEF IInv, TypeOK
    <3> QED
      BY <2>0, <3>1, <3>2, <3>3, <3>4, <3>5 DEF IInv, TypeOK
  <2>2. LogOK'
    BY <2>0 DEF IInv, TypeOK, LogOK
  <2>3. Counted'
    <3>1. \A b \in Runners : batch'[b] = batch[b] \/ batch'[b] = {}
      BY <2>0 DEF IInv, LogOK
    <3> QED
      BY <2>0, <2>1, <3>1, CountAsBefore, CountLost
  <2>4. Order'
    <3>1. member' \subseteq member
      BY <2>0 DEF CursorLost
    <3> QED
      BY <2>0, <3>1 DEF IInv, TypeOK, LogOK, Order, JoinsKnown, JoinedFirst, Joined, InLoop
  <2> QED
    BY <2>1, <2>2, <2>3, <2>4 DEF IInv
<1> QED
  BY <1>1, <1>2, <1>3, <1>4, <1>5, <1>6, <1>7, <1>8, <1>9, <1>10

\* So does a crash of another program.
LEMMA OtherStep ==
    ASSUME IInv, OtherCrash PROVE IInv'
<1> USE LimitsAssumption, CursorsAssumption
<1>1. /\ UNCHANGED <<log, active, refused, started, unsaid, pc, batch>>
      /\ crashes' = crashes + 1 /\ crashes < MaxCrashes
      /\ \/ UNCHANGED <<cursor, resets>> /\ member' \subseteq member
            /\ registered' \subseteq registered
         \/ \E a \in Runners : CursorLost(a)
  BY DEF OtherCrash, RegistryLost, RoomsLost
<1>2. TypeOK'
  BY <1>1 DEF CursorLost, Missed, IInv, TypeOK, LogOK
<1>3. LogOK'
  BY <1>1 DEF IInv, TypeOK, LogOK
<1>4. Counted'
  <2>1. \A b \in Runners : batch'[b] = batch[b]
    BY <1>1
  <2> QED
    BY <1>1, <1>2, <2>1, CountAsBefore, CountLost
<1>5. Order'
  <2>1. member' \subseteq member
    BY <1>1 DEF CursorLost
  <2> QED
    BY <1>1, <2>1 DEF IInv, TypeOK, LogOK, Order, JoinsKnown, JoinedFirst, Joined, InLoop
<1> QED
  BY <1>2, <1>3, <1>4, <1>5 DEF IInv

-----------------------------------------------------------------------------
(* The appends.                                                            *)

\* An answer makes the answers to its batch one more, each.
LEMMA CountAppend ==
    ASSUME IInv, NEW r \in Entries, log' = Append(log, r),
           NEW a \in Runners, NEW k \in Nat \ {0}
    PROVE  Cardinality(AnswersTo(a, k)') <=
               Cardinality(AnswersTo(a, k)) + (IF r.from = a /\ k \in r.answers THEN 1 ELSE 0)
           /\ Cardinality(AnswersTo(a, k)) \in Nat /\ Cardinality(AnswersTo(a, k)') \in Nat
<1> DEFINE n == Len(log) + 1
           A == AnswersTo(a, k)
           B == AnswersTo(a, k)'
<1>1. /\ Len(log) \in Nat /\ Len(log') = n
      /\ \A i \in 1..Len(log') :
            (i \in 1..Len(log) /\ log'[i] = log[i]) \/ (i = n /\ log'[i] = r)
  BY Appended
<1>2. A \subseteq 1..Len(log)
  BY DEF AnswersTo
<1>3. IsFiniteSet(A) /\ Cardinality(A) \in Nat
  BY FiniteAnswers
<1>4. B \subseteq IF r.from = a /\ k \in r.answers THEN A \cup {n} ELSE A
  BY <1>1 DEF AnswersTo
<1>5. n \notin A
  BY <1>1, <1>2
<1> HIDE DEF n, A, B
<1>6. IsFiniteSet(A \cup {n}) /\ Cardinality(A \cup {n}) = Cardinality(A) + 1
  BY <1>3, <1>5, FS_AddElement
<1>7. CASE r.from = a /\ k \in r.answers
  <2>1. B \subseteq A \cup {n}
    BY <1>4, <1>7
  <2>2. IsFiniteSet(B) /\ Cardinality(B) <= Cardinality(A \cup {n})
    BY <1>6, <2>1, FS_Subset
  <2>3. Cardinality(B) \in Nat
    BY <2>2, FS_CardinalityType
  <2> QED
    BY <1>3, <1>6, <1>7, <2>2, <2>3 DEF A, B
<1>8. CASE ~(r.from = a /\ k \in r.answers)
  <2>1. B \subseteq A
    BY <1>4, <1>8
  <2>2. IsFiniteSet(B) /\ Cardinality(B) <= Cardinality(A)
    BY <1>3, <2>1, FS_Subset
  <2>3. Cardinality(B) \in Nat
    BY <2>2, FS_CardinalityType
  <2> QED
    BY <1>3, <1>8, <2>2, <2>3 DEF A, B
<1> QED
  BY <1>7, <1>8


LEMMA AppendStep ==
    ASSUME IInv,
           (\E a \in Runners : (Announce(a) /\ ~Refusal(a)) \/ Post(a)) \/ ClientPost \/ ArchiveRecord
    PROVE  IInv'
<1> USE RunnersAssumption, LimitsAssumption DEF Goto, told
<1>1. ASSUME NEW a \in Runners, Announce(a), ~Refusal(a) PROVE IInv'
  <2> DEFINE r == Record("joined", a, {})
  <2>1. r \in Entries /\ log' = Append(log, r)
    BY <1>1 DEF Announce, Refusal, Record, Entries, IInv, LogOK
  <2>2. /\ log' \in Seq(Entries) /\ Len(log) \in Nat /\ Len(log') = Len(log) + 1
        /\ \A i \in 1..Len(log') :
              (i \in 1..Len(log) /\ log'[i] = log[i]) \/ (i = Len(log) + 1 /\ log'[i] = r)
    BY <2>1, Appended
  <2>7. /\ pc[a] = "announce" /\ Goto(a, "polling")
        /\ UNCHANGED <<active, registered, member, cursor, batch, unsaid,
                       refused, resets, started, crashes>>
    BY <1>1 DEF Announce, Refusal
  <2>3. TypeOK'
    <3>1. log'[Len(log) + 1] = r /\ cursor' \in [Runners -> 0..Len(log')]
      BY <1>1, <2>2 DEF Announce, IInv, TypeOK
    <3>2. \A i \in 1..Len(log') :
             /\ log'[i].type \in {"created", "joined", "text", "archived"}
             /\ log'[i].from \in Runners \cup {Client}
             /\ log'[i].answers \subseteq 1..(i - 1)
      BY <2>1, EntryTypes DEF Record
    <3>3. \A b \in Runners : batch'[b] \subseteq 1..Len(log')
      BY <2>2, <2>7 DEF IInv, TypeOK
    <3> QED
      BY <2>7, <3>1, <3>2, <3>3 DEF IInv, TypeOK, LogOK
  <2>4. LogOK'
    <3>1. \A i \in 1..Len(log') : log'[i].from = Client => log'[i].answers = {}
      BY <2>2 DEF Record, IInv, LogOK
    <3> QED
      BY <2>2, <2>7, <3>1 DEF IInv, TypeOK, LogOK
  <2>5. Counted'
    <3> SUFFICES ASSUME NEW b \in Runners, NEW k \in Nat \ {0}
                 PROVE  Cardinality(AnswersTo(b, k)') <= Due(b, k)'
      BY DEF Counted
    <3>1. Due(b, k)' = Due(b, k) /\ Due(b, k) \in Int
      BY <2>7, Numbers DEF Due
    <3>2. r.answers = {}
      BY DEF Record
    <3> HIDE DEF r
    <3> DEFINE one == IF r.from = b /\ k \in r.answers THEN 1 ELSE 0
    <3>3. Cardinality(AnswersTo(b, k)') <= Cardinality(AnswersTo(b, k)) + one
          /\ Cardinality(AnswersTo(b, k)) \in Nat /\ Cardinality(AnswersTo(b, k)') \in Nat
      BY <2>1, CountAppend
    <3>4. one = 0
      BY <3>2
    <3>5. Cardinality(AnswersTo(b, k)) <= Due(b, k)
      BY DEF IInv, Counted
    <3> QED
      BY <3>1, <3>3, <3>4, <3>5
  <2>6. Order'
    <3>1. \A b \in Runners : Joined(b) => Joined(b)'
      BY <2>2 DEF Joined
    <3>0. Joined(a)'
      BY <2>2 DEF Joined
    <3>2. JoinsKnown'
      BY <1>1, <2>2, <3>1, <3>0 DEF Announce, Record, IInv, TypeOK, LogOK, Order, JoinsKnown, Joined, InLoop
    <3>3. JoinedFirst'
      <4>1. r.type = "text" /\ r.from \in Runners \ unsaid => Joined(r.from)
        BY <1>1 DEF Announce, Record, IInv, Order, JoinsKnown, InLoop
      <4>2. unsaid' = unsaid
        BY <2>7
      <4> QED
        BY <2>1, <4>1, <4>2, OrderKept
    <3> QED
      BY <3>2, <3>3 DEF Order
  <2> QED
    BY <2>3, <2>4, <2>5, <2>6 DEF IInv
<1>2. ASSUME NEW a \in Runners, Post(a) PROVE IInv'
  <2> DEFINE r == Record("text", a, batch[a])
  <2>1. r \in Entries /\ log' = Append(log, r)
    BY <1>2 DEF Post, Record, Entries, IInv, LogOK
  <2>8. r.answers \subseteq 1..Len(log)
    BY DEF Record, IInv, TypeOK
  <2>2. /\ log' \in Seq(Entries) /\ Len(log) \in Nat /\ Len(log') = Len(log) + 1
        /\ \A i \in 1..Len(log') :
              (i \in 1..Len(log) /\ log'[i] = log[i]) \/ (i = Len(log) + 1 /\ log'[i] = r)
    BY <2>1, Appended
  <2>3. TypeOK'
    <3>1. log'[Len(log) + 1] = r /\ cursor' \in [Runners -> 0..Len(log')]
      BY <1>2, <2>2 DEF Post, IInv, TypeOK
    <3>2. \A i \in 1..Len(log') :
             /\ log'[i].type \in {"created", "joined", "text", "archived"}
             /\ log'[i].from \in Runners \cup {Client}
             /\ log'[i].answers \subseteq 1..(i - 1)
      BY <2>1, <2>8, EntryTypes
    <3> QED
      BY <1>2, <3>1, <3>2 DEF Post, IInv, TypeOK, LogOK
  <2>4. LogOK'
    BY <1>2, <2>2 DEF Post, Record, IInv, TypeOK, LogOK
  <2>5. Counted'
    <3> SUFFICES ASSUME NEW b \in Runners, NEW k \in Nat \ {0}
                 PROVE  Cardinality(AnswersTo(b, k)') <= Due(b, k)'
      BY DEF Counted
    <3> DEFINE one == IF r.from = b /\ k \in r.answers THEN 1 ELSE 0
    <3>1. Due(b, k)' = Due(b, k) + one /\ Due(b, k) \in Int
      <4>1. r.from = a /\ r.answers = batch[a]
        BY DEF Record
      <4>2. UNCHANGED <<cursor, resets>> /\ batch' = [batch EXCEPT ![a] = {}]
        BY <1>2 DEF Post, told
      <4> HIDE DEF r
      <4>3. CASE b = a
        <5>1. batch'[b] = {} /\ cursor'[b] = cursor[b] /\ resets'[b] = resets[b]
          BY <4>2, <4>3 DEF IInv, LogOK
        <5> QED
          BY <4>1, <4>3, <5>1, Numbers DEF Due
      <4>4. CASE b # a
        <5>1. batch'[b] = batch[b] /\ cursor'[b] = cursor[b] /\ resets'[b] = resets[b]
          BY <4>2, <4>4 DEF IInv, LogOK
        <5> QED
          BY <4>1, <4>4, <5>1, Numbers DEF Due
      <4> QED
        BY <4>3, <4>4
    <3> HIDE DEF r
    <3>2. Cardinality(AnswersTo(b, k)') <= Cardinality(AnswersTo(b, k)) + one
          /\ Cardinality(AnswersTo(b, k)) \in Nat /\ Cardinality(AnswersTo(b, k)') \in Nat
      BY <2>1, CountAppend
    <3>3. Cardinality(AnswersTo(b, k)) <= Due(b, k)
      BY DEF IInv, Counted
    <3>4. one \in Int
      OBVIOUS
    <3> QED
      BY <3>1, <3>2, <3>3, <3>4
  <2>6. Order'
    <3>1. \A b \in Runners : Joined(b) => Joined(b)'
      BY <2>2 DEF Joined
    <3>2. JoinsKnown'
      BY <1>2, <2>2, <3>1 DEF Post, Record, IInv, TypeOK, LogOK, Order, JoinsKnown, Joined, InLoop
    <3>3. JoinedFirst'
      <4>1. r.type = "text" /\ r.from \in Runners \ unsaid => Joined(r.from)
        BY <1>2 DEF Post, Record, IInv, Order, JoinsKnown, InLoop
      <4>2. unsaid' = unsaid
        BY <1>2 DEF Post, told
      <4> QED
        BY <2>1, <4>1, <4>2, OrderKept
    <3> QED
      BY <3>2, <3>3 DEF Order
  <2> QED
    BY <2>3, <2>4, <2>5, <2>6 DEF IInv
<1>3. ASSUME ClientPost PROVE IInv'
  <2> DEFINE r == Record("text", Client, {})
  <2>1. r \in Entries /\ log' = Append(log, r)
    BY <1>3 DEF ClientPost, Record, Entries, IInv, LogOK
  <2>2. /\ log' \in Seq(Entries) /\ Len(log) \in Nat /\ Len(log') = Len(log) + 1
        /\ \A i \in 1..Len(log') :
              (i \in 1..Len(log) /\ log'[i] = log[i]) \/ (i = Len(log) + 1 /\ log'[i] = r)
    BY <2>1, Appended
  <2>3. TypeOK'
    <3>1. log'[Len(log) + 1] = r /\ cursor' \in [Runners -> 0..Len(log')]
      BY <1>3, <2>2 DEF ClientPost, IInv, TypeOK
    <3>2. \A i \in 1..Len(log') :
             /\ log'[i].type \in {"created", "joined", "text", "archived"}
             /\ log'[i].from \in Runners \cup {Client}
             /\ log'[i].answers \subseteq 1..(i - 1)
      BY <2>1, EntryTypes DEF Record
    <3>3. UNCHANGED <<active, registered, member, cursor, pc, batch, told>>
      BY <1>3 DEF ClientPost
    <3>4. \A b \in Runners : batch'[b] \subseteq 1..Len(log')
      BY <2>2, <3>3 DEF IInv, TypeOK
    <3> QED
      BY <3>1, <3>2, <3>3, <3>4 DEF told, IInv, TypeOK
  <2>4. LogOK'
    <3>1. \A i \in 1..Len(log') : log'[i].from = Client => log'[i].answers = {}
      BY <2>2 DEF Record, IInv, LogOK
    <3>2. UNCHANGED <<registered, pc, batch>>
      BY <1>3 DEF ClientPost
    <3> QED
      BY <2>2, <3>1, <3>2 DEF IInv, LogOK
  <2>5. Counted'
    <3> SUFFICES ASSUME NEW b \in Runners, NEW k \in Nat \ {0}
                 PROVE  Cardinality(AnswersTo(b, k)') <= Due(b, k)'
      BY DEF Counted
    <3>1. Due(b, k)' = Due(b, k) /\ Due(b, k) \in Int
      BY <1>3, Numbers DEF ClientPost, Due, told
    <3>2. r.answers = {}
      BY DEF Record
    <3> HIDE DEF r
    <3> DEFINE one == IF r.from = b /\ k \in r.answers THEN 1 ELSE 0
    <3>3. Cardinality(AnswersTo(b, k)') <= Cardinality(AnswersTo(b, k)) + one
          /\ Cardinality(AnswersTo(b, k)) \in Nat /\ Cardinality(AnswersTo(b, k)') \in Nat
      BY <2>1, CountAppend
    <3>4. one = 0
      BY <3>2
    <3>5. Cardinality(AnswersTo(b, k)) <= Due(b, k)
      BY DEF IInv, Counted
    <3> QED
      BY <3>1, <3>3, <3>4, <3>5
  <2>6. Order'
    <3>1. \A b \in Runners : Joined(b) => Joined(b)'
      BY <2>2 DEF Joined
    <3>2. JoinsKnown'
      BY <1>3, <2>2, <3>1 DEF ClientPost, Record, IInv, TypeOK, LogOK, Order, JoinsKnown, Joined, InLoop
    <3>3. JoinedFirst'
      <4>1. r.type = "text" /\ r.from \in Runners \ unsaid => Joined(r.from)
        BY <1>3 DEF ClientPost, Record, IInv, Order, JoinsKnown, InLoop
      <4>2. unsaid' = unsaid
        BY <1>3 DEF ClientPost, told
      <4> QED
        BY <2>1, <4>1, <4>2, OrderKept
    <3> QED
      BY <3>2, <3>3 DEF Order
  <2> QED
    BY <2>3, <2>4, <2>5, <2>6 DEF IInv
<1>4. ASSUME ArchiveRecord PROVE IInv'
  <2> DEFINE r == Record("archived", Client, {})
  <2>1. r \in Entries /\ log' = Append(log, r)
    BY <1>4 DEF ArchiveRecord, Record, Entries, IInv, LogOK
  <2>2. /\ log' \in Seq(Entries) /\ Len(log) \in Nat /\ Len(log') = Len(log) + 1
        /\ \A i \in 1..Len(log') :
              (i \in 1..Len(log) /\ log'[i] = log[i]) \/ (i = Len(log) + 1 /\ log'[i] = r)
    BY <2>1, Appended
  <2>3. TypeOK'
    <3>1. log'[Len(log) + 1] = r /\ cursor' \in [Runners -> 0..Len(log')]
      BY <1>4, <2>2 DEF ArchiveRecord, IInv, TypeOK
    <3>2. \A i \in 1..Len(log') :
             /\ log'[i].type \in {"created", "joined", "text", "archived"}
             /\ log'[i].from \in Runners \cup {Client}
             /\ log'[i].answers \subseteq 1..(i - 1)
      BY <2>1, EntryTypes DEF Record
    <3>3. UNCHANGED <<active, registered, member, cursor, pc, batch, told>>
      BY <1>4 DEF ArchiveRecord
    <3>4. \A b \in Runners : batch'[b] \subseteq 1..Len(log')
      BY <2>2, <3>3 DEF IInv, TypeOK
    <3> QED
      BY <3>1, <3>2, <3>3, <3>4 DEF told, IInv, TypeOK
  <2>4. LogOK'
    <3>1. \A i \in 1..Len(log') : log'[i].from = Client => log'[i].answers = {}
      BY <2>2 DEF Record, IInv, LogOK
    <3>2. UNCHANGED <<registered, pc, batch>>
      BY <1>4 DEF ArchiveRecord
    <3> QED
      BY <2>2, <3>1, <3>2 DEF IInv, LogOK
  <2>5. Counted'
    <3> SUFFICES ASSUME NEW b \in Runners, NEW k \in Nat \ {0}
                 PROVE  Cardinality(AnswersTo(b, k)') <= Due(b, k)'
      BY DEF Counted
    <3>1. Due(b, k)' = Due(b, k) /\ Due(b, k) \in Int
      BY <1>4, Numbers DEF ArchiveRecord, Due, told
    <3>2. r.answers = {}
      BY DEF Record
    <3> HIDE DEF r
    <3> DEFINE one == IF r.from = b /\ k \in r.answers THEN 1 ELSE 0
    <3>3. Cardinality(AnswersTo(b, k)') <= Cardinality(AnswersTo(b, k)) + one
          /\ Cardinality(AnswersTo(b, k)) \in Nat /\ Cardinality(AnswersTo(b, k)') \in Nat
      BY <2>1, CountAppend
    <3>4. one = 0
      BY <3>2
    <3>5. Cardinality(AnswersTo(b, k)) <= Due(b, k)
      BY DEF IInv, Counted
    <3> QED
      BY <3>1, <3>3, <3>4, <3>5
  <2>6. Order'
    <3>1. \A b \in Runners : Joined(b) => Joined(b)'
      BY <2>2 DEF Joined
    <3>2. JoinsKnown'
      BY <1>4, <2>2, <3>1 DEF ArchiveRecord, Record, IInv, TypeOK, LogOK, Order, JoinsKnown, Joined, InLoop
    <3>3. JoinedFirst'
      <4>1. r.type = "text" /\ r.from \in Runners \ unsaid => Joined(r.from)
        BY <1>4 DEF ArchiveRecord, Record, IInv, Order, JoinsKnown, InLoop
      <4>2. unsaid' = unsaid
        BY <1>4 DEF ArchiveRecord, told
      <4> QED
        BY <2>1, <4>1, <4>2, OrderKept
    <3> QED
      BY <3>2, <3>3 DEF Order
  <2> QED
    BY <2>3, <2>4, <2>5, <2>6 DEF IInv
<1> QED
  BY <1>1, <1>2, <1>3, <1>4

LEMMA Inductive == Spec => []IInv
<1>1. IInv /\ [Next]_vars => IInv'
  <2> SUFFICES ASSUME IInv, [Next]_vars PROVE IInv'
    OBVIOUS
  <2>1. CASE UNCHANGED vars
    <3>1. TypeOK' /\ LogOK'
      BY <2>1 DEF vars, shared, told, IInv, TypeOK, LogOK
    <3>2. Counted'
      BY <2>1 DEF vars, shared, told, IInv, Counted, Due, AnswersTo
    <3>3. Order'
      BY <2>1 DEF vars, shared, told, IInv, Order, JoinsKnown, JoinedFirst, Joined
    <3> QED
      BY <3>1, <3>2, <3>3 DEF IInv
  <2>2. CASE Next
    <3>1. CASE Archive
      <4>1. TypeOK' /\ LogOK'
        BY <3>1 DEF Archive, told, IInv, TypeOK, LogOK
      <4>2. Counted'
        BY <3>1 DEF Archive, told, IInv, Counted, Due, AnswersTo
      <4>3. Order'
        BY <3>1 DEF Archive, told, IInv, Order, JoinsKnown, JoinedFirst, Joined
      <4> QED
        BY <4>1, <4>2, <4>3 DEF IInv
    <3> QED
      BY <2>2, <3>1, QuietStep, OtherStep, AppendStep DEF Next, Loop
  <2> QED
    BY <2>1, <2>2
<1> QED
  BY <1>1, InvInit, PTL DEF Spec

\* Type correctness, for any agents, bounds and crashes.
THEOREM TypeCorrect == Spec => []TypeOK
<1>1. IInv => TypeOK
  BY DEF IInv
<1> QED
  BY <1>1, Inductive, PTL

\* No agent answers a record more than once, and once more for each time its
\* cursor was lost or overlooked, over any number of restarts and crashes.
THEOREM NotTwice == Spec => []AnsweredOnce
<1>1. IInv => AnsweredOnce
  <2> SUFFICES ASSUME IInv, NEW a \in Runners, NEW k \in 1..Len(log)
               PROVE  Cardinality(AnswersTo(a, k)) <= 1 + resets[a]
    BY DEF AnsweredOnce
  <2>1. Len(log) \in Nat /\ k \in Nat \ {0}
    BY DEF IInv, LogOK
  <2>2. Cardinality(AnswersTo(a, k)) <= Due(a, k)
    BY <2>1 DEF IInv, Counted
  <2>3. Cardinality(AnswersTo(a, k)) \in Nat
    BY FiniteAnswers
  <2>4. Due(a, k) \in Int /\ Due(a, k) <= 1 + resets[a] /\ resets[a] \in Nat
    BY Numbers DEF Due
  <2> QED
    BY <2>2, <2>3, <2>4
<1> QED
  BY <1>1, Inductive, PTL

\* No agent posts before it announced that it joined, unless a crash or a refusal
\* of its role came between its presence file and that record.
THEOREM Announced == Spec => []JoinedFirst
<1>1. IInv => JoinedFirst
  BY DEF IInv, Order
<1> QED
  BY <1>1, Inductive, PTL

-----------------------------------------------------------------------------
(* After the archiving.                                                    *)

Late(i, a) == {j \in i..Len(log) : log[j].type = "text" /\ log[j].from = a}

\* The record of the archiving comes after the archiving, and then nobody gets
\* past the check; an agent that is past it has not posted since.
LateOK ==
    \A i \in 1..Len(log) : log[i].type = "archived" =>
        /\ ~active
        /\ \A a \in Runners : /\ \A j, k \in Late(i, a) : j = k
                              /\ pc[a] = "posting" => Late(i, a) = {}

LEMMA LateStep ==
    ASSUME IInv, LateOK, [Next]_vars
    PROVE  LateOK'
<1> USE RunnersAssumption DEF Goto
<1>0. /\ log \in Seq(Entries) /\ Len(log) \in Nat
      /\ pc \in [Runners -> {"stopped", "register", "reset", "presence", "join", "announce",
                             "polling", "processing", "answering", "posting"}]
  BY DEF IInv, LogOK, TypeOK
<1>1. ASSUME UNCHANGED log,
             ~active => /\ ~active'
                        /\ \A a \in Runners : pc'[a] = "posting" => pc[a] = "posting"
      PROVE  LateOK'
  BY <1>1 DEF LateOK, Late
<1>2. ASSUME NEW r \in Entries, log' = Append(log, r), UNCHANGED active,
             r.type = "archived" => ~active,
             r.type = "text" => r.from \notin Runners,
             \A a \in Runners : pc'[a] = "posting" => pc[a] = "posting"
      PROVE  LateOK'
  <2> SUFFICES ASSUME NEW h \in 1..Len(log'), log'[h].type = "archived"
               PROVE  /\ ~active
                      /\ \A a \in Runners : /\ \A j, k \in Late(h, a)' : j = k
                                            /\ pc'[a] = "posting" => Late(h, a)' = {}
    BY <1>2 DEF LateOK, Late
  <2>1. /\ Len(log') = Len(log) + 1
        /\ \A j \in 1..Len(log') :
              (j \in 1..Len(log) /\ log'[j] = log[j]) \/ (j = Len(log) + 1 /\ log'[j] = r)
    BY <1>2, Appended
  <2>2. CASE h \in 1..Len(log)
    <3>1. log[h].type = "archived"
      BY <2>1, <2>2, <1>0
    <3>2. \A a \in Runners : Late(h, a)' \subseteq Late(h, a)
      BY <1>0, <1>2, <2>1, <2>2 DEF Late
    <3> QED
      BY <1>2, <2>2, <3>1, <3>2 DEF LateOK
  <2>3. CASE h = Len(log) + 1
    <3>1. r.type = "archived"
      BY <1>0, <2>1, <2>3
    <3>2. \A a \in Runners : Late(h, a)' = {}
      BY <1>0, <2>1, <2>3, <3>1 DEF Late
    <3> QED
      BY <1>2, <3>1, <3>2
  <2> QED
    BY <1>0, <2>1, <2>2, <2>3
<1>3. ASSUME NEW b \in Runners, Post(b) PROVE LateOK'
  <2> SUFFICES ASSUME NEW h \in 1..Len(log'), log'[h].type = "archived"
               PROVE  /\ ~active
                      /\ \A a \in Runners : /\ \A j, k \in Late(h, a)' : j = k
                                            /\ pc'[a] = "posting" => Late(h, a)' = {}
    BY <1>3 DEF LateOK, Late, Post
  <2> DEFINE r == Record("text", b, batch[b])
  <2>0. r \in Entries /\ log' = Append(log, r) /\ r.type = "text" /\ r.from = b
    BY <1>3 DEF Post, Record, Entries, IInv, LogOK
  <2> HIDE DEF r
  <2>1. /\ Len(log') = Len(log) + 1
        /\ \A j \in 1..Len(log') :
              (j \in 1..Len(log) /\ log'[j] = log[j]) \/ (j = Len(log) + 1 /\ log'[j] = r)
    BY <2>0, Appended
  <2>2. h \in 1..Len(log) /\ log[h].type = "archived"
    BY <1>0, <2>0, <2>1
  <2>3. Late(h, b) = {} /\ pc'[b] # "posting"
    BY <1>0, <1>3, <2>2 DEF LateOK, Post
  <2>4. Late(h, b)' \subseteq Late(h, b) \cup {Len(log) + 1}
    BY <1>0, <2>1, <2>2 DEF Late
  <2>5. \A a \in Runners \ {b} : Late(h, a)' \subseteq Late(h, a) /\ pc'[a] = pc[a]
    BY <1>0, <1>3, <2>0, <2>1, <2>2 DEF Late, Post
  <2> QED
    BY <2>2, <2>3, <2>4, <2>5 DEF LateOK
<1>4. CASE UNCHANGED vars \/ Archive \/ OtherCrash
  BY <1>4, <1>1 DEF vars, shared, Archive, OtherCrash
<1>5. ASSUME NEW a \in Runners,
             \/ Start(a) \/ Register(a) \/ Reset(a) \/ CheckPresence(a) \/ Join(a)
             \/ Refusal(a) \/ Poll(a) \/ Process(a) \/ CheckActive(a) \/ Crash(a)
      PROVE  LateOK'
  <2>1. UNCHANGED <<log, active>>
    BY <1>5 DEF Start, Register, Reset, CheckPresence, Join, Refusal, Announce, Poll,
                Process, Answer, NoAnswer, PromptRaises, CheckActive, Crash, shared
  <2>2. ~active => \A b \in Runners : pc'[b] = "posting" => pc[b] = "posting"
    BY <1>0, <1>5 DEF Start, Register, Reset, CheckPresence, Join, Refusal, Announce, Poll,
                Process, Answer, NoAnswer, PromptRaises, CheckActive, Crash
  <2> QED
    BY <2>1, <2>2, <1>1
<1>6. ASSUME NEW a \in Runners, Announce(a), ~Refusal(a) PROVE LateOK'
  <2> DEFINE r == Record("joined", a, {})
  <2>1. r \in Entries /\ log' = Append(log, r) /\ r.type = "joined"
    BY <1>6 DEF Announce, Refusal, Record, Entries
  <2>2. UNCHANGED active /\ \A b \in Runners : pc'[b] = "posting" => pc[b] = "posting"
    BY <1>0, <1>6 DEF Announce
  <2> QED
    BY <1>2, <2>1, <2>2
<1>7. CASE ClientPost
  <2> DEFINE r == Record("text", Client, {})
  <2>1. r \in Entries /\ log' = Append(log, r) /\ r.type = "text" /\ r.from \notin Runners
    BY <1>7 DEF ClientPost, Record, Entries
  <2>2. UNCHANGED <<active, pc>>
    BY <1>7 DEF ClientPost
  <2> QED
    BY <1>2, <2>1, <2>2
<1>8. CASE ArchiveRecord
  <2> DEFINE r == Record("archived", Client, {})
  <2>1. r \in Entries /\ log' = Append(log, r) /\ r.type = "archived" /\ ~active
    BY <1>8 DEF ArchiveRecord, Record, Entries
  <2>2. UNCHANGED <<active, pc>>
    BY <1>8 DEF ArchiveRecord
  <2> QED
    BY <1>2, <2>1, <2>2
<1> QED
  BY <1>3, <1>4, <1>5, <1>6, <1>7, <1>8 DEF Next, Loop

\* After the archiving an agent posts one answer more, at most, over any number
\* of starts and crashes of its process.
THEOREM LateOnce == Spec => []LateAnswerBounded
<1>1. Init => LateOK
  BY DEF Init, Record, LateOK
<1>2. IInv /\ LateOK /\ [Next]_vars => LateOK'
  BY LateStep
<1>3. LateOK => LateAnswerBounded
  <2> SUFFICES ASSUME LateOK, NEW i \in 1..Len(log), NEW a \in Runners,
                      log[i].type = "archived"
               PROVE  Cardinality(Late(i, a)) <= 1
    BY DEF LateAnswerBounded, Late
  <2>1. \A j, k \in Late(i, a) : j = k
    BY DEF LateOK
  <2>2. CASE Late(i, a) = {}
    BY <2>2, FS_EmptySet
  <2>3. ASSUME NEW j \in Late(i, a) PROVE Cardinality(Late(i, a)) <= 1
    <3>1. Late(i, a) = {j}
      BY <2>1
    <3>2. Cardinality({j}) = 1
      BY FS_Singleton
    <3> QED
      BY <3>1, <3>2
  <2> QED
    BY <2>2, <2>3
<1> QED
  BY <1>1, <1>2, <1>3, Inductive, PTL DEF Spec
=============================================================================
