----------------------------- MODULE MetricsProofs -----------------------------
(***************************************************************************)
(* What a page of metrics shows while posts are handled, for every number  *)
(* of handlers, scrapers, buckets and posts.                               *)
(***************************************************************************)
EXTENDS Metrics, FiniteSetTheorems, TLAPS

\* Where the handler of a post is, in one word.
Changing(h) == pc[h] \in {"load", "store"}
Stage(h) ==
    IF ~Changing(h) THEN pc[h]
    ELSE IF Head(todo[h]) = Messages THEN "messages"
    ELSE IF Head(todo[h]) = Sum THEN "sum"
    ELSE IF Head(todo[h]) = Total THEN "total" ELSE "bucket"

\* What observe has left to add to.
Left(b) ==
    IF b <= Bounds
    THEN {<<Sum, Total, Bucket(b)>>, <<Total, Bucket(b)>>, <<Bucket(b)>>}
    ELSE {<<Sum, Total>>, <<Total>>}

\* A thread that changes a metric holds its lock, and no one else changes what
\* it loaded.
HandlerOK(h) ==
    /\ pc[h] = "inc" => post[h].ok
    /\ Changing(h) =>
          \/ todo[h] = <<Messages>> /\ post[h].ok /\ lock["inc"] = h
          \/ todo[h] \in Left(post[h].bucket) /\ lock["observe"] = h
    /\ pc[h] = "store" => loaded[h] = metric[Head(todo[h])]
    /\ lock["inc"] = h => Changing(h) /\ todo[h] = <<Messages>>
    /\ lock["observe"] = h => Changing(h) /\ todo[h] # <<Messages>>

Base == TypeOK /\ \A h \in Handlers : HandlerOK(h)

\* The durations of all that are in the total are in the sum.
SumFirst ==
    /\ metric[Total] <= metric[Sum]
    /\ \A h \in Handlers : Stage(h) = "total" => metric[Total] + 1 <= metric[Sum]

Buckets    == [i \in 1..Bounds |-> metric[Bucket(i)]]
Sums(C, f) == \A i \in 1..Bounds : C[i] = C[i - 1] + f[i]

\* C has the buckets cumulated; the total has what they have, and a page has not
\* more.
Cumulated(C) ==
    /\ C \in [0..Bounds -> Nat] /\ C[0] = 0
    /\ Sums(C, Buckets)
    /\ C[Bounds] <= metric[Total]
    /\ \A h \in Handlers : Stage(h) = "bucket" => C[Bounds] + 1 <= metric[Total]
    /\ \A s \in Scrapers : \A i \in 2..(Bounds + 1) :
          i <= Len(page[s]) => page[s][i] <= C[i - 1]

\* The total has the messages, and the posts that are yet to be counted as such.
Timed == {h \in Handlers : post[h].ok /\ Stage(h) \in {"bucket", "inc", "messages"}}
MessagesTimed == metric[Messages] + Cardinality(Timed) <= metric[Total]

PagesBelow ==
    \A s \in Scrapers : LET p == page[s] IN
        /\ Len(p) >= 1 => p[1] <= metric[Messages]
        /\ Len(p) >= Inf => p[Inf] <= metric[Total]
        /\ Len(p) >= Count => p[Count] <= metric[Total]

Consistent ==
    /\ SumFirst /\ (\E C : Cumulated(C)) /\ MessagesTimed /\ PagesBelow
    /\ PageConsistent

-----------------------------------------------------------------------------
(* The numbers.                                                            *)

LEMMA Numbers ==
    /\ Messages # Sum /\ Messages # Total /\ Sum # Total
    /\ \A b : /\ Bucket(b) # Messages /\ Bucket(b) # Sum /\ Bucket(b) # Total
              /\ \A c : Bucket(b) = Bucket(c) => b = c
    /\ {Messages, Sum, Total} \subseteq Keys
    /\ \A b \in 1..Bounds : Bucket(b) \in Keys
BY DEF Messages, Sum, Total, Bucket, Keys

\* The lists of observe, by their first number.
LEMMA Lists ==
    ASSUME NEW b \in 1..(Bounds + 1), NEW q \in Left(b)
    PROVE  /\ q \in Seq(Keys) /\ q # <<>> /\ q # <<Messages>>
           /\ \/ b <= Bounds /\ q = <<Sum, Total, Bucket(b)>>
              \/ b <= Bounds /\ q = <<Total, Bucket(b)>>
              \/ b <= Bounds /\ q = <<Bucket(b)>>
              \/ b > Bounds /\ q = <<Sum, Total>>
              \/ b > Bounds /\ q = <<Total>>
<1>1. Bounds \in Nat /\ Bounds # 0
  BY LimitsAssumption
<1>2. \/ b <= Bounds /\ q = <<Sum, Total, Bucket(b)>>
      \/ b <= Bounds /\ q = <<Total, Bucket(b)>>
      \/ b <= Bounds /\ q = <<Bucket(b)>>
      \/ b > Bounds /\ q = <<Sum, Total>>
      \/ b > Bounds /\ q = <<Total>>
  BY <1>1 DEF Left
<1>3. b <= Bounds => Bucket(b) \in Keys
  BY <1>1, Numbers
<1>4. Sum \in Keys /\ Total \in Keys
  BY Numbers
<1>5. /\ b <= Bounds => /\ <<Sum, Total, Bucket(b)>> \in Seq(Keys)
                        /\ <<Total, Bucket(b)>> \in Seq(Keys)
                        /\ <<Bucket(b)>> \in Seq(Keys)
      /\ <<Sum, Total>> \in Seq(Keys) /\ <<Total>> \in Seq(Keys)
  BY <1>3, <1>4
<1>6. Head(q) # Messages
  BY <1>2, Numbers
<1>7. q # <<Messages>> /\ q # <<>>
  <2>1. Head(<<Messages>>) = Messages
    OBVIOUS
  <2>2. Len(q) # 0
    BY <1>2
  <2> QED
    BY <1>6, <2>1, <2>2
<1>8. q \in Seq(Keys)
  BY <1>2, <1>5
<1> QED
  BY <1>2, <1>7, <1>8

LEMMA AdditionsOf ==
    ASSUME NEW h \in Handlers, post[h] \in Posts
    PROVE  /\ pc[h] = "inc" => Additions(h) = <<Messages>>
           /\ pc[h] # "inc" => /\ Additions(h) \in Left(post[h].bucket)
                               /\ Head(Additions(h)) = Sum
BY DEF Additions, Left

LEMMA WithType ==
    ASSUME NEW f \in [Lines -> Nat], NEW p \in Posts
    PROVE  With(f, p) \in [Lines -> Nat]
BY LimitsAssumption DEF With, Posts, Lines, SumLine

-----------------------------------------------------------------------------
LEMMA BaseInit == Init => Base
<1> SUFFICES ASSUME Init PROVE Base
  OBVIOUS
<1>1. [bucket |-> 1, ok |-> TRUE] \in Posts
  BY LimitsAssumption DEF Posts
<1>2. (CHOOSE p \in Posts : TRUE) \in Posts
  BY <1>1
<1>3. Nothing \in [Lines -> Nat]
  BY DEF Nothing
<1>4. TypeOK
  BY <1>2, <1>3, LimitsAssumption DEF Init, TypeOK, SumLine
<1> QED
  BY <1>4, ThreadsAssumption DEF Init, Base, HandlerOK, Changing

-----------------------------------------------------------------------------
(* The steps of handlers, by their stages.                                 *)

\* What h is about to do, and has left when it has done it.
Place(h) ==
    LET b == post[h].bucket IN
    \/ Stage(h) = "messages" /\ todo[h] = <<Messages>> /\ post[h].ok /\ lock["inc"] = h
    \/ /\ lock["observe"] = h /\ lock["inc"] # h
       /\ \/ /\ Stage(h) = "sum" /\ Head(todo[h]) = Sum /\ Len(todo[h]) # 1
             /\ Tail(todo[h]) \in Left(b) /\ Head(Tail(todo[h])) = Total
          \/ /\ Stage(h) = "total" /\ Head(todo[h]) = Total
             /\ IF b <= Bounds THEN Len(todo[h]) # 1 /\ Tail(todo[h]) = <<Bucket(b)>>
                               ELSE Len(todo[h]) = 1
          \/ Stage(h) = "bucket" /\ b <= Bounds /\ todo[h] = <<Bucket(b)>>

LEMMA Stages ==
    ASSUME Base, NEW h \in Handlers
    PROVE  /\ ~Changing(h) => Stage(h) = pc[h] /\ Stage(h) \in {"idle", "observe", "inc"}
           /\ Changing(h) => Place(h)
<1> DEFINE b == post[h].bucket
           q == todo[h]
<1>1. HandlerOK(h) /\ post[h] \in Posts /\ b \in 1..(Bounds + 1) /\ Bounds \in Nat
  BY LimitsAssumption DEF Base, TypeOK, Posts
<1>2. ~Changing(h) => Stage(h) = pc[h] /\ Stage(h) \in {"idle", "observe", "inc"}
  BY DEF Stage, Changing, Base, TypeOK
<1>3. ASSUME Changing(h), q = <<Messages>> PROVE Place(h)
  BY <1>1, <1>3 DEF Place, HandlerOK, Stage, Left
<1>4. ASSUME Changing(h), q # <<Messages>> PROVE Place(h)
  <2>1. q \in Left(b) /\ lock["observe"] = h /\ lock["inc"] # h
    BY <1>1, <1>4 DEF HandlerOK
  <2>2. \/ b <= Bounds /\ q = <<Sum, Total, Bucket(b)>>
        \/ b <= Bounds /\ q = <<Total, Bucket(b)>>
        \/ b <= Bounds /\ q = <<Bucket(b)>>
        \/ b > Bounds /\ q = <<Sum, Total>>
        \/ b > Bounds /\ q = <<Total>>
    BY <1>1, <2>1, Lists
  <2>3. CASE b <= Bounds /\ q = <<Sum, Total, Bucket(b)>>
    <3>1. Head(q) = Sum /\ Tail(q) = <<Total, Bucket(b)>> /\ Len(q) = 3
      BY <2>3
    <3>2. Tail(q) \in Left(b) /\ Head(Tail(q)) = Total
      BY <2>3, <3>1 DEF Left
    <3> QED
      BY <1>4, <2>1, <3>1, <3>2, Numbers DEF Place, Stage
  <2>4. CASE b <= Bounds /\ q = <<Total, Bucket(b)>>
    <3>1. Head(q) = Total /\ Tail(q) = <<Bucket(b)>> /\ Len(q) = 2
      BY <2>4
    <3> QED
      BY <1>4, <2>1, <2>4, <3>1, Numbers DEF Place, Stage
  <2>5. CASE b <= Bounds /\ q = <<Bucket(b)>>
    <3>1. Head(q) = Bucket(b)
      BY <2>5
    <3> QED
      BY <1>4, <2>1, <2>5, <3>1, Numbers DEF Place, Stage
  <2>6. CASE b > Bounds /\ q = <<Sum, Total>>
    <3>1. Head(q) = Sum /\ Tail(q) = <<Total>> /\ Len(q) = 2
      BY <2>6
    <3>2. Tail(q) \in Left(b) /\ Head(Tail(q)) = Total
      BY <1>1, <2>6, <3>1 DEF Left
    <3> QED
      BY <1>4, <2>1, <3>1, <3>2, Numbers DEF Place, Stage
  <2>7. CASE b > Bounds /\ q = <<Total>>
    <3>1. Head(q) = Total /\ Len(q) = 1 /\ ~(b <= Bounds)
      BY <1>1, <2>7
    <3> QED
      BY <1>4, <2>1, <3>1, Numbers DEF Place, Stage
  <2> QED
    BY <2>2, <2>3, <2>4, <2>5, <2>6, <2>7
<1> QED
  BY <1>2, <1>3, <1>4

LEMMA Work ==
    ASSUME Base, NEW h \in Handlers, Changing(h)
    PROVE  todo[h] \in Seq(Keys) /\ todo[h] # <<>>
<1>1. post[h].bucket \in 1..(Bounds + 1) /\ HandlerOK(h) /\ todo[h] \in Seq(Keys)
  BY DEF TypeOK, Posts, Base
<1>2. todo[h] \in Left(post[h].bucket) \/ todo[h] = <<Messages>>
  BY <1>1 DEF HandlerOK
<1>3. todo[h] = <<Messages>> => Len(todo[h]) = 1
  OBVIOUS
<1> QED
  BY <1>1, <1>2, <1>3, Lists

\* Another handler is where it was.
LEMMA Others ==
    ASSUME Base, NEW h \in Handlers,
           EndPost(h) \/ Acquire(h) \/ Load(h) \/ Store(h)
    PROVE  \A g \in Handlers \ {h} :
               /\ pc'[g] = pc[g] /\ todo'[g] = todo[g] /\ post'[g] = post[g]
               /\ loaded'[g] = loaded[g] /\ Stage(g)' = Stage(g)
<1>1. \A g \in Handlers \ {h} :
          /\ pc'[g] = pc[g] /\ todo'[g] = todo[g] /\ post'[g] = post[g]
          /\ loaded'[g] = loaded[g]
  BY DEF Base, TypeOK, EndPost, Acquire, Load, Store, Goto
<1> QED
  BY <1>1 DEF Stage, Changing

LEMMA StoreEffect ==
    ASSUME Base, NEW h \in Handlers, Store(h)
    PROVE  LET b    == post[h].bucket
               next == IF post[h].ok THEN "inc" ELSE "idle"
           IN
           /\ post' = post
           /\ \/ /\ Stage(h) = "sum" /\ Stage(h)' = "total" /\ handled' = handled
                 /\ metric' = [metric EXCEPT ![Sum] = @ + b]
              \/ /\ Stage(h) = "total" /\ b <= Bounds /\ Stage(h)' = "bucket"
                 /\ metric' = [metric EXCEPT ![Total] = @ + 1] /\ handled' = handled
              \/ /\ Stage(h) = "total" /\ b > Bounds /\ Stage(h)' = next
                 /\ metric' = [metric EXCEPT ![Total] = @ + 1]
                 /\ handled' = IF post[h].ok THEN handled ELSE With(handled, post[h])
              \/ /\ Stage(h) = "bucket" /\ b <= Bounds /\ Stage(h)' = next
                 /\ metric' = [metric EXCEPT ![Bucket(b)] = @ + 1]
                 /\ handled' = IF post[h].ok THEN handled ELSE With(handled, post[h])
              \/ /\ Stage(h) = "messages" /\ post[h].ok /\ Stage(h)' = "idle"
                 /\ metric' = [metric EXCEPT ![Messages] = @ + 1]
                 /\ handled' = With(handled, post[h])
<1> DEFINE b == post[h].bucket
           k == Head(todo[h])
<1>1. /\ Place(h) /\ loaded[h] = metric[k] /\ post[h] \in Posts
      /\ b \in 1..(Bounds + 1) /\ Bounds \in Nat /\ pc \in [Handlers -> {"idle", "observe", "inc", "load", "store"}]
      /\ todo \in [Handlers -> Seq(Keys)]
  BY Stages, LimitsAssumption DEF Store, Changing, Base, TypeOK, HandlerOK, Posts
<1>2. /\ post' = post /\ todo'[h] = Tail(todo[h])
      /\ metric' = [metric EXCEPT ![k] = metric[k] + (IF k = Sum THEN b ELSE 1)]
  BY <1>1 DEF Store
<1>3. /\ Len(todo[h]) # 1 => pc'[h] = "load" /\ handled' = handled
      /\ Len(todo[h]) = 1 =>
            IF k = Messages \/ ~post[h].ok
            THEN pc'[h] = "idle" /\ handled' = With(handled, post[h])
            ELSE pc'[h] = "inc" /\ handled' = handled
  BY <1>1 DEF Store, Goto
<1>4. CASE Stage(h) = "messages"
  BY <1>1, <1>2, <1>3, <1>4, Numbers DEF Place, Stage, Changing
<1>5. CASE Stage(h) = "sum"
  <2>1. k = Sum /\ pc'[h] = "load" /\ Head(todo'[h]) = Total /\ handled' = handled
    BY <1>1, <1>2, <1>3, <1>5 DEF Place
  <2>2. Stage(h)' = "total"
    BY <2>1, Numbers DEF Stage, Changing
  <2> QED
    BY <1>2, <1>5, <2>1, <2>2
<1>6. CASE Stage(h) = "total" /\ b <= Bounds
  <2>1. k = Total /\ pc'[h] = "load" /\ todo'[h] = <<Bucket(b)>> /\ handled' = handled
    BY <1>1, <1>2, <1>3, <1>6 DEF Place
  <2>2. Stage(h)' = "bucket"
    BY <2>1, Numbers DEF Stage, Changing
  <2> QED
    BY <1>2, <1>6, <2>1, <2>2, Numbers
<1>7. CASE Stage(h) = "total" /\ ~(b <= Bounds)
  <2>1. k = Total /\ Len(todo[h]) = 1 /\ b > Bounds
    BY <1>1, <1>7 DEF Place
  <2> QED
    BY <1>2, <1>3, <1>7, <2>1, Numbers DEF Stage, Changing
<1>8. CASE Stage(h) = "bucket"
  <2>1. k = Bucket(b) /\ Len(todo[h]) = 1 /\ b <= Bounds
    <3>1. todo[h] = <<Bucket(b)>> /\ b <= Bounds
      BY <1>1, <1>8 DEF Place
    <3> QED
      BY <3>1
  <2>2. k # Sum /\ k # Messages /\ k # Total
    BY <2>1, Numbers
  <2>3. metric' = [metric EXCEPT ![Bucket(b)] = @ + 1]
    BY <1>2, <2>1, <2>2
  <2>4. /\ Stage(h)' = (IF post[h].ok THEN "inc" ELSE "idle")
        /\ handled' = IF post[h].ok THEN handled ELSE With(handled, post[h])
    BY <1>3, <2>1, <2>2 DEF Stage, Changing
  <2> QED
    BY <1>2, <1>8, <2>1, <2>3, <2>4
<1> QED
  BY <1>1, <1>4, <1>5, <1>6, <1>7, <1>8 DEF Place

LEMMA OtherEffects ==
    ASSUME Base, NEW h \in Handlers
    PROVE  /\ EndPost(h) => Stage(h) = "idle" /\ Stage(h)' = "observe"
           /\ Acquire(h) => \/ Stage(h) = "observe" /\ Stage(h)' = "sum"
                            \/ Stage(h) = "inc" /\ Stage(h)' = "messages"
           /\ Load(h) => Stage(h)' = Stage(h)
<1>1. /\ pc \in [Handlers -> {"idle", "observe", "inc", "load", "store"}]
      /\ todo \in [Handlers -> Seq(Keys)] /\ post[h] \in Posts
  BY DEF Base, TypeOK
<1>2. EndPost(h) => Stage(h) = "idle" /\ Stage(h)' = "observe"
  BY <1>1 DEF EndPost, Goto, Stage, Changing
<1>3. ASSUME Acquire(h), pc[h] = "inc" PROVE Stage(h) = "inc" /\ Stage(h)' = "messages"
  <2>1. pc'[h] = "load" /\ todo'[h] = <<Messages>>
    BY <1>1, <1>3, AdditionsOf DEF Acquire, Goto
  <2> QED
    BY <1>3, <2>1 DEF Stage, Changing
<1>4. ASSUME Acquire(h), pc[h] # "inc" PROVE Stage(h) = "observe" /\ Stage(h)' = "sum"
  <2>1. pc[h] = "observe" /\ pc'[h] = "load" /\ Head(todo'[h]) = Sum
    BY <1>1, <1>4, AdditionsOf DEF Acquire, Goto
  <2> QED
    BY <1>4, <2>1, Numbers DEF Stage, Changing
<1>5. Load(h) => Stage(h)' = Stage(h)
  BY <1>1 DEF Load, Goto, Stage, Changing
<1> QED
  BY <1>2, <1>3, <1>4, <1>5

-----------------------------------------------------------------------------
(* Types, and locks.                                                       *)

LEMMA TypeStep ==
    ASSUME Base, [Next]_vars
    PROVE  TypeOK'
<1>1. TypeOK /\ Bounds \in Nat /\ Bounds # 0
  BY LimitsAssumption DEF Base
<1>2. ASSUME NEW h \in Handlers, EndPost(h) PROVE TypeOK'
  <2>1. begun' \in [Lines -> Nat]
    <3>1. begun \in [Lines -> Nat] /\ \E p \in Posts : begun' = With(begun, p)
      BY <1>1, <1>2 DEF EndPost, TypeOK
    <3> QED
      BY <3>1, WithType
  <2> QED
    BY <1>1, <1>2, <2>1 DEF EndPost, TypeOK, Goto
<1>3. ASSUME NEW h \in Handlers, Acquire(h) PROVE TypeOK'
  <2>1. Additions(h) \in Seq(Keys)
    <3>1. post[h] \in Posts /\ post[h].bucket \in 1..(Bounds + 1)
      BY <1>1 DEF TypeOK, Posts
    <3>2. <<Messages>> \in Seq(Keys)
      BY Numbers
    <3> QED
      BY <3>1, <3>2, AdditionsOf, Lists
  <2> QED
    BY <1>1, <1>3, <2>1 DEF Acquire, TypeOK, Goto
<1>4. ASSUME NEW h \in Handlers, Load(h) PROVE TypeOK'
  <2>1. Head(todo[h]) \in Keys
    <3>1. todo[h] \in Seq(Keys) /\ todo[h] # <<>>
      BY <1>4, Work DEF Load, Changing
    <3> QED
      BY <3>1
  <2> QED
    BY <1>1, <1>4, <2>1 DEF Load, TypeOK, Goto
<1>5. ASSUME NEW h \in Handlers, Store(h) PROVE TypeOK'
  <2> DEFINE k == Head(todo[h])
  <2>1. todo[h] \in Seq(Keys) /\ todo[h] # <<>> /\ post[h] \in Posts
        /\ post[h].bucket \in 1..(Bounds + 1)
    BY <1>1, <1>5, Work DEF Store, Changing, TypeOK, Posts
  <2>2. Tail(todo[h]) \in Seq(Keys)
    BY <2>1
  <2>3. handled' \in [Lines -> Nat]
    BY <1>1, <1>5, <2>1, WithType DEF Store, TypeOK
  <2>4. metric' \in [Keys -> Nat]
    BY <1>1, <1>5, <2>1 DEF Store, TypeOK
  <2>5. lock' \in [{"observe", "inc"} -> Handlers \cup {NoOne}]
    BY <1>1, <1>5 DEF Store, TypeOK
  <2>6. pc' \in [Handlers -> {"idle", "observe", "inc", "load", "store"}]
    BY <1>1, <1>5 DEF Store, TypeOK, Goto
  <2>7. todo' \in [Handlers -> Seq(Keys)]
    BY <1>1, <1>5, <2>2 DEF Store, TypeOK
  <2> QED
    BY <1>1, <1>5, <2>3, <2>4, <2>5, <2>6, <2>7 DEF Store, TypeOK
<1>6. ASSUME NEW s \in Scrapers, BeginPage(s) PROVE TypeOK'
  <2>1. metric[Messages] \in Nat
    BY <1>1, Numbers DEF TypeOK
  <2>2. <<metric[Messages]>> \in Seq(Nat) /\ Len(<<metric[Messages]>>) <= SumLine
    BY <1>1, <2>1 DEF SumLine
  <2> QED
    BY <1>1, <1>6, <2>2, LimitsAssumption DEF BeginPage, TypeOK
<1>7. ASSUME NEW s \in Scrapers, ReadLine(s) PROVE TypeOK'
  <2>1. page[s] \in Seq(Nat) /\ Len(page[s]) \in 1..Count
    BY <1>1, <1>7 DEF TypeOK, ReadLine
  <2>2. LineOf(page[s]) \in Nat
    <3> DEFINE p == page[s]
               i == Len(p) + 1
    <3>1. metric \in [Keys -> Nat] /\ i \in 2..SumLine
      BY <1>1, <2>1 DEF TypeOK, Count, SumLine
    <3>2. CASE i = 2
      BY <1>1, <3>1, <3>2, Numbers DEF LineOf
    <3>3. CASE i \in 3..(Inf - 1)
      <4>1. i - 1 \in 1..Bounds /\ p[i - 1] \in Nat /\ i # 2 /\ i # SumLine
        BY <1>1, <2>1, <3>3 DEF Inf, SumLine
      <4>2. metric[Bucket(i - 1)] \in Nat
        BY <3>1, <4>1, Numbers
      <4>3. LineOf(p) = p[i - 1] + metric[Bucket(i - 1)]
        BY <3>3, <4>1 DEF LineOf
      <4> QED
        BY <4>1, <4>2, <4>3
    <3>4. CASE i # 2 /\ i \notin 3..(Inf - 1)
      BY <3>1, <3>4, Numbers DEF LineOf
    <3> QED
      BY <3>2, <3>3, <3>4
  <2>3. Append(page[s], LineOf(page[s])) \in Seq(Nat)
        /\ Len(Append(page[s], LineOf(page[s]))) <= SumLine
    BY <1>1, <2>1, <2>2 DEF Count, SumLine
  <2> QED
    BY <1>1, <1>7, <2>3 DEF ReadLine, TypeOK
<1>8. CASE UNCHANGED vars
  BY <1>1, <1>8 DEF vars, TypeOK
<1> QED
  BY <1>2, <1>3, <1>4, <1>5, <1>6, <1>7, <1>8 DEF Next

LEMMA Kept ==
    ASSUME NEW g \in Handlers, HandlerOK(g), pc'[g] = pc[g], todo'[g] = todo[g],
           post'[g] = post[g], loaded'[g] = loaded[g],
           Changing(g) => metric'[Head(todo[g])] = metric[Head(todo[g])],
           lock'["inc"] = g <=> lock["inc"] = g,
           lock'["observe"] = g <=> lock["observe"] = g
    PROVE  HandlerOK(g)'
BY DEF HandlerOK, Changing

LEMMA BaseStep ==
    ASSUME Base, [Next]_vars
    PROVE  Base'
<1>1. TypeOK /\ TypeOK' /\ \A h \in Handlers : HandlerOK(h)
  BY TypeStep DEF Base
<1>2. ASSUME UNCHANGED <<metric, lock, pc, post, todo, loaded>>
      PROVE  \A h \in Handlers : HandlerOK(h)'
  BY <1>1, <1>2, Kept
<1>3. ASSUME NEW h \in Handlers, EndPost(h) PROVE \A g \in Handlers : HandlerOK(g)'
  <2>1. ASSUME NEW g \in Handlers, g # h PROVE HandlerOK(g)'
    <3>1. lock' = lock /\ metric' = metric
      BY <1>3 DEF EndPost
    <3> QED
      BY <1>1, <1>3, <2>1, <3>1, Others, Kept
  <2>2. HandlerOK(h)'
    BY <1>1, <1>3 DEF EndPost, HandlerOK, Changing, TypeOK, Goto
  <2> QED
    BY <2>1, <2>2
<1>4. ASSUME NEW h \in Handlers, Acquire(h) PROVE \A g \in Handlers : HandlerOK(g)'
  <2>1. ASSUME NEW g \in Handlers, g # h PROVE HandlerOK(g)'
    <3>1. \A l \in {"observe", "inc"} : lock'[l] = g <=> lock[l] = g
      BY <1>1, <1>4, <2>1, ThreadsAssumption DEF Acquire, TypeOK
    <3>2. metric' = metric
      BY <1>4 DEF Acquire
    <3> QED
      BY <1>1, <1>4, <2>1, <3>1, <3>2, Others, Kept
  <2>2. HandlerOK(h)'
    <3>1. /\ pc'[h] = "load" /\ todo'[h] = Additions(h) /\ post' = post
          /\ lock'[pc[h]] = h /\ post[h] \in Posts /\ pc[h] \in {"observe", "inc"}
          /\ post[h].bucket \in 1..(Bounds + 1)
          /\ \A l \in {"observe", "inc"} : l # pc[h] => lock'[l] = lock[l] /\ lock[l] # h
      BY <1>1, <1>4 DEF Acquire, TypeOK, Goto, HandlerOK, Changing, Posts
    <3>2. CASE pc[h] = "inc"
      BY <1>1, <3>1, <3>2, AdditionsOf DEF HandlerOK, Changing
    <3>3. CASE pc[h] = "observe"
      <4>1. todo'[h] \in Left(post[h].bucket) /\ todo'[h] # <<Messages>>
        BY <3>1, <3>3, AdditionsOf, Lists
      <4> QED
        BY <3>1, <3>3, <4>1 DEF HandlerOK, Changing
    <3> QED
      BY <3>1, <3>2, <3>3
  <2> QED
    BY <2>1, <2>2
<1>5. ASSUME NEW h \in Handlers, Load(h) PROVE \A g \in Handlers : HandlerOK(g)'
  <2>1. ASSUME NEW g \in Handlers, g # h PROVE HandlerOK(g)'
    <3>1. lock' = lock /\ metric' = metric
      BY <1>5 DEF Load
    <3> QED
      BY <1>1, <1>5, <2>1, <3>1, Others, Kept
  <2>2. HandlerOK(h)'
    BY <1>1, <1>5 DEF Load, HandlerOK, Changing, TypeOK, Goto
  <2> QED
    BY <2>1, <2>2
<1>6. ASSUME NEW h \in Handlers, Store(h) PROVE \A g \in Handlers : HandlerOK(g)'
  <2> DEFINE k == Head(todo[h])
             b == post[h].bucket
  <2>1. /\ Changing(h) /\ Place(h) /\ post' = post /\ post[h] \in Posts
        /\ b \in 1..(Bounds + 1) /\ todo'[h] = Tail(todo[h])
        /\ \A x \in Keys \ {k} : metric'[x] = metric[x]
    BY <1>1, <1>6, Stages DEF Store, Changing, TypeOK, Posts
  <2>2. \A l \in {"observe", "inc"}, g \in Handlers \ {h} : lock'[l] = g <=> lock[l] = g
    BY <1>1, <1>6, ThreadsAssumption DEF Store, TypeOK
  <2>3. ASSUME NEW g \in Handlers, g # h PROVE HandlerOK(g)'
    <3>1. /\ pc'[g] = pc[g] /\ todo'[g] = todo[g] /\ post'[g] = post[g]
          /\ loaded'[g] = loaded[g]
      BY <1>6, <2>3, Others
    <3>2. ASSUME Changing(g) PROVE metric'[Head(todo[g])] = metric[Head(todo[g])]
      <4>1. Place(g) /\ todo[g] \in Seq(Keys) /\ todo[g] # <<>>
        BY <3>2, Stages, Work
      <4>2. Head(todo[g]) \in Keys
        BY <4>1
      <4>3. Stage(g) = "messages" <=> Head(todo[g]) = Messages
        BY <3>2 DEF Stage
      <4>4. Stage(h) = "messages" <=> k = Messages
        BY <2>1 DEF Stage
      <4>5. Stage(g) = "messages" <=> Stage(h) # "messages"
        BY <2>1, <2>3, <4>1 DEF Place
      <4> QED
        BY <2>1, <4>2, <4>3, <4>4, <4>5
    <3>3. lock'["inc"] = g <=> lock["inc"] = g
      BY <2>2, <2>3
    <3>4. lock'["observe"] = g <=> lock["observe"] = g
      BY <2>2, <2>3
    <3> QED
      BY <1>1, <3>1, <3>2, <3>3, <3>4, Kept
  <2>4. HandlerOK(h)'
    <3>1. CASE Len(todo[h]) = 1
      <4>1. lock'["inc"] # h /\ lock'["observe"] # h
        BY <1>1, <1>6, <3>1, ThreadsAssumption DEF Store, TypeOK
      <4>2. pc'[h] \in {"idle", "inc"} /\ (pc'[h] = "inc" => post[h].ok)
        BY <1>1, <1>6, <3>1 DEF Store, TypeOK, Goto
      <4> QED
        BY <2>1, <4>1, <4>2 DEF HandlerOK, Changing
    <3>2. CASE Len(todo[h]) # 1
      <4>1. lock' = lock /\ pc'[h] = "load"
        BY <1>1, <1>6, <3>2 DEF Store, TypeOK, Goto
      <4>2. /\ lock["observe"] = h /\ lock["inc"] # h
            /\ todo'[h] \in Left(b)
        <5>1. CASE Stage(h) = "messages"
          <6>1. Len(<<Messages>>) = 1
            OBVIOUS
          <6> QED
            BY <2>1, <3>2, <5>1, <6>1 DEF Place
        <5>2. CASE Stage(h) = "sum"
          BY <2>1, <5>2 DEF Place
        <5>3. CASE Stage(h) = "total"
          BY <2>1, <3>2, <5>3 DEF Place, Left
        <5>4. CASE Stage(h) = "bucket"
          <6>1. Len(<<Bucket(b)>>) = 1
            OBVIOUS
          <6> QED
            BY <2>1, <3>2, <5>4, <6>1 DEF Place
        <5> QED
          BY <2>1, <5>1, <5>2, <5>3, <5>4 DEF Place
      <4>3. todo'[h] # <<Messages>>
        BY <2>1, <4>2, Lists
      <4> QED
        BY <2>1, <4>1, <4>2, <4>3 DEF HandlerOK, Changing
    <3> QED
      BY <3>1, <3>2
  <2> QED
    BY <2>3, <2>4
<1>7. ASSUME NEW s \in Scrapers, BeginPage(s) \/ ReadLine(s)
      PROVE  \A h \in Handlers : HandlerOK(h)'
  BY <1>2, <1>7 DEF BeginPage, ReadLine
<1>8. ASSUME UNCHANGED vars PROVE \A h \in Handlers : HandlerOK(h)'
  BY <1>2, <1>8 DEF vars
<1>9. \A h \in Handlers : HandlerOK(h)'
  BY <1>3, <1>4, <1>5, <1>6, <1>7, <1>8 DEF Next
<1> QED
  BY <1>1, <1>9 DEF Base

LEMMA BaseAlways == Spec => []Base
<1>1. Base /\ [Next]_vars => Base'
  BY BaseStep
<1> QED
  BY <1>1, BaseInit, PTL DEF Spec

\* Type correctness of the metrics, for any threads, buckets and posts.
THEOREM TypeCorrect == Spec => []TypeOK
<1>1. Base => TypeOK
  BY DEF Base
<1> QED
  BY <1>1, BaseAlways, PTL

-----------------------------------------------------------------------------
(* A page is consistent.                                                   *)

\* A number changes only by a Store, and grows by it.
LEMMA NumbersGrow ==
    ASSUME Base, [Next]_vars
    PROVE  /\ metric' = metric \/ \E h \in Handlers : Store(h)
           /\ \A k \in Keys : metric[k] \in Nat /\ metric'[k] \in Nat /\ metric[k] <= metric'[k]
<1>1. metric' = metric \/ \E h \in Handlers : Store(h)
  BY DEF Next, EndPost, Acquire, Load, BeginPage, ReadLine, vars
<1>2. metric \in [Keys -> Nat] /\ metric' \in [Keys -> Nat]
  BY TypeStep DEF Base, TypeOK
<1>3. ASSUME NEW h \in Handlers, Store(h) PROVE \A k \in Keys : metric[k] <= metric'[k]
  <2>1. post[h].bucket \in Nat
    BY LimitsAssumption DEF Base, TypeOK, Posts
  <2> QED
    BY <1>2, <1>3, <2>1, StoreEffect
<1> QED
  BY <1>1, <1>2, <1>3

\* Only the handler that stores, and that ended a post or took a lock, is at
\* another stage after the step.
LEMMA StagesStep ==
    ASSUME Base, [Next]_vars, ~\E h \in Handlers : Store(h)
    PROVE  \/ /\ \A g \in Handlers : Stage(g)' = Stage(g) /\ post' = post
           \/ \E h \in Handlers :
                 /\ \/ /\ Stage(h) = "idle" /\ Stage(h)' = "observe" /\ EndPost(h)
                    \/ /\ post' = post
                       /\ \/ Stage(h) = "observe" /\ Stage(h)' = "sum"
                          \/ Stage(h) = "inc" /\ Stage(h)' = "messages"
                 /\ \A g \in Handlers \ {h} :
                       Stage(g)' = Stage(g) /\ post'[g] = post[g]
<1>1. ASSUME NEW h \in Handlers, EndPost(h) \/ Acquire(h)
      PROVE  /\ \/ /\ Stage(h) = "idle" /\ Stage(h)' = "observe" /\ EndPost(h)
                \/ /\ post' = post
                   /\ \/ Stage(h) = "observe" /\ Stage(h)' = "sum"
                      \/ Stage(h) = "inc" /\ Stage(h)' = "messages"
             /\ \A g \in Handlers \ {h} : Stage(g)' = Stage(g) /\ post'[g] = post[g]
  <2>1. Acquire(h) => post' = post
    BY DEF Acquire
  <2> QED
    BY <1>1, <2>1, OtherEffects, Others
<1>2. ASSUME NEW h \in Handlers, Load(h)
      PROVE  \A g \in Handlers : Stage(g)' = Stage(g) /\ post' = post
  <2>1. post' = post
    BY <1>2 DEF Load
  <2> QED
    BY <1>2, <2>1, OtherEffects, Others
<1>3. ASSUME UNCHANGED <<pc, post, todo>>
      PROVE  \A g \in Handlers : Stage(g)' = Stage(g) /\ post' = post
  BY <1>3 DEF Stage, Changing
<1>4. ASSUME NEW s \in Scrapers, BeginPage(s) \/ ReadLine(s)
      PROVE  UNCHANGED <<pc, post, todo>>
  BY <1>4 DEF BeginPage, ReadLine
<1>5. UNCHANGED vars => UNCHANGED <<pc, post, todo>>
  BY DEF vars
<1> QED
  BY <1>1, <1>2, <1>3, <1>4, <1>5 DEF Next

\* Two handlers do not change the histogram at once.
LEMMA OneObserver ==
    ASSUME Base, NEW g \in Handlers, NEW h \in Handlers,
           Stage(g) \in {"sum", "total", "bucket"}, Stage(h) \in {"sum", "total", "bucket"}
    PROVE  g = h
<1>1. Changing(g) /\ Changing(h)
  BY Stages
<1>2. Place(g) /\ Place(h)
  BY <1>1, Stages
<1> QED
  BY <1>2 DEF Place

LEMMA SumStep ==
    ASSUME Base, SumFirst, [Next]_vars
    PROVE  SumFirst'
<1> USE DEF SumFirst
<1>1. /\ Total \in Keys /\ Sum \in Keys /\ Total # Sum /\ metric \in [Keys -> Nat]
      /\ Messages \in Keys /\ Messages # Total /\ Messages # Sum
  BY Numbers DEF Base, TypeOK
<1>2. CASE ~\E h \in Handlers : Store(h)
  <2>1. metric' = metric
    BY <1>2, NumbersGrow
  <2>2. \A g \in Handlers : Stage(g)' = "total" => Stage(g) = "total"
    BY <1>2, StagesStep
  <2> QED
    BY <2>1, <2>2
<1>3. ASSUME NEW h \in Handlers, Store(h) PROVE SumFirst'
  <2> DEFINE b == post[h].bucket
  <2>1. b \in Nat /\ b >= 1 /\ \A g \in Handlers \ {h} : Stage(g)' = Stage(g)
    BY <1>3, Others, LimitsAssumption DEF Base, TypeOK, Posts
  <2>2. CASE Stage(h) = "sum"
    <3>1. Stage(h)' = "total" /\ metric' = [metric EXCEPT ![Sum] = @ + b]
      BY <1>3, <2>2, StoreEffect
    <3> QED
      BY <1>1, <2>1, <3>1
  <2>3. CASE Stage(h) = "total"
    <3>1. Stage(h)' # "total" /\ metric' = [metric EXCEPT ![Total] = @ + 1]
      BY <1>3, <2>3, StoreEffect
    <3>2. \A g \in Handlers : Stage(g)' # "total"
      BY <2>1, <2>3, <3>1, OneObserver
    <3> QED
      BY <1>1, <2>3, <3>1, <3>2
  <2>4. CASE Stage(h) \notin {"sum", "total"}
    <3>1. Stage(h)' # "total" /\ metric'[Total] = metric[Total] /\ metric'[Sum] = metric[Sum]
      <4>1. Bucket(b) # Sum /\ Bucket(b) # Total
        BY Numbers
      <4> QED
        BY <1>1, <1>3, <2>4, <4>1, StoreEffect
    <3> QED
      BY <1>1, <2>1, <3>1
  <2> QED
    BY <2>2, <2>3, <2>4
<1> QED
  BY <1>2, <1>3

\* What a scraper reads next.
LEMMA PageStep ==
    ASSUME Base, [Next]_vars, NEW s \in Scrapers
    PROVE  LET p == page[s] IN
           /\ p \in Seq(Nat) /\ Len(p) \in 0..SumLine /\ page'[s] \in Seq(Nat)
           /\ \/ page'[s] = p /\ floor'[s] = floor[s]
              \/ /\ page'[s] = <<metric[Messages]>> /\ floor'[s] = handled
                 /\ metric' = metric /\ handled' = handled /\ begun' = begun
              \/ /\ Len(p) \in 1..Count /\ floor'[s] = floor[s]
                 /\ metric' = metric /\ handled' = handled /\ begun' = begun
                 /\ page'[s] = Append(p, LineOf(p)) /\ LineOf(p) \in Nat
                 /\ Len(p) + 1 = 2 => LineOf(p) = metric[Bucket(1)]
                 /\ Len(p) + 1 \in 3..(Inf - 1) =>
                        LineOf(p) = p[Len(p)] + metric[Bucket(Len(p))]
                 /\ Len(p) + 1 \in {Inf, Count} => LineOf(p) = metric[Total]
                 /\ Len(p) + 1 = SumLine => LineOf(p) = metric[Sum]
<1> DEFINE p == page[s]
           i == Len(p) + 1
<1>1. TypeOK /\ TypeOK' /\ Bounds \in Nat /\ Bounds # 0
  BY TypeStep, LimitsAssumption DEF Base
<1>2. p \in Seq(Nat) /\ Len(p) \in 0..SumLine /\ page'[s] \in Seq(Nat)
  BY <1>1 DEF TypeOK, SumLine
<1>3. ASSUME NEW t \in Scrapers, BeginPage(t)
      PROVE  \/ page'[s] = p /\ floor'[s] = floor[s]
             \/ /\ page'[s] = <<metric[Messages]>> /\ floor'[s] = handled
                /\ metric' = metric /\ handled' = handled /\ begun' = begun
  BY <1>1, <1>3 DEF BeginPage, TypeOK
<1>4. ASSUME NEW t \in Scrapers, ReadLine(t), page'[s] # p
      PROVE  /\ Len(p) \in 1..Count /\ floor'[s] = floor[s]
             /\ metric' = metric /\ handled' = handled /\ begun' = begun
             /\ page'[s] = Append(p, LineOf(p)) /\ LineOf(p) \in Nat
             /\ i = 2 => LineOf(p) = metric[Bucket(1)]
             /\ i \in 3..(Inf - 1) => LineOf(p) = p[Len(p)] + metric[Bucket(Len(p))]
             /\ i \in {Inf, Count} => LineOf(p) = metric[Total]
             /\ i = SumLine => LineOf(p) = metric[Sum]
  <2>1. t = s /\ Len(p) \in 1..Count /\ floor' = floor
        /\ metric' = metric /\ handled' = handled /\ begun' = begun
        /\ page'[s] = Append(p, LineOf(p))
    BY <1>1, <1>4 DEF ReadLine, TypeOK
  <2>2. LineOf(p) \in Nat
    <3>1. LineOf(p) = page'[s][i] /\ Len(page'[s]) = i
      BY <1>2, <2>1
    <3> QED
      BY <1>2, <2>1, <3>1
  <2>3. i - 1 = Len(p) /\ i \in Nat
    BY <1>2
  <2>4. i = 2 => LineOf(p) = metric[Bucket(1)]
    BY <1>1 DEF LineOf, SumLine, Inf
  <2>5. i \in 3..(Inf - 1) => LineOf(p) = p[Len(p)] + metric[Bucket(Len(p))]
    BY <1>1, <2>3 DEF LineOf, SumLine, Inf
  <2>6. i \in {Inf, Count} => LineOf(p) = metric[Total]
    BY <1>1, <2>3 DEF LineOf, SumLine, Inf, Count
  <2>7. i = SumLine => LineOf(p) = metric[Sum]
    BY <1>1, <2>3 DEF LineOf, SumLine, Inf, Count
  <2> QED
    BY <2>1, <2>2, <2>4, <2>5, <2>6, <2>7
<1>5. ASSUME ~\E t \in Scrapers : BeginPage(t) \/ ReadLine(t)
      PROVE  page' = page /\ floor' = floor
  BY <1>5 DEF Next, EndPost, Acquire, Load, Store, vars
<1>6. ASSUME NEW t \in Scrapers, ReadLine(t) PROVE floor' = floor
  BY <1>6 DEF ReadLine
<1> QED
  BY <1>2, <1>3, <1>4, <1>5, <1>6

\* One number more, and the cumulated ones from it on.
LEMMA Raised ==
    ASSUME Bounds \in Nat, NEW b \in 1..Bounds, NEW C \in [0..Bounds -> Nat], C[0] = 0,
           NEW f \in [1..Bounds -> Nat], NEW e \in [1..Bounds -> Nat], e[b] = f[b] + 1,
           \A i \in 1..Bounds : i # b => e[i] = f[i], Sums(C, f)
    PROVE  \E D \in [0..Bounds -> Nat] :
               /\ D[0] = 0 /\ D[Bounds] = C[Bounds] + 1 /\ Sums(D, e)
               /\ \A i \in 0..Bounds : C[i] <= D[i]
<1> DEFINE D == [i \in 0..Bounds |-> IF i >= b THEN C[i] + 1 ELSE C[i]]
<1>1. /\ D \in [0..Bounds -> Nat] /\ 0 \in 0..Bounds /\ Bounds \in 0..Bounds
      /\ Bounds >= b /\ ~(0 >= b)
  OBVIOUS
<1>2. D[0] = 0 /\ D[Bounds] = C[Bounds] + 1
  BY <1>1
<1>3. \A i \in 0..Bounds : C[i] <= D[i]
  OBVIOUS
<1>4. ASSUME NEW i \in 1..Bounds PROVE D[i] = D[i - 1] + e[i]
  <2>1. i - 1 \in 0..Bounds /\ i \in 0..Bounds /\ C[i - 1] \in Nat /\ f[i] \in Nat
    OBVIOUS
  <2>2. C[i] = C[i - 1] + f[i]
    BY DEF Sums
  <2>3. /\ D[i] = IF i >= b THEN C[i] + 1 ELSE C[i]
        /\ D[i - 1] = IF i - 1 >= b THEN C[i - 1] + 1 ELSE C[i - 1]
    BY <2>1
  <2> HIDE DEF D
  <2>4. CASE i = b
    BY <2>1, <2>2, <2>3, <2>4
  <2>5. CASE i # b
    <3>1. e[i] = f[i] /\ (i >= b <=> i - 1 >= b)
      BY <2>5
    <3> QED
      BY <2>1, <2>2, <2>3, <3>1
  <2> QED
    BY <2>4, <2>5
<1> QED
  BY <1>1, <1>2, <1>3, <1>4 DEF Sums

LEMMA CumulatedStep ==
    ASSUME Base, NEW C, Cumulated(C), [Next]_vars
    PROVE  \E D : Cumulated(D)'
<1>1. /\ Bounds \in Nat /\ Bounds # 0 /\ Total \in Keys /\ metric \in [Keys -> Nat]
      /\ metric' \in [Keys -> Nat] /\ \A i \in 1..Bounds : Bucket(i) \in Keys
      /\ Sum # Total /\ Messages # Total /\ Messages \in Keys /\ Sum \in Keys
  BY Numbers, TypeStep, LimitsAssumption DEF Base, TypeOK
<1>2. \A s \in Scrapers : page[s] \in Seq(Nat) /\ page'[s] \in Seq(Nat)
  BY PageStep
<1>3. CASE ~\E h \in Handlers : Store(h)
  <2>1. metric' = metric
    BY <1>3, NumbersGrow
  <2>2. \A g \in Handlers : Stage(g)' = "bucket" => Stage(g) = "bucket"
    BY <1>3, StagesStep
  <2>3. ASSUME NEW s \in Scrapers, NEW i \in 2..(Bounds + 1), i <= Len(page'[s])
        PROVE  page'[s][i] <= C[i - 1]
    <3> DEFINE p == page[s]
    <3>1. CASE page'[s] = p
      BY <2>3, <3>1 DEF Cumulated
    <3>2. CASE page'[s] = <<metric[Messages]>>
      BY <1>1, <2>3, <3>2
    <3>3. CASE page'[s] = Append(p, LineOf(p)) /\ Len(p) >= 1 /\ i <= Len(p)
      <4>1. i \in 1..Len(p)
        BY <1>1, <1>2, <3>3
      <4>2. page'[s][i] = p[i]
        BY <1>2, <3>3, <4>1
      <4>3. p[i] <= C[i - 1]
        BY <3>3 DEF Cumulated
      <4> QED
        BY <4>2, <4>3
    <3>4. CASE page'[s] = Append(p, LineOf(p)) /\ Len(p) >= 1 /\ i > Len(p) /\ page'[s] # p
      <4>1. i = Len(p) + 1 /\ page'[s][i] = LineOf(p) /\ Len(p) \in Nat
        BY <1>2, <2>3, <3>4
      <4>2. CASE i = 2
        <5>1. LineOf(p) = metric[Bucket(1)]
          BY <3>4, <4>1, <4>2, PageStep
        <5>2. C[1] = C[0] + metric[Bucket(1)] /\ C[0] = 0 /\ metric[Bucket(1)] \in Nat
          <6>1. 1 \in 1..Bounds /\ metric[Bucket(1)] \in Nat
            BY <1>1
          <6>2. Buckets[1] = metric[Bucket(1)]
            BY <6>1 DEF Buckets
          <6>3. C[1] = C[1 - 1] + Buckets[1] /\ C[0] = 0
            BY <6>1 DEF Cumulated, Sums
          <6> QED
            BY <6>1, <6>2, <6>3
        <5> QED
          BY <4>1, <4>2, <5>1, <5>2
      <4>3. CASE i # 2
        <5>1. i \in 3..(Inf - 1) /\ Len(p) \in 2..Bounds
          <6>1. Bounds \in Nat /\ Inf - 1 = Bounds + 1
            BY <1>1 DEF Inf
          <6>2. i \in 3..(Bounds + 1) /\ i = Len(p) + 1 /\ Len(p) \in Nat
            BY <4>1, <4>3, <6>1
          <6> QED
            BY <6>1, <6>2
        <5>2. PICK l \in 2..Bounds : l = Len(p)
          BY <5>1
        <5>3. LineOf(p) = p[l] + metric[Bucket(l)]
          <6>1. Len(p) + 1 \in 3..(Inf - 1) /\ page'[s] # p
            BY <3>4, <4>1, <5>1
          <6>2. page'[s] # <<metric[Messages]>>
            <7>1. Len(page'[s]) = Len(p) + 1 /\ Len(p) \in Nat
              BY <1>2, <3>4
            <7>2. Len(<<metric[Messages]>>) = 1
              OBVIOUS
            <7> QED
              BY <3>4, <7>1, <7>2
          <6> QED
            BY <5>2, <6>1, <6>2, PageStep
        <5>4. p[l] <= C[l - 1] /\ p[l] \in Nat
          <6>1. l \in 2..(Bounds + 1) /\ l <= Len(page[s]) /\ l \in 1..Len(page[s])
            BY <1>1, <5>2
          <6>2. page[s][l] <= C[l - 1]
            BY <6>1 DEF Cumulated
          <6>3. page[s][l] \in Nat
            BY <1>2, <6>1
          <6> QED
            BY <6>2, <6>3
        <5>5. C[l] = C[l - 1] + metric[Bucket(l)]
              /\ C[l - 1] \in Nat /\ metric[Bucket(l)] \in Nat
          <6>1. l \in 1..Bounds /\ l - 1 \in 0..Bounds
            BY <1>1
          <6> QED
            BY <1>1, <6>1 DEF Cumulated, Sums, Buckets
        <5> QED
          BY <4>1, <5>2, <5>3, <5>4, <5>5
      <4> QED
        BY <4>2, <4>3
    <3> QED
      BY <1>2, <2>3, <3>1, <3>2, <3>3, <3>4, PageStep
  <2>4. Cumulated(C)'
    BY <2>1, <2>2, <2>3 DEF Cumulated, Buckets
  <2> QED
    BY <2>4
<1>4. ASSUME NEW h \in Handlers, Store(h) PROVE \E D : Cumulated(D)'
  <2> DEFINE b == post[h].bucket
  <2>1. /\ \A g \in Handlers \ {h} : Stage(g)' = Stage(g)
        /\ page' = page /\ b \in 1..(Bounds + 1) /\ post[h] \in Posts
    BY <1>1, <1>4, Others DEF Base, TypeOK, Posts, Store
  <2>2. CASE Stage(h) # "bucket"
    <3>1. /\ metric'[Total] >= metric[Total]
          /\ \A i \in 1..Bounds : metric'[Bucket(i)] = metric[Bucket(i)]
          /\ Stage(h)' = "bucket" => metric'[Total] = metric[Total] + 1
      <4>1. \A i \in 1..Bounds : Bucket(i) # Total /\ Bucket(i) # Sum /\ Bucket(i) # Messages
        BY Numbers
      <4> QED
        BY <1>1, <1>4, <2>2, <4>1, StoreEffect
    <3>2. C[Bounds] \in Nat
      BY <1>1 DEF Cumulated
    <3>3. Buckets' = Buckets
      BY <3>1 DEF Buckets
    <3>4. Sums(C, Buckets)'
      BY <3>3 DEF Cumulated, Sums
    <3>5. /\ C[Bounds] <= metric[Total] /\ metric[Total] \in Nat /\ metric'[Total] \in Nat
          /\ \A g \in Handlers : Stage(g) = "bucket" => C[Bounds] + 1 <= metric[Total]
      BY <1>1 DEF Cumulated
    <3>6. /\ C[Bounds] <= metric'[Total]
          /\ \A g \in Handlers : Stage(g)' = "bucket" => C[Bounds] + 1 <= metric'[Total]
      BY <2>1, <3>1, <3>2, <3>5
    <3>7. Cumulated(C)'
      BY <2>1, <3>4, <3>6 DEF Cumulated
    <3> QED
      BY <3>7
  <2>3. CASE Stage(h) = "bucket"
    <3>1. /\ metric' = [metric EXCEPT ![Bucket(b)] = @ + 1] /\ b \in 1..Bounds
          /\ Stage(h)' # "bucket"
      BY <1>1, <1>4, <2>1, <2>3, StoreEffect
    <3>2. metric'[Total] = metric[Total] /\ metric'[Bucket(b)] = metric[Bucket(b)] + 1
          /\ \A i \in 1..Bounds : i # b => metric'[Bucket(i)] = metric[Bucket(i)]
      <4>1. Bucket(b) # Total /\ \A i : Bucket(i) = Bucket(b) => i = b
        BY Numbers
      <4> QED
        BY <1>1, <3>1, <4>1
    <3>3. /\ C \in [0..Bounds -> Nat] /\ C[0] = 0 /\ C[Bounds] + 1 <= metric[Total]
          /\ Sums(C, Buckets)
      BY <2>3 DEF Cumulated
    <3>4. /\ Buckets \in [1..Bounds -> Nat] /\ Buckets' \in [1..Bounds -> Nat]
          /\ Buckets'[b] = Buckets[b] + 1
          /\ \A i \in 1..Bounds : i # b => Buckets'[i] = Buckets[i]
      BY <1>1, <3>1, <3>2 DEF Buckets
    <3>5. PICK D \in [0..Bounds -> Nat] :
              /\ D[0] = 0 /\ D[Bounds] = C[Bounds] + 1 /\ Sums(D, Buckets')
              /\ \A i \in 0..Bounds : C[i] <= D[i]
      BY <1>1, <3>1, <3>3, <3>4, Raised
    <3>6. \A g \in Handlers : Stage(g)' # "bucket"
      BY <2>1, <2>3, <3>1, OneObserver
    <3>7. ASSUME NEW s \in Scrapers, NEW i \in 2..(Bounds + 1), i <= Len(page[s])
          PROVE  page[s][i] <= D[i - 1]
      <4>1. page[s][i] <= C[i - 1]
        BY <3>7, <2>3 DEF Cumulated
      <4>2. i - 1 \in 0..Bounds /\ i \in 1..Len(page[s])
        BY <1>1, <1>2, <3>7
      <4>3. C[i - 1] \in Nat /\ D[i - 1] \in Nat
        BY <3>3, <4>2
      <4>4. page[s][i] \in Nat
        BY <1>2, <4>2
      <4> QED
        BY <3>5, <4>1, <4>2, <4>3, <4>4
    <3>8. D[Bounds] <= metric'[Total]
      BY <3>2, <3>3, <3>5
    <3>9. Sums(D, Buckets)'
      BY <3>5 DEF Sums
    <3>10. Cumulated(D)'
      BY <2>1, <3>5, <3>6, <3>7, <3>8, <3>9 DEF Cumulated
    <3> QED
      BY <3>10
  <2> QED
    BY <2>2, <2>3
<1> QED
  BY <1>3, <1>4

\* A post is in the total before it is counted as a message.
LEMMA MessagesStep ==
    ASSUME Base, MessagesTimed, [Next]_vars
    PROVE  MessagesTimed'
<1>1. /\ Total \in Keys /\ Sum \in Keys /\ Messages \in Keys /\ metric \in [Keys -> Nat]
      /\ Total # Messages /\ Sum # Messages /\ Sum # Total
  BY Numbers DEF Base, TypeOK
<1>2. /\ Timed \subseteq Handlers /\ IsFiniteSet(Timed) /\ Cardinality(Timed) \in Nat
  <2>1. Timed \subseteq Handlers
    BY DEF Timed
  <2> QED
    BY <2>1, ThreadsAssumption, FS_Subset, FS_CardinalityType
<1>3. CASE ~\E h \in Handlers : Store(h)
  <2>1. metric' = metric
    BY <1>3, NumbersGrow
  <2>2. Timed' = Timed
    BY <1>3, StagesStep DEF Timed
  <2> QED
    BY <2>1, <2>2 DEF MessagesTimed
<1>4. ASSUME NEW h \in Handlers, Store(h) PROVE MessagesTimed'
  <2> DEFINE b == post[h].bucket
  <2>1. /\ \A g \in Handlers \ {h} : Stage(g)' = Stage(g)
        /\ post' = post
    BY <1>4, Others DEF Store
  <2>2. CASE Stage(h) = "total"
    <3>1. metric'[Total] = metric[Total] + 1 /\ metric'[Messages] = metric[Messages]
      BY <1>1, <1>4, <2>2, StoreEffect
    <3>2. Timed' = Timed \/ Timed' = Timed \cup {h}
      BY <2>1, <2>2 DEF Timed
    <3>3. Cardinality(Timed') <= Cardinality(Timed) + 1 /\ Cardinality(Timed') \in Nat
      <4>1. /\ IsFiniteSet(Timed \cup {h})
            /\ Cardinality(Timed \cup {h}) \in {Cardinality(Timed), Cardinality(Timed) + 1}
        BY <1>2, FS_AddElement
      <4> QED
        BY <1>2, <3>2, <4>1
    <3> QED
      BY <1>1, <1>2, <3>1, <3>3 DEF MessagesTimed
  <2>3. CASE Stage(h) = "messages"
    <3>1. /\ metric'[Total] = metric[Total] /\ metric'[Messages] = metric[Messages] + 1
          /\ post[h].ok /\ Stage(h)' = "idle"
      BY <1>1, <1>4, <2>3, StoreEffect
    <3>2. h \in Timed /\ Timed' = Timed \ {h}
      BY <2>1, <2>3, <3>1 DEF Timed
    <3>3. Cardinality(Timed') = Cardinality(Timed) - 1
      BY <1>2, <3>2, FS_RemoveElement
    <3> QED
      BY <1>1, <1>2, <3>1, <3>3 DEF MessagesTimed
  <2>4. CASE Stage(h) \notin {"total", "messages"}
    <3>1. Bucket(b) # Total /\ Bucket(b) # Messages
      BY Numbers
    <3>2. metric'[Total] = metric[Total] /\ metric'[Messages] = metric[Messages]
      BY <1>1, <1>4, <2>4, <3>1, StoreEffect
    <3>3. (post[h].ok /\ Stage(h)' \in {"bucket", "inc", "messages"})
              <=> (post[h].ok /\ Stage(h) \in {"bucket", "inc", "messages"})
      BY <1>4, <2>4, StoreEffect
    <3>4. Timed' = Timed
      BY <2>1, <3>3 DEF Timed
    <3> QED
      BY <3>2, <3>4 DEF MessagesTimed
  <2> QED
    BY <2>2, <2>3, <2>4
<1> QED
  BY <1>3, <1>4

LEMMA PagesStep ==
    ASSUME Base, SumFirst, NEW C, Cumulated(C), MessagesTimed, PagesBelow, PageConsistent,
           [Next]_vars
    PROVE  PagesBelow' /\ PageConsistent'
<1>1. /\ Total \in Keys /\ Sum \in Keys /\ Messages \in Keys
      /\ Bounds \in Nat /\ Bounds # 0
      /\ Inf = Bounds + 2 /\ Count = Bounds + 3 /\ SumLine = Bounds + 4
  BY Numbers, LimitsAssumption DEF Inf, Count, SumLine
<1>2. \A k \in Keys : metric[k] \in Nat /\ metric'[k] \in Nat /\ metric[k] <= metric'[k]
  BY NumbersGrow
<1>3. metric[Messages] <= metric[Total]
  <2>1. Cardinality(Timed) \in Nat
    <3>1. Timed \subseteq Handlers
      BY DEF Timed
    <3> QED
      BY <3>1, ThreadsAssumption, FS_Subset, FS_CardinalityType
  <2> QED
    BY <1>1, <1>2, <2>1 DEF MessagesTimed
<1>4. ASSUME NEW s \in Scrapers
      PROVE  LET p == page'[s] IN
             /\ Len(p) >= 1 => p[1] <= metric'[Messages]
             /\ Len(p) >= Inf => p[Inf] <= metric'[Total]
             /\ Len(p) >= Count => p[Count] <= metric'[Total]
             /\ \A i \in 2..(Len(p) - 1) : i < Count => p[i] <= p[i + 1]
             /\ Len(p) >= Count => p[1] <= p[Count]
             /\ Len(p) = SumLine => p[Count] <= p[SumLine]
  <2> DEFINE p == page[s]
             q == page'[s]
             n == Len(p)
  <2>1. /\ p \in Seq(Nat) /\ n \in Nat /\ q \in Seq(Nat) /\ \A i \in 1..n : p[i] \in Nat
    BY PageStep
  <2>2. /\ n >= 1 => p[1] <= metric[Messages]
        /\ n >= Inf => p[Inf] <= metric[Total]
        /\ n >= Count => p[Count] <= metric[Total]
        /\ \A i \in 2..(n - 1) : i < Count => p[i] <= p[i + 1]
        /\ n >= Count => p[1] <= p[Count]
        /\ n = SumLine => p[Count] <= p[SumLine]
    BY DEF PagesBelow, PageConsistent
  <2>3. /\ n >= 1 => p[1] <= metric'[Messages]
        /\ n >= Inf => p[Inf] <= metric'[Total]
        /\ n >= Count => p[Count] <= metric'[Total]
    <3>1. /\ n >= 1 => p[1] \in Nat
          /\ n >= Inf => p[Inf] \in Nat
          /\ n >= Count => p[Count] \in Nat
      BY <1>1, <2>1
    <3>2. /\ {metric[Total], metric[Messages], metric'[Total], metric'[Messages]} \subseteq Nat
          /\ metric[Total] <= metric'[Total] /\ metric[Messages] <= metric'[Messages]
      BY <1>1, <1>2
    <3> HIDE DEF p, n
    <3> QED
      BY <2>2, <3>1, <3>2
  <2>4. CASE q = p
    BY <2>2, <2>3, <2>4
  <2>5. CASE q = <<metric[Messages]>> /\ metric' = metric
    <3>1. Len(q) = 1 /\ q[1] = metric[Messages] /\ metric' = metric
      BY <2>5
    <3> QED
      BY <1>1, <1>2, <3>1
  <2>6. CASE /\ n \in 1..Count /\ metric' = metric /\ q = Append(p, LineOf(p))
             /\ LineOf(p) \in Nat
             /\ n + 1 = 2 => LineOf(p) = metric[Bucket(1)]
             /\ n + 1 \in 3..(Inf - 1) => LineOf(p) = p[n] + metric[Bucket(n)]
             /\ n + 1 \in {Inf, Count} => LineOf(p) = metric[Total]
             /\ n + 1 = SumLine => LineOf(p) = metric[Sum]
    <3>1. /\ Len(q) = n + 1 /\ q[n + 1] = LineOf(p) /\ \A i \in 1..n : q[i] = p[i]
          /\ n \in 1..Count /\ metric' = metric /\ LineOf(p) \in Nat
      BY <2>1, <2>6
    <3>2. /\ n + 1 \in {Inf, Count} => q[n + 1] = metric[Total]
          /\ n + 1 = SumLine => q[n + 1] = metric[Sum]
      BY <2>6, <3>1
    <3>3. n >= 2 /\ n < Count => p[n] <= q[n + 1]
      <4>1. CASE n \in 2..Bounds
        <5>1. metric[Bucket(n)] \in Nat /\ p[n] \in Nat
          BY <1>1, <1>2, <2>1, <4>1, Numbers
        <5>2. n + 1 \in 3..(Inf - 1)
          BY <1>1, <4>1
        <5> QED
          BY <2>6, <3>1, <5>1, <5>2
      <4>2. CASE n = Bounds + 1
        <5>1. p[n] <= C[Bounds] /\ C[Bounds] <= metric[Total] /\ C[Bounds] \in Nat
          BY <1>1, <4>2 DEF Cumulated
        <5> QED
          BY <1>1, <1>2, <2>1, <3>1, <3>2, <4>2, <5>1
      <4>3. CASE n = Inf
        BY <1>1, <2>2, <3>1, <3>2, <4>3
      <4> QED
        BY <1>1, <3>1, <4>1, <4>2, <4>3
    <3>4. \A i \in 2..(Len(q) - 1) : i < Count => q[i] <= q[i + 1]
      <4> SUFFICES ASSUME NEW i \in 2..n, i < Count PROVE q[i] <= q[i + 1]
        BY <2>1, <3>1
      <4>1. CASE i = n
        <5>1. n \in 1..n /\ n >= 2 /\ n < Count
          BY <2>1, <4>1
        <5>2. q[n] = p[n] /\ p[n] <= q[n + 1]
          BY <3>1, <3>3, <5>1
        <5> QED
          BY <4>1, <5>2
      <4>2. CASE i < n
        <5>1. i \in 2..(n - 1) /\ i \in 1..n /\ i + 1 \in 1..n
          BY <2>1, <4>2
        <5> QED
          BY <2>2, <3>1, <5>1
      <4> QED
        BY <2>1, <4>1, <4>2
    <3>5. q[1] <= metric[Messages] /\ q[1] = p[1] /\ p[1] \in Nat
      BY <1>1, <2>1, <2>2, <3>1
    <3>6. \A j \in {Inf, Count} : Len(q) >= j => q[j] <= metric[Total]
      <4> SUFFICES ASSUME NEW j \in {Inf, Count}, n + 1 >= j PROVE q[j] <= metric[Total]
        BY <3>1
      <4>1. CASE n + 1 = j
        <5>1. q[j] = metric[Total]
          BY <3>2, <4>1
        <5> QED
          BY <1>1, <1>2, <5>1
      <4>2. CASE n >= j
        <5>1. j \in 1..n
          BY <1>1, <2>1, <4>2
        <5>2. q[j] = p[j]
          BY <3>1, <5>1
        <5> QED
          BY <2>2, <4>2, <5>2
      <4> QED
        BY <1>1, <2>1, <4>1, <4>2
    <3>7. Len(q) >= Count => q[1] <= q[Count]
      <4>1. CASE n >= Count
        BY <1>1, <2>1, <2>2, <3>1, <4>1
      <4>2. CASE n + 1 = Count
        <5>1. q[Count] = metric[Total]
          BY <3>2, <4>2
        <5> QED
          BY <1>1, <1>2, <1>3, <3>5, <5>1
      <4> QED
        BY <1>1, <2>1, <3>1, <4>1, <4>2
    <3>8. Len(q) = SumLine => q[Count] <= q[SumLine]
      <4> SUFFICES ASSUME n + 1 = SumLine PROVE q[Count] <= q[SumLine]
        BY <3>1
      <4>1. q[Count] = p[Count] /\ p[Count] <= metric[Total] /\ p[Count] \in Nat
        BY <1>1, <2>1, <2>2, <3>1
      <4>2. q[SumLine] = metric[Sum]
        BY <3>2
      <4> QED
        BY <1>1, <1>2, <4>1, <4>2 DEF SumFirst
    <3> QED
      BY <3>1, <3>4, <3>5, <3>6, <3>7, <3>8
  <2> QED
    BY <2>4, <2>5, <2>6, PageStep
<1> QED
  BY <1>4 DEF PagesBelow, PageConsistent

LEMMA ConsistentInit == Init => Consistent
<1> SUFFICES ASSUME Init PROVE Consistent
  OBVIOUS
<1>1. /\ \A k \in Keys : metric[k] = 0
      /\ \A h \in Handlers : Stage(h) = "idle"
      /\ \A s \in Scrapers : page[s] = <<>> /\ Len(page[s]) = 0
      /\ Bounds \in Nat /\ Bounds # 0
  BY LimitsAssumption DEF Init, Stage, Changing
<1>2. SumFirst
  BY <1>1, Numbers DEF SumFirst
<1>3. Cumulated([i \in 0..Bounds |-> 0])
  <2>1. Sums([i \in 0..Bounds |-> 0], Buckets)
    BY <1>1, Numbers DEF Sums, Buckets
  <2> QED
    BY <1>1, <2>1, Numbers DEF Cumulated
<1>4. MessagesTimed
  <2>1. Timed = {}
    BY <1>1 DEF Timed
  <2> QED
    BY <1>1, <2>1, Numbers, FS_EmptySet DEF MessagesTimed
<1>5. PagesBelow /\ PageConsistent
  BY <1>1 DEF PagesBelow, PageConsistent, Inf, Count, SumLine
<1> QED
  BY <1>2, <1>3, <1>4, <1>5 DEF Consistent

LEMMA ConsistentStep ==
    ASSUME Base, Consistent, [Next]_vars
    PROVE  Consistent'
<1>1. PICK C : Cumulated(C)
  BY DEF Consistent
<1>2. SumFirst' /\ MessagesTimed' /\ PagesBelow' /\ PageConsistent'
  BY <1>1, SumStep, MessagesStep, PagesStep DEF Consistent
<1>3. \E D : Cumulated(D)'
  BY <1>1, CumulatedStep
<1> QED
  BY <1>2, <1>3 DEF Consistent

\* A page is a histogram that makes sense, whatever posts are handled while its
\* lines are read.
THEOREM Consistently == Spec => []PageConsistent
<1>1. Base /\ Consistent /\ [Next]_vars => Consistent'
  BY ConsistentStep
<1>2. Consistent => PageConsistent
  BY DEF Consistent
<1> QED
  BY <1>1, <1>2, ConsistentInit, BaseAlways, PTL DEF Spec

-----------------------------------------------------------------------------
(* No post is lost, or counted twice.                                      *)

\* What the lines of a page say of a number, and what a post adds to it.
Of(f, k) ==
    CASE k = Messages  -> f[1]
      [] k = Sum       -> f[SumLine]
      [] k = Total     -> f[Count]
      [] k = Bucket(1) -> f[2]
      [] OTHER         -> f[k[2] + 1] - f[k[2]]

Adds(p, k) ==
    CASE k = Messages -> IF p.ok THEN 1 ELSE 0
      [] k = Sum      -> p.bucket
      [] OTHER        -> IF k \in {Total, Bucket(p.bucket)} THEN 1 ELSE 0

\* The stages in which a handler has a number before it.
Before(k) ==
    CASE k = Sum      -> {"observe", "sum"}
      [] k = Total    -> {"observe", "sum", "total"}
      [] k = Messages -> {"observe", "sum", "total", "bucket", "inc", "messages"}
      [] OTHER        -> {"observe", "sum", "total", "bucket"}

\* What each handler adds to a number for the post it handles, and what of that
\* it has yet to add.
Open(k) == [h \in Handlers |-> IF Stage(h) # "idle" THEN Adds(post[h], k) ELSE 0]
Owed(k) == [h \in Handlers |-> IF Stage(h) \in Before(k) THEN Adds(post[h], k) ELSE 0]

\* A sum over the handlers, as the size of a set.
Units(w)  == {u \in Handlers \X (1..(Bounds + 1)) : u[2] <= w[u[1]]}
Amount(w) == Cardinality(Units(w))
Weights   == [Handlers -> 0..(Bounds + 1)]

Books ==
    \A k \in Keys : /\ metric[k] + Amount(Owed(k)) = Of(begun, k)
                    /\ Of(handled, k) + Amount(Open(k)) = Of(begun, k)

Between ==
    /\ Books /\ begun[Inf] = begun[Count] /\ handled[Inf] = handled[Count]
    /\ \A s \in Scrapers : /\ floor[s][Inf] = floor[s][Count]
                           /\ \A k \in Keys : Of(floor[s], k) <= Of(handled, k)
    /\ PageBetween

LEMMA UnitsFinite ==
    ASSUME NEW w \in Weights
    PROVE  IsFiniteSet(Units(w)) /\ Amount(w) \in Nat
<1>1. IsFiniteSet(Handlers \X (1..(Bounds + 1)))
  <2>1. IsFiniteSet(1..(Bounds + 1))
    BY LimitsAssumption, FS_Interval
  <2> QED
    BY <2>1, ThreadsAssumption, FS_Product
<1>2. Units(w) \in SUBSET (Handlers \X (1..(Bounds + 1)))
  BY DEF Units
<1> QED
  BY <1>1, <1>2, FS_Subset, FS_CardinalityType DEF Amount

LEMMA AmountLess ==
    ASSUME NEW w \in Weights, NEW v \in Weights, \A h \in Handlers : w[h] <= v[h]
    PROVE  Amount(w) <= Amount(v)
<1>1. Units(w) \in SUBSET Units(v)
  BY LimitsAssumption DEF Units, Weights
<1> QED
  BY <1>1, UnitsFinite, FS_Subset DEF Amount

LEMMA AmountNone ==
    ASSUME NEW w, \A h \in Handlers : w[h] = 0
    PROVE  Amount(w) = 0
<1>1. Units(w) = {}
  BY LimitsAssumption DEF Units
<1> QED
  BY <1>1, FS_EmptySet DEF Amount

LEMMA AmountStep ==
    ASSUME NEW w \in Weights, NEW v \in Weights, NEW h \in Handlers,
           \A g \in Handlers \ {h} : v[g] = w[g]
    PROVE  Amount(v) + w[h] = Amount(w) + v[h]
<1> DEFINE Rest(x) == {u \in Units(x) : u[1] # h}
           Own(x)     == {h} \X (1..x[h])
<1>1. ASSUME NEW x \in Weights
      PROVE  /\ IsFiniteSet(Rest(x)) /\ Cardinality(Rest(x)) \in Nat
             /\ Amount(x) = Cardinality(Rest(x)) + x[h]
  <2>1. x[h] \in Nat /\ x[h] <= Bounds + 1 /\ Bounds \in Nat
    BY LimitsAssumption DEF Weights
  <2>2. IsFiniteSet(Own(x)) /\ Cardinality(Own(x)) = x[h]
    <3>1. IsFiniteSet(1..x[h]) /\ Cardinality(1..x[h]) = x[h]
      BY <2>1, FS_Interval
    <3>2. IsFiniteSet({h}) /\ Cardinality({h}) = 1
      BY FS_Singleton
    <3> QED
      BY <2>1, <3>1, <3>2, FS_Product
  <2>3. IsFiniteSet(Rest(x)) /\ Cardinality(Rest(x)) \in Nat
    <3>1. Rest(x) \in SUBSET Units(x)
      OBVIOUS
    <3> QED
      BY <3>1, UnitsFinite, FS_Subset, FS_CardinalityType
  <2>4. Units(x) = Rest(x) \cup Own(x)
    BY <2>1 DEF Units
  <2>5. Rest(x) \cap Own(x) = {}
    OBVIOUS
  <2>6. Cardinality(Rest(x) \cap Own(x)) = 0
    BY <2>5, FS_EmptySet
  <2> HIDE DEF Rest, Own
  <2>7. Cardinality(Rest(x) \cup Own(x))
            = Cardinality(Rest(x)) + Cardinality(Own(x)) - 0
    BY <2>2, <2>3, <2>6, FS_Union
  <2> QED
    BY <2>1, <2>2, <2>3, <2>4, <2>7 DEF Amount
<1>2. Rest(v) = Rest(w)
  BY DEF Units
<1>3. v[h] \in Nat /\ w[h] \in Nat
  BY LimitsAssumption DEF Weights
<1> HIDE DEF Rest
<1> QED
  BY <1>1, <1>2, <1>3

LEMMA Amounts ==
    ASSUME Base, NEW k
    PROVE  /\ Open(k) \in Weights /\ Owed(k) \in Weights
           /\ Amount(Owed(k)) \in Nat /\ Amount(Open(k)) \in Nat
           /\ Amount(Owed(k)) <= Amount(Open(k))
<1>1. \A h \in Handlers : post[h].bucket \in 1..(Bounds + 1) /\ Bounds \in Nat
  BY LimitsAssumption DEF Base, TypeOK, Posts
<1>2. \A h \in Handlers : Adds(post[h], k) \in 0..(Bounds + 1)
  BY <1>1 DEF Adds
<1>3. Open(k) \in Weights /\ Owed(k) \in Weights
  BY <1>1, <1>2 DEF Open, Owed, Weights
<1>4. \A h \in Handlers : Owed(k)[h] <= Open(k)[h]
  BY <1>1, <1>2 DEF Open, Owed, Before
<1> QED
  BY <1>3, <1>4, AmountLess, UnitsFinite

LEMMA Primes ==
    ASSUME NEW k
    PROVE  /\ Amount(Owed(k))' = Amount(Owed(k)') /\ Amount(Open(k))' = Amount(Open(k)')
           /\ Of(begun, k)' = Of(begun', k) /\ Of(handled, k)' = Of(handled', k)
BY DEF Amount, Units, Of

\* The numbers that there are.
LEMMA KeyCases ==
    ASSUME NEW k \in Keys
    PROVE  \/ k = Messages \/ k = Sum \/ k = Total
           \/ \E b \in 1..Bounds : /\ k = Bucket(b) /\ k[2] = b
                                   /\ k # Messages /\ k # Sum /\ k # Total
                                   /\ (k = Bucket(1) <=> b = 1)
BY DEF Keys, Messages, Sum, Total, Bucket

LEMMA AddsValues ==
    ASSUME NEW p \in Posts
    PROVE  /\ Adds(p, Messages) = IF p.ok THEN 1 ELSE 0
           /\ Adds(p, Sum) = p.bucket /\ Adds(p, Total) = 1
           /\ \A b \in 1..Bounds : Adds(p, Bucket(b)) = IF p.bucket = b THEN 1 ELSE 0
           /\ \A k : Adds(p, k) \in 0..(Bounds + 1)
<1>1. p.bucket \in 1..(Bounds + 1) /\ Bounds \in Nat
  BY LimitsAssumption DEF Posts
<1> QED
  BY <1>1, Numbers DEF Adds

LEMMA OfValues ==
    ASSUME NEW f
    PROVE  /\ Of(f, Messages) = f[1] /\ Of(f, Sum) = f[SumLine] /\ Of(f, Total) = f[Count]
           /\ Of(f, Bucket(1)) = f[2]
           /\ \A b \in 2..Bounds : Of(f, Bucket(b)) = f[b + 1] - f[b]
<1>1. \A b : Bucket(b)[2] = b
  BY DEF Bucket
<1>2. \A b \in 2..Bounds : Bucket(b) # Bucket(1)
  BY Numbers
<1> QED
  BY <1>1, <1>2, Numbers DEF Of

LEMMA OfWith ==
    ASSUME NEW f \in [Lines -> Nat], NEW p \in Posts
    PROVE  /\ \A k \in Keys : Of(f, k) \in Int /\ Of(With(f, p), k) = Of(f, k) + Adds(p, k)
           /\ \A i \in Lines : f[i] <= With(f, p)[i]
           /\ f[Inf] = f[Count] => With(f, p)[Inf] = With(f, p)[Count]
<1> DEFINE g == With(f, p)
<1>1. /\ p.bucket \in 1..(Bounds + 1) /\ Bounds \in Nat /\ Bounds # 0
      /\ Inf = Bounds + 2 /\ Count = Bounds + 3 /\ SumLine = Bounds + 4
      /\ Lines = 1..(Bounds + 4)
  BY LimitsAssumption DEF Posts, Inf, Count, SumLine, Lines
<1>2. /\ g[1] = f[1] + (IF p.ok THEN 1 ELSE 0)
      /\ g[SumLine] = f[SumLine] + p.bucket
      /\ \A i \in 2..Count : g[i] = f[i] + (IF p.bucket <= i - 1 THEN 1 ELSE 0)
  BY <1>1 DEF With
<1>3. \A i \in Lines : f[i] \in Nat
  OBVIOUS
<1> HIDE DEF g
<1>4. \A i \in Lines : f[i] <= g[i]
  <2> SUFFICES ASSUME NEW i \in Lines PROVE f[i] <= g[i]
    OBVIOUS
  <2>1. i = 1 \/ i = SumLine \/ i \in 2..Count
    BY <1>1
  <2>2. f[i] \in Nat /\ p.bucket \in Nat
    BY <1>1
  <2>3. CASE i = 1
    BY <1>2, <2>2, <2>3
  <2>4. CASE i = SumLine
    BY <1>2, <2>2, <2>4
  <2>5. CASE i \in 2..Count
    BY <1>2, <2>2, <2>5
  <2> QED
    BY <2>1, <2>3, <2>4, <2>5
<1>5. g[Inf] = f[Inf] + 1 /\ g[Count] = f[Count] + 1
  <2>1. Inf \in 2..Count /\ Count \in 2..Count /\ p.bucket <= Inf - 1 /\ p.bucket <= Count - 1
    BY <1>1
  <2> QED
    BY <1>2, <2>1
<1>6. ASSUME NEW k \in Keys PROVE Of(f, k) \in Int /\ Of(g, k) = Of(f, k) + Adds(p, k)
  <2>1. CASE k \in {Messages, Sum, Total}
    <3>1. {1, SumLine, Count} \subseteq Lines
      BY <1>1
    <3>2. f[1] \in Int /\ f[SumLine] \in Int /\ f[Count] \in Int
      BY <1>3, <3>1
    <3>3. CASE k = Messages
      <4>1. Of(f, k) = f[1] /\ Of(g, k) = g[1] /\ Adds(p, k) = IF p.ok THEN 1 ELSE 0
        BY <3>3, AddsValues, OfValues
      <4> QED
        BY <1>2, <3>2, <4>1
    <3>4. CASE k = Sum
      <4>1. Of(f, k) = f[SumLine] /\ Of(g, k) = g[SumLine] /\ Adds(p, k) = p.bucket
        BY <3>4, AddsValues, OfValues
      <4> QED
        BY <1>2, <3>2, <4>1
    <3>5. CASE k = Total
      <4>1. Of(f, k) = f[Count] /\ Of(g, k) = g[Count] /\ Adds(p, k) = 1
        BY <3>5, AddsValues, OfValues
      <4> QED
        BY <1>5, <3>2, <4>1
    <3> QED
      BY <2>1, <3>3, <3>4, <3>5
  <2>2. ASSUME NEW b \in 1..Bounds, k = Bucket(b)
        PROVE  Of(f, k) \in Int /\ Of(g, k) = Of(f, k) + Adds(p, k)
    <3>1. Adds(p, k) = IF p.bucket = b THEN 1 ELSE 0
      BY <2>2, AddsValues
    <3>2. CASE b = 1
      <4>1. 2 \in 2..Count /\ 2 \in Lines
        BY <1>1
      <4>2. f[2] \in Int /\ g[2] = f[2] + (IF p.bucket = 1 THEN 1 ELSE 0)
        BY <1>1, <1>2, <1>3, <4>1
      <4>3. Of(f, k) = f[2] /\ Of(g, k) = g[2]
        BY <2>2, <3>2, OfValues
      <4> QED
        BY <3>1, <3>2, <4>2, <4>3
    <3>3. CASE b \in 2..Bounds
      <4>1. b \in 2..Count /\ b + 1 \in 2..Count /\ b \in Lines /\ b + 1 \in Lines
        BY <1>1, <3>3
      <4>2. /\ g[b] = f[b] + (IF p.bucket <= b - 1 THEN 1 ELSE 0)
            /\ g[b + 1] = f[b + 1] + (IF p.bucket <= b THEN 1 ELSE 0)
            /\ f[b] \in Nat /\ f[b + 1] \in Nat
        BY <1>2, <1>3, <4>1
      <4>3. Of(f, k) = f[b + 1] - f[b] /\ Of(g, k) = g[b + 1] - g[b]
        BY <2>2, <3>3, OfValues
      <4>4. f[b + 1] - f[b] \in Int
        BY <4>2
      <4>5. g[b + 1] - g[b] = f[b + 1] - f[b] + (IF p.bucket = b THEN 1 ELSE 0)
        <5>1. p.bucket \in Int /\ b \in Int
          BY <1>1
        <5> QED
          BY <4>2, <5>1
      <4> QED
        BY <3>1, <4>3, <4>4, <4>5
    <3> QED
      BY <1>1, <3>2, <3>3
  <2> QED
    BY <2>1, <2>2, KeyCases
<1> QED
  BY <1>4, <1>5, <1>6 DEF g

\* begun grows by a post that ends, handled by one whose last store was made.
LEMMA Counted ==
    ASSUME Base, [Next]_vars
    PROVE  /\ begun' = begun \/ \E h \in Handlers :
                  EndPost(h) /\ post'[h] \in Posts /\ begun' = With(begun, post'[h])
           /\ handled' = handled \/ \E h \in Handlers :
                  Store(h) /\ handled' = With(handled, post[h])
<1>1. ASSUME NEW h \in Handlers, EndPost(h)
      PROVE  post'[h] \in Posts /\ begun' = With(begun, post'[h]) /\ handled' = handled
  BY <1>1 DEF EndPost, Base, TypeOK
<1>2. ASSUME NEW h \in Handlers, Acquire(h) \/ Load(h)
      PROVE  begun' = begun /\ handled' = handled
  BY <1>2 DEF Acquire, Load
<1>3. ASSUME NEW h \in Handlers, Store(h)
      PROVE  begun' = begun /\ (handled' = handled \/ handled' = With(handled, post[h]))
  BY <1>3 DEF Store
<1>4. ASSUME NEW s \in Scrapers, BeginPage(s) \/ ReadLine(s)
      PROVE  begun' = begun /\ handled' = handled
  BY <1>4 DEF BeginPage, ReadLine
<1>5. UNCHANGED vars => begun' = begun /\ handled' = handled
  BY DEF vars
<1> QED
  BY <1>1, <1>2, <1>3, <1>4, <1>5 DEF Next

\* What a store adds to a number was owed to it, and no more is.
LEMMA StorePays ==
    ASSUME Base, NEW h \in Handlers, Store(h), NEW k \in Keys
    PROVE  /\ metric'[k] + Owed(k)'[h] = metric[k] + Owed(k)[h]
           /\ metric[k] \in Nat /\ metric'[k] \in Nat
           /\ Open(k)[h] = Adds(post[h], k)
           /\ IF handled' = handled /\ Stage(h)' # "idle"
              THEN Open(k)'[h] = Open(k)[h]
              ELSE Open(k)'[h] = 0 /\ handled' = With(handled, post[h])
<1> DEFINE b    == post[h].bucket
           a(j) == Adds(post[h], j)
           st   == Stage(h)
           en   == Stage(h)'
<1>1. /\ post[h] \in Posts /\ b \in 1..(Bounds + 1) /\ Bounds \in Nat
      /\ metric \in [Keys -> Nat] /\ metric' \in [Keys -> Nat]
  <2>1. TypeOK'
    BY TypeStep DEF Next
  <2> QED
    BY <2>1, LimitsAssumption DEF Base, TypeOK, Posts
<1>2. /\ a(Messages) = (IF post[h].ok THEN 1 ELSE 0) /\ a(Sum) = b /\ a(Total) = 1
      /\ \A c \in 1..Bounds : a(Bucket(c)) = IF b = c THEN 1 ELSE 0
      /\ \A j : a(j) \in Nat
  BY <1>1, AddsValues
<1>3. /\ Owed(k)[h] = IF st \in Before(k) THEN a(k) ELSE 0
      /\ Open(k)[h] = IF st # "idle" THEN a(k) ELSE 0
  BY DEF Owed, Open
<1>4. post' = post
  BY StoreEffect
<1>5. /\ Owed(k)'[h] = IF en \in Before(k) THEN a(k) ELSE 0
      /\ Open(k)'[h] = IF en # "idle" THEN a(k) ELSE 0
  BY <1>4 DEF Owed, Open, Before
<1>6. \/ /\ st = "sum" /\ en = "total" /\ handled' = handled
         /\ metric' = [metric EXCEPT ![Sum] = @ + b]
      \/ /\ st = "total" /\ b <= Bounds /\ en = "bucket" /\ handled' = handled
         /\ metric' = [metric EXCEPT ![Total] = @ + 1]
      \/ /\ st = "total" /\ b > Bounds /\ en = (IF post[h].ok THEN "inc" ELSE "idle")
         /\ metric' = [metric EXCEPT ![Total] = @ + 1]
         /\ handled' = IF post[h].ok THEN handled ELSE With(handled, post[h])
      \/ /\ st = "bucket" /\ b <= Bounds /\ en = (IF post[h].ok THEN "inc" ELSE "idle")
         /\ metric' = [metric EXCEPT ![Bucket(b)] = @ + 1]
         /\ handled' = IF post[h].ok THEN handled ELSE With(handled, post[h])
      \/ /\ st = "messages" /\ post[h].ok /\ en = "idle"
         /\ metric' = [metric EXCEPT ![Messages] = @ + 1]
         /\ handled' = With(handled, post[h])
  BY StoreEffect
<1>7. IF handled' = handled /\ en # "idle"
      THEN Open(k)'[h] = Open(k)[h]
      ELSE Open(k)'[h] = 0 /\ handled' = With(handled, post[h])
  BY <1>3, <1>5, <1>6
<1>8. Open(k)[h] = a(k)
  BY <1>3, <1>6
<1>9. /\ Before(Sum) = {"observe", "sum"} /\ Before(Total) = {"observe", "sum", "total"}
      /\ Before(Messages) = {"observe", "sum", "total", "bucket", "inc", "messages"}
      /\ \A c : Before(Bucket(c)) = {"observe", "sum", "total", "bucket"}
  BY Numbers DEF Before
<1>10. metric'[k] + Owed(k)'[h] = metric[k] + Owed(k)[h]
  <2> DEFINE ow == Owed(k)[h]
             on == Owed(k)'[h]
  <2>1. metric[k] \in Nat /\ metric'[k] \in Nat /\ a(k) \in Nat
    BY <1>1, <1>2
  <2>2. ow = (IF st \in Before(k) THEN a(k) ELSE 0) /\ on = (IF en \in Before(k) THEN a(k) ELSE 0)
    BY <1>3, <1>5
  <2> SUFFICES metric'[k] + on = metric[k] + ow
    OBVIOUS
  <2> HIDE DEF a, st, en, ow, on
  <2>3. CASE k = Sum
    <3>1. \/ st = "sum" /\ en = "total" /\ metric'[k] = metric[k] + b
          \/ /\ st \in {"total", "bucket", "messages"} /\ en \in {"bucket", "inc", "idle"}
             /\ metric'[k] = metric[k]
      BY <1>1, <1>6, <2>3, Numbers
    <3>2. a(k) = b
      BY <1>2, <2>3
    <3>3. \/ ow = a(k) /\ on = 0 /\ metric'[k] = metric[k] + a(k)
          \/ ow = on /\ metric'[k] = metric[k]
      BY <1>9, <2>1, <2>2, <2>3, <3>1, <3>2
    <3>4. ow \in Nat /\ on \in Nat
      BY <2>1, <2>2
    <3> QED
      BY <2>1, <3>3, <3>4
  <2>4. CASE k = Total
    <3>1. \/ st = "sum" /\ en = "total" /\ metric'[k] = metric[k]
          \/ st = "total" /\ en \in {"bucket", "inc", "idle"} /\ metric'[k] = metric[k] + 1
          \/ /\ st \in {"bucket", "messages"} /\ en \in {"inc", "idle"}
             /\ metric'[k] = metric[k]
      BY <1>1, <1>6, <2>4, Numbers
    <3>2. a(k) = 1
      BY <1>2, <2>4
    <3>3. \/ ow = a(k) /\ on = 0 /\ metric'[k] = metric[k] + a(k)
          \/ ow = on /\ metric'[k] = metric[k]
      BY <1>9, <2>1, <2>2, <2>4, <3>1, <3>2
    <3>4. ow \in Nat /\ on \in Nat
      BY <2>1, <2>2
    <3> QED
      BY <2>1, <3>3, <3>4
  <2>5. CASE k = Messages
    <3>1. \/ /\ st \in {"sum", "total", "bucket"} /\ metric'[k] = metric[k]
             /\ en \in {"total", "bucket"} \/ en = IF post[h].ok THEN "inc" ELSE "idle"
          \/ st = "messages" /\ post[h].ok /\ en = "idle" /\ metric'[k] = metric[k] + 1
      BY <1>1, <1>6, <2>5, Numbers
    <3>2. a(k) = IF post[h].ok THEN 1 ELSE 0
      BY <1>2, <2>5
    <3>3. \/ ow = a(k) /\ on = 0 /\ metric'[k] = metric[k] + a(k)
          \/ ow = on /\ metric'[k] = metric[k]
      BY <1>9, <2>1, <2>2, <2>5, <3>1, <3>2
    <3>4. ow \in Nat /\ on \in Nat
      BY <2>1, <2>2
    <3> QED
      BY <2>1, <3>3, <3>4
  <2>6. ASSUME NEW c \in 1..Bounds, k = Bucket(c)
        PROVE  metric'[k] + on = metric[k] + ow
    <3>1. \/ st = "sum" /\ en = "total" /\ metric'[k] = metric[k]
          \/ st = "total" /\ en = "bucket" /\ metric'[k] = metric[k]
          \/ /\ st = "total" /\ b # c /\ en \in {"inc", "idle"} /\ metric'[k] = metric[k]
          \/ /\ st = "bucket" /\ b = c /\ en \in {"inc", "idle"}
             /\ metric'[k] = metric[k] + 1
          \/ /\ st = "bucket" /\ b # c /\ en \in {"inc", "idle"}
             /\ metric'[k] = metric[k]
          \/ st = "messages" /\ en = "idle" /\ metric'[k] = metric[k]
      BY <1>1, <1>6, <2>6, Numbers
    <3>2. a(k) = IF b = c THEN 1 ELSE 0
      BY <1>2, <2>6
    <3> QED
      BY <1>9, <2>1, <2>2, <2>6, <3>1, <3>2
  <2>7. (\E c \in 1..Bounds : k = Bucket(c)) => metric'[k] + on = metric[k] + ow
    BY <2>6
  <2>8. k = Sum \/ k = Total \/ k = Messages \/ \E c \in 1..Bounds : k = Bucket(c)
    BY KeyCases
  <2> QED
    BY <2>3, <2>4, <2>5, <2>7, <2>8
<1> QED
  BY <1>1, <1>7, <1>8, <1>10

\* The books of a number, one handler's entry changed.
LEMMA Entered ==
    ASSUME NEW w \in Weights, NEW v \in Weights, NEW h \in Handlers,
           \A g \in Handlers \ {h} : v[g] = w[g]
    PROVE  /\ Amount(v) + w[h] = Amount(w) + v[h]
           /\ v[h] \in Int /\ w[h] \in Int /\ Amount(v) \in Int /\ Amount(w) \in Int
<1>1. v[h] \in Int /\ w[h] \in Int
  BY LimitsAssumption DEF Weights
<1>2. Amount(v) \in Nat /\ Amount(w) \in Nat
  BY UnitsFinite
<1> QED
  BY <1>1, <1>2, AmountStep

LEMMA BooksStep ==
    ASSUME Base, Books, [Next]_vars
    PROVE  Books'
<1>1. Base' /\ begun \in [Lines -> Nat] /\ handled \in [Lines -> Nat]
  BY BaseStep DEF Base, TypeOK
<1>2. ASSUME NEW k \in Keys
      PROVE  /\ metric'[k] + Amount(Owed(k)') = Of(begun', k)
             /\ Of(handled', k) + Amount(Open(k)') = Of(begun', k)
  <2> DEFINE w == Owed(k)
             v == Owed(k)'
             p == Open(k)
             q == Open(k)'
             m == metric[k]
             n == metric'[k]
  <2>1. /\ w \in Weights /\ v \in Weights /\ p \in Weights /\ q \in Weights
        /\ Amount(w) \in Nat /\ Amount(p) \in Nat
    <3>1. w \in Weights /\ p \in Weights /\ Amount(w) \in Nat /\ Amount(p) \in Nat
      BY Amounts
    <3>2. (Owed(k) \in Weights /\ Open(k) \in Weights)'
      BY <1>1, Amounts, PTL
    <3> QED
      BY <3>1, <3>2 DEF Weights
  <2>2. /\ m + Amount(w) = Of(begun, k)
        /\ Of(handled, k) + Amount(p) = Of(begun, k)
        /\ m \in Int /\ Of(handled, k) \in Int /\ Of(begun, k) \in Int
    <3>1. [bucket |-> 1, ok |-> TRUE] \in Posts
      BY LimitsAssumption DEF Posts
    <3>2. Of(handled, k) \in Int /\ Of(begun, k) \in Int
      BY <1>1, <3>1, OfWith
    <3>3. m \in Int
      BY DEF Base, TypeOK
    <3> QED
      BY <3>2, <3>3 DEF Books
  <2>3. CASE ~\E h \in Handlers : Store(h)
    <3>1. metric' = metric /\ handled' = handled
      BY <2>3, NumbersGrow, Counted
    <3>2. ASSUME NEW h \in Handlers, EndPost(h)
          PROVE  /\ n + Amount(v) = Of(begun', k)
                 /\ Of(handled', k) + Amount(q) = Of(begun', k)
      <4>1. post'[h] \in Posts /\ begun' = With(begun, post'[h])
        BY <3>2 DEF EndPost, Base, TypeOK
      <4>2. \A g \in Handlers \ {h} : Stage(g)' = Stage(g) /\ post'[g] = post[g]
        BY <3>2, Others
      <4>3. Stage(h) = "idle" /\ Stage(h)' = "observe"
        BY <3>2, OtherEffects
      <4>4. /\ \A g \in Handlers \ {h} : v[g] = w[g] /\ q[g] = p[g]
            /\ w[h] = 0 /\ p[h] = 0 /\ v[h] = Adds(post'[h], k) /\ q[h] = Adds(post'[h], k)
        BY <4>2, <4>3 DEF Owed, Open, Before
      <4>5. Of(begun', k) = Of(begun, k) + Adds(post'[h], k)
        BY <1>1, <4>1, OfWith
      <4>6. Adds(post'[h], k) \in Int
        BY <4>1, AddsValues
      <4> HIDE DEF w, v, p, q
      <4>7. Amount(v) = Amount(w) + Adds(post'[h], k)
        BY <2>1, <4>4, <4>6, Entered
      <4>8. Amount(q) = Amount(p) + Adds(post'[h], k)
        BY <2>1, <4>4, <4>6, Entered
      <4> DEFINE B  == Of(begun, k)
                 Bn == Of(begun', k)
                 H  == Of(handled, k)
                 Hn == Of(handled', k)
                 a  == Adds(post'[h], k)
                 wa == Amount(w)
                 va == Amount(v)
                 pa == Amount(p)
                 qa == Amount(q)
      <4>9. /\ B \in Int /\ H \in Int /\ m \in Int /\ a \in Int /\ wa \in Int /\ pa \in Int
            /\ n = m /\ Hn = H /\ Bn = B + a /\ va = wa + a /\ qa = pa + a
            /\ m + wa = B /\ H + pa = B
        BY <2>1, <2>2, <3>1, <4>5, <4>6, <4>7, <4>8
      <4>10. n + va = Bn /\ Hn + qa = Bn
        <5> HIDE DEF B, Bn, H, Hn, a, wa, va, pa, qa, m, n
        <5> QED
          BY <4>9
      <4> QED
        BY <4>10
    <3>3. CASE ~\E h \in Handlers : EndPost(h)
      <4>1. begun' = begun
        BY <3>3, Counted
      <4>2. \A g \in Handlers : /\ post'[g] = post[g]
                                /\ Stage(g)' = "idle" <=> Stage(g) = "idle"
                                /\ Stage(g)' \in Before(k) <=> Stage(g) \in Before(k)
        BY <2>3, <3>3, StagesStep DEF Before
      <4>3. v = w /\ q = p
        BY <4>2 DEF Owed, Open
      <4> QED
        BY <2>2, <3>1, <4>1, <4>3
    <3> QED
      BY <3>2, <3>3
  <2>4. ASSUME NEW h \in Handlers, Store(h)
        PROVE  /\ n + Amount(v) = Of(begun', k)
               /\ Of(handled', k) + Amount(q) = Of(begun', k)
    <3>1. begun' = begun /\ post' = post /\ post[h] \in Posts
      BY <2>4 DEF Store, Base, TypeOK
    <3>2. \A g \in Handlers \ {h} : Stage(g)' = Stage(g) /\ post'[g] = post[g]
      BY <2>4, Others
    <3>3. \A g \in Handlers \ {h} : v[g] = w[g] /\ q[g] = p[g]
      BY <3>2 DEF Owed, Open
    <3>4. /\ n + v[h] = m + w[h] /\ n \in Int
          /\ p[h] = Adds(post[h], k)
          /\ IF handled' = handled /\ Stage(h)' # "idle"
             THEN q[h] = p[h] ELSE q[h] = 0 /\ handled' = With(handled, post[h])
      BY <2>4, StorePays
    <3>5. Of(With(handled, post[h]), k) = Of(handled, k) + Adds(post[h], k)
      BY <1>1, <3>1, OfWith
    <3>6. Adds(post[h], k) \in Int
      BY <3>1, AddsValues
    <3> HIDE DEF w, v, p, q
    <3>7. /\ Amount(v) + w[h] = Amount(w) + v[h] /\ Amount(q) + p[h] = Amount(p) + q[h]
          /\ {v[h], w[h], p[h], q[h]} \subseteq Int
          /\ {Amount(v), Amount(q)} \subseteq Int
      BY <2>1, <3>3, Entered
    <3> DEFINE B  == Of(begun, k)
               H  == Of(handled, k)
               Hn == Of(handled', k)
               wa == Amount(w)
               va == Amount(v)
               pa == Amount(p)
               qa == Amount(q)
               wh == w[h]
               vh == v[h]
               ph == p[h]
               qh == q[h]
    <3>8. Hn = H + ph - qh
      <4>1. H \in Int /\ ph \in Int /\ qh \in Int
        BY <2>2, <3>7
      <4>2. handled' = handled => Hn = H
        OBVIOUS
      <4>3. handled' = With(handled, post[h]) => Hn = H + ph
        BY <3>4, <3>5
      <4>4. \/ handled' = handled /\ qh = ph
            \/ handled' = With(handled, post[h]) /\ qh = 0
        BY <3>4
      <4> HIDE DEF H, Hn, ph, qh
      <4> QED
        BY <4>1, <4>2, <4>3, <4>4
    <3>9. /\ {B, H, m, n, wa, va, pa, qa, wh, vh, ph, qh} \subseteq Int
          /\ m + wa = B /\ H + pa = B /\ n + vh = m + wh
          /\ va + wh = wa + vh /\ qa + ph = pa + qh
      BY <2>1, <2>2, <3>4, <3>7
    <3>10. n + va = B /\ Hn + qa = B
      <4> HIDE DEF B, H, Hn, wa, va, pa, qa, wh, vh, ph, qh, m, n
      <4> QED
        BY <3>8, <3>9
    <3> QED
      BY <3>1, <3>10
  <2> QED
    BY <2>3, <2>4
<1> QED
  BY <1>2, Primes DEF Books

LEMMA SomePost == \E p : p \in Posts
<1>1. [bucket |-> 1, ok |-> TRUE] \in Posts
  BY LimitsAssumption DEF Posts
<1> QED
  BY <1>1

\* A number has what the posts add that were handled, and no more than those that
\* began.
LEMMA NumberBetween ==
    ASSUME Base, Books, NEW k \in Keys
    PROVE  /\ Of(handled, k) <= metric[k] /\ metric[k] <= Of(begun, k)
           /\ Of(handled, k) \in Int /\ Of(begun, k) \in Int /\ metric[k] \in Int
<1> DEFINE m == metric[k]
           o == Amount(Owed(k))
           a == Amount(Open(k))
           H == Of(handled, k)
           B == Of(begun, k)
<1>1. o \in Nat /\ a \in Nat /\ o <= a
  BY Amounts
<1>2. H \in Int /\ B \in Int
  BY SomePost, OfWith DEF Base, TypeOK
<1>3. m \in Int
  BY DEF Base, TypeOK
<1>4. m + o = B /\ H + a = B
  BY DEF Books
<1>5. H <= m /\ m <= B
  <2> HIDE DEF m, o, a, H, B
  <2> QED
    BY <1>1, <1>2, <1>3, <1>4
<1> QED
  BY <1>2, <1>3, <1>5

LEMMA Grown ==
    ASSUME Base, [Next]_vars
    PROVE  /\ \A i \in Lines : begun[i] \in Nat /\ begun'[i] \in Nat /\ begun[i] <= begun'[i]
           /\ \A k \in Keys : /\ Of(handled, k) \in Int /\ Of(handled', k) \in Int
                              /\ Of(handled, k) <= Of(handled', k)
           /\ begun[Inf] = begun[Count] => begun'[Inf] = begun'[Count]
           /\ handled[Inf] = handled[Count] => handled'[Inf] = handled'[Count]
<1>1. TypeOK /\ TypeOK'
  BY TypeStep DEF Base
<1>2. /\ begun \in [Lines -> Nat] /\ begun' \in [Lines -> Nat]
      /\ handled \in [Lines -> Nat] /\ handled' \in [Lines -> Nat]
  BY <1>1 DEF TypeOK
<1>3. \A i \in Lines : begun[i] \in Nat /\ begun'[i] \in Nat
  BY <1>2
<1>4. \A k \in Keys : Of(handled, k) \in Int /\ Of(handled', k) \in Int
  BY <1>2, SomePost, OfWith
<1>6. /\ \A i \in Lines : begun[i] <= begun'[i]
      /\ begun[Inf] = begun[Count] => begun'[Inf] = begun'[Count]
  <2>1. CASE begun' = begun
    BY <1>3, <2>1
  <2>2. ASSUME NEW p \in Posts, begun' = With(begun, p)
        PROVE  /\ \A i \in Lines : begun[i] <= begun'[i]
               /\ begun[Inf] = begun[Count] => begun'[Inf] = begun'[Count]
    BY <1>2, <2>2, OfWith
  <2> QED
    BY <2>1, <2>2, Counted
<1>7. /\ \A k \in Keys : Of(handled, k) <= Of(handled', k)
      /\ handled[Inf] = handled[Count] => handled'[Inf] = handled'[Count]
  <2>1. CASE handled' = handled
    BY <1>4, <2>1
  <2>2. ASSUME NEW p \in Posts, handled' = With(handled, p)
        PROVE  /\ \A k \in Keys : Of(handled, k) <= Of(handled', k)
               /\ handled[Inf] = handled[Count] => handled'[Inf] = handled'[Count]
    <3>1. handled[Inf] = handled[Count] => handled'[Inf] = handled'[Count]
      BY <1>2, <2>2, OfWith
    <3>2. ASSUME NEW k \in Keys PROVE Of(handled, k) <= Of(handled', k)
      <4>1. Of(handled', k) = Of(handled, k) + Adds(p, k)
        BY <1>2, <2>2, OfWith
      <4>2. Adds(p, k) \in Nat
        BY LimitsAssumption, AddsValues
      <4> QED
        BY <1>4, <4>1, <4>2
    <3> QED
      BY <3>1, <3>2
  <2>3. \A h \in Handlers : post[h] \in Posts
    BY <1>1 DEF TypeOK
  <2> QED
    BY <2>1, <2>2, <2>3, Counted
<1> QED
  BY <1>3, <1>4, <1>6, <1>7

\* The floors, and the pages above them.
LEMMA PageFloor ==
    ASSUME Base, Between, [Next]_vars, NEW s \in Scrapers
    PROVE  /\ floor'[s][Inf] = floor'[s][Count]
           /\ \A k \in Keys : Of(floor'[s], k) <= Of(handled', k)
           /\ \A i \in 1..Len(page'[s]) :
                 floor'[s][i] <= page'[s][i] /\ page'[s][i] <= begun'[i]
<1> DEFINE p == page[s]
           q == page'[s]
           n == Len(p)
           f == floor[s]
<1>1. /\ Bounds \in Nat /\ Bounds # 0 /\ Inf = Bounds + 2 /\ Count = Bounds + 3
      /\ SumLine = Bounds + 4 /\ Lines = 1..(Bounds + 4)
  BY LimitsAssumption DEF Inf, Count, SumLine, Lines
<1>2. /\ p \in Seq(Nat) /\ q \in Seq(Nat) /\ n \in 0..SumLine
      /\ f \in [Lines -> Nat] /\ handled \in [Lines -> Nat]
  BY PageStep DEF Base, TypeOK
<1>3. /\ f[Inf] = f[Count] /\ handled[Inf] = handled[Count] /\ begun[Inf] = begun[Count]
      /\ \A k \in Keys : Of(f, k) <= Of(handled, k)
      /\ \A i \in 1..n : f[i] <= p[i] /\ p[i] <= begun[i]
  BY DEF Between, PageBetween
<1>4. \A k \in Keys : Of(f, k) \in Int
  BY <1>2, SomePost, OfWith
<1>5. CASE q = p /\ floor'[s] = f
  <2>1. \A k \in Keys : Of(f, k) <= Of(handled', k)
    BY <1>3, <1>4, Grown
  <2>2. \A i \in 1..n : f[i] <= p[i] /\ p[i] <= begun'[i]
    <3> SUFFICES ASSUME NEW i \in 1..n PROVE f[i] <= p[i] /\ p[i] <= begun'[i]
      OBVIOUS
    <3>1. i \in Lines /\ p[i] \in Nat
      BY <1>1, <1>2
    <3> QED
      BY <1>3, <3>1, Grown
  <2> QED
    BY <1>3, <1>5, <2>1, <2>2
<1>6. CASE /\ q = <<metric[Messages]>> /\ floor'[s] = handled
           /\ handled' = handled /\ begun' = begun
  <2>1. /\ handled[1] <= metric[Messages] /\ metric[Messages] <= begun[1]
    BY NumberBetween, OfValues, Numbers DEF Between
  <2>2. Len(q) = 1 /\ q[1] = metric[Messages]
    BY <1>6
  <2>3. \A k \in Keys : Of(handled, k) <= Of(handled, k)
    BY Grown
  <2> QED
    BY <1>3, <1>6, <2>1, <2>2, <2>3
<1>7. CASE /\ n \in 1..Count /\ floor'[s] = f
           /\ handled' = handled /\ begun' = begun
           /\ q = Append(p, LineOf(p)) /\ LineOf(p) \in Nat
           /\ n + 1 = 2 => LineOf(p) = metric[Bucket(1)]
           /\ n + 1 \in 3..(Inf - 1) => LineOf(p) = p[n] + metric[Bucket(n)]
           /\ n + 1 \in {Inf, Count} => LineOf(p) = metric[Total]
           /\ n + 1 = SumLine => LineOf(p) = metric[Sum]
  <2>1. Len(q) = n + 1 /\ q[n + 1] = LineOf(p) /\ \A i \in 1..n : q[i] = p[i]
    BY <1>2, <1>7
  <2>2. ASSUME NEW k \in Keys
        PROVE  /\ Of(f, k) <= metric[k] /\ metric[k] <= Of(begun, k)
               /\ Of(f, k) \in Int /\ Of(begun, k) \in Int /\ metric[k] \in Int
    BY <1>3, <1>4, NumberBetween DEF Between
  <2>3. f[n + 1] <= LineOf(p) /\ LineOf(p) <= begun[n + 1]
    <3>1. CASE n + 1 = 2
      <4>1. Bucket(1) \in Keys
        BY <1>1, Numbers
      <4> QED
        BY <1>7, <2>2, <3>1, <4>1, OfValues
    <3>2. CASE n + 1 \in 3..(Inf - 1)
      <4>1. n \in 2..Bounds /\ n \in 1..n /\ n \in Lines /\ n + 1 \in Lines
        BY <1>1, <3>2
      <4>2. Bucket(n) \in Keys
        BY <1>1, <4>1, Numbers
      <4> DEFINE L  == LineOf(p)
                 m  == metric[Bucket(n)]
                 f0 == f[n]
                 f1 == f[n + 1]
                 b0 == begun[n]
                 b1 == begun[n + 1]
                 p0 == p[n]
      <4>3. f1 - f0 <= m /\ m <= b1 - b0 /\ m \in Int
        BY <2>2, <4>1, <4>2, OfValues
      <4>4. f0 <= p0 /\ p0 <= b0 /\ L = p0 + m
        BY <1>3, <1>7, <3>2, <4>1
      <4>5. {f0, f1, p0, b0, b1} \subseteq Int
        <5>1. f0 \in Nat /\ f1 \in Nat
          BY <1>2, <4>1
        <5>2. p0 \in Nat
          BY <1>2, <4>1
        <5>3. b0 \in Nat /\ b1 \in Nat
          BY <4>1, Grown
        <5> QED
          BY <5>1, <5>2, <5>3
      <4>6. f1 <= L /\ L <= b1
        <5> HIDE DEF L, m, f0, f1, b0, b1, p0
        <5> QED
          BY <4>3, <4>4, <4>5
      <4> QED
        BY <4>6
    <3>3. CASE n + 1 \in {Inf, Count}
      BY <1>3, <1>7, <2>2, <3>3, OfValues, Numbers
    <3>4. CASE n + 1 = SumLine
      BY <1>7, <2>2, <3>4, OfValues, Numbers
    <3>5. n + 1 \in {2, Inf, Count, SumLine} \cup 3..(Inf - 1)
      BY <1>1, <1>7
    <3> QED
      BY <3>1, <3>2, <3>3, <3>4, <3>5
  <2>4. \A i \in 1..Len(q) : f[i] <= q[i] /\ q[i] <= begun[i]
    <3> SUFFICES ASSUME NEW i \in 1..(n + 1) PROVE f[i] <= q[i] /\ q[i] <= begun[i]
      BY <2>1
    <3>1. i \in 1..n \/ i = n + 1
      BY <1>2
    <3> QED
      BY <1>3, <2>1, <2>3, <3>1
  <2> QED
    BY <1>3, <1>7, <2>4
<1> QED
  BY <1>5, <1>6, <1>7, PageStep

LEMMA BetweenInit == Init => Between
<1> SUFFICES ASSUME Init PROVE Between
  OBVIOUS
<1>1. /\ \A h \in Handlers : Stage(h) = "idle"
      /\ \A s \in Scrapers : page[s] = <<>> /\ Len(page[s]) = 0 /\ floor[s] = Nothing
      /\ begun = Nothing /\ handled = Nothing /\ \A k \in Keys : metric[k] = 0
  BY DEF Init, Stage, Changing
<1>2. \A i \in Lines : Nothing[i] = 0
  BY DEF Nothing
<1>3. /\ Bounds \in Nat /\ Bounds # 0 /\ Inf = Bounds + 2 /\ Count = Bounds + 3
      /\ SumLine = Bounds + 4 /\ Lines = 1..(Bounds + 4)
  BY LimitsAssumption DEF Inf, Count, SumLine, Lines
<1>4. ASSUME NEW k \in Keys PROVE Of(Nothing, k) = 0
  <2>1. CASE k \in {Messages, Sum, Total}
    BY <1>2, <1>3, <2>1, OfValues
  <2>2. ASSUME NEW b \in 1..Bounds, k = Bucket(b) PROVE Of(Nothing, k) = 0
    <3>1. b + 1 \in Lines /\ b \in Lines /\ 2 \in Lines
      BY <1>3
    <3>2. Nothing[b + 1] = 0 /\ Nothing[b] = 0 /\ Nothing[2] = 0
      BY <1>2, <3>1
    <3>3. b = 1 \/ b \in 2..Bounds
      BY <1>3
    <3> QED
      BY <2>2, <3>2, <3>3, OfValues
  <2> QED
    BY <2>1, <2>2, KeyCases
<1>5. ASSUME NEW k \in Keys PROVE Amount(Owed(k)) = 0 /\ Amount(Open(k)) = 0
  <2>1. \A h \in Handlers : Owed(k)[h] = 0 /\ Open(k)[h] = 0
    BY <1>1 DEF Owed, Open, Before
  <2> QED
    BY <2>1, AmountNone
<1>6. Books
  BY <1>1, <1>4, <1>5 DEF Books
<1> QED
  BY <1>1, <1>2, <1>3, <1>4, <1>6 DEF Between, PageBetween

LEMMA BetweenStep ==
    ASSUME Base, Between, [Next]_vars
    PROVE  Between'
<1>1. Books'
  BY BooksStep DEF Between
<1>2. begun'[Inf] = begun'[Count] /\ handled'[Inf] = handled'[Count]
  BY Grown DEF Between
<1>3. \A s \in Scrapers :
          /\ floor'[s][Inf] = floor'[s][Count]
          /\ \A k \in Keys : Of(floor[s], k)' <= Of(handled, k)'
  BY PageFloor DEF Of
<1>4. PageBetween'
  BY PageFloor DEF PageBetween
<1> QED
  BY <1>1, <1>2, <1>3, <1>4 DEF Between

\* A page has every post handled before its scrape began and none that has not
\* ended: no observation is lost, or counted twice, however the threads that
\* change a metric and the ones that read it take turns.
THEOREM Complete == Spec => []PageBetween
<1>1. Base /\ Between /\ [Next]_vars => Between'
  BY BetweenStep
<1>2. Between => PageBetween
  BY DEF Between
<1> QED
  BY <1>1, <1>2, BetweenInit, BaseAlways, PTL DEF Spec
=============================================================================
