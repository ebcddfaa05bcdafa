-------------------------------- MODULE Metrics --------------------------------
(***************************************************************************)
(* The metrics of posts (agentroom/observability/metrics.py): the threads  *)
(* of the HTTP server that handle posts observe how long each append took  *)
(* and count the messages, and others answer GET /metrics meanwhile.       *)
(*                                                                         *)
(* A change of a metric, x += y, loads it and stores it: two steps, under  *)
(* the metric's lock.  collect takes no lock, and reads a number a step.   *)
(* Durations are the number of the bucket that they fall into.             *)
(***************************************************************************)
EXTENDS Integers, Sequences, FiniteSets

CONSTANTS
    Handlers,     \* threads that handle posts, finitely many
    Scrapers,     \* threads that answer GET /metrics
    Bounds,       \* number of the histogram's buckets, without the one of +Inf
    NoOne,        \* no thread holds the lock
    MaxPosts,     \* bound: posts handled
    MaxScrapes    \* bound: scrapes of each scraper

ASSUME ThreadsAssumption == IsFiniteSet(Handlers) /\ NoOne \notin Handlers
ASSUME LimitsAssumption ==
    Bounds \in Nat \ {0} /\ MaxPosts \in Nat /\ MaxScrapes \in Nat

\* A post: its bucket, Bounds + 1 if its duration is above all of them, and
\* whether the append succeeded.
Posts == [bucket : 1..(Bounds + 1), ok : BOOLEAN]

\* The numbers behind the metrics: the counter messages_total, and a histogram's
\* buckets, total and sum.
Bucket(i) == <<"bucket", i>>
Messages  == <<"messages", 0>>
Total     == <<"total", 0>>
Sum       == <<"sum", 0>>
Keys      == {Messages, Total, Sum} \cup {Bucket(i) : i \in 1..Bounds}

\* The lines of a page, in the order of Metrics.collect: messages, the buckets,
\* +Inf, _count and _sum.
Inf     == Bounds + 2
Count   == Bounds + 3
SumLine == Bounds + 4
Lines   == 1..SumLine

VARIABLES
    metric,       \* its numbers
    lock,         \* "observe", "inc" -> who holds the histogram's, the counter's
    pc,           \* handler -> where it is
    post,         \* handler -> the post it handles
    todo,         \* handler -> the numbers it has yet to add to
    loaded,       \* handler -> what it loaded
    page,         \* scraper -> the page it makes, so far
    scrapes,      \* scraper -> pages it began
    \* For the properties, pages that would show
    begun,        \* every post begun so far,
    handled,      \* every post handled so far,
    floor         \* scraper -> the posts handled when it began its page

vars == <<metric, lock, pc, post, todo, loaded, page, scrapes, begun, handled, floor>>

Nothing == [i \in Lines |-> 0]

\* What a post adds to the lines of a page.
With(lines, p) ==
    [i \in Lines |-> lines[i] +
        CASE i = 1       -> IF p.ok THEN 1 ELSE 0
          [] i = SumLine -> p.bucket
          [] OTHER       -> IF p.bucket <= i - 1 THEN 1 ELSE 0]

Init ==
    /\ metric = [k \in Keys |-> 0]
    /\ lock = [l \in {"observe", "inc"} |-> NoOne]
    /\ pc = [h \in Handlers |-> "idle"]
    /\ post = [h \in Handlers |-> CHOOSE p \in Posts : TRUE]
    /\ todo = [h \in Handlers |-> <<>>] /\ loaded = [h \in Handlers |-> 0]
    /\ page = [s \in Scrapers |-> <<>>] /\ scrapes = [s \in Scrapers |-> 0]
    /\ begun = Nothing /\ handled = Nothing
    /\ floor = [s \in Scrapers |-> Nothing]

Goto(h, l) == pc' = [pc EXCEPT ![h] = l]

-----------------------------------------------------------------------------
(* The handler of a post.                                                  *)

\* It appended the message, or that raised: the timer ends either way.
EndPost(h) ==
    /\ pc[h] = "idle" /\ begun[Count] < MaxPosts
    /\ \E p \in Posts : post' = [post EXCEPT ![h] = p] /\ begun' = With(begun, p)
    /\ Goto(h, "observe")
    /\ UNCHANGED <<metric, lock, todo, loaded, page, scrapes, handled, floor>>

\* Slip: the total comes last.
TotalLast(h) ==
    IF pc[h] = "inc" THEN <<Messages>>
    ELSE IF post[h].bucket <= Bounds THEN <<Sum, Bucket(post[h].bucket), Total>>
    ELSE <<Sum, Total>>

\* inc adds to one number; observe to the sum, the total and the tightest
\* bucket, if there is one.
Additions(h) ==
    IF pc[h] = "inc" THEN <<Messages>>
    ELSE IF post[h].bucket <= Bounds THEN <<Sum, Total, Bucket(post[h].bucket)>>
    ELSE <<Sum, Total>>

\* Slip: with no regard to the lock.
Barge(h) ==
    /\ pc[h] \in {"observe", "inc"}
    /\ lock' = [lock EXCEPT ![pc[h]] = h]
    /\ todo' = [todo EXCEPT ![h] = Additions(h)]
    /\ Goto(h, "load")
    /\ UNCHANGED <<metric, post, loaded, page, scrapes, begun, handled, floor>>

Acquire(h) ==
    /\ pc[h] \in {"observe", "inc"} /\ lock[pc[h]] = NoOne
    /\ lock' = [lock EXCEPT ![pc[h]] = h]
    /\ todo' = [todo EXCEPT ![h] = Additions(h)]
    /\ Goto(h, "load")
    /\ UNCHANGED <<metric, post, loaded, page, scrapes, begun, handled, floor>>

Load(h) ==
    /\ pc[h] = "load"
    /\ loaded' = [loaded EXCEPT ![h] = metric[Head(todo[h])]]
    /\ Goto(h, "store")
    /\ UNCHANGED <<metric, lock, post, todo, page, scrapes, begun, handled, floor>>

\* After the last store the lock is released.  A post that raised has the
\* handler leave before it counts the message.
Store(h) ==
    LET k    == Head(todo[h])
        last == Len(todo[h]) = 1
        over == last /\ (k = Messages \/ ~post[h].ok)
    IN /\ pc[h] = "store"
       /\ metric' = [metric EXCEPT ![k] =
                       loaded[h] + (IF k = Sum THEN post[h].bucket ELSE 1)]
       /\ todo' = [todo EXCEPT ![h] = Tail(@)]
       /\ lock' = IF last THEN [l \in DOMAIN lock |-> IF lock[l] = h THEN NoOne ELSE lock[l]]
                          ELSE lock
       /\ Goto(h, IF over THEN "idle" ELSE IF last THEN "inc" ELSE "load")
       /\ handled' = IF over THEN With(handled, post[h]) ELSE handled
       /\ UNCHANGED <<post, loaded, page, scrapes, begun, floor>>

-----------------------------------------------------------------------------
(* GET /metrics.                                                           *)

\* Slip: the lines of the last page are still there.
BeginAfter(s) ==
    /\ page[s] = <<>> \/ Len(page[s]) = SumLine
    /\ scrapes[s] < MaxScrapes
    /\ scrapes' = [scrapes EXCEPT ![s] = @ + 1]
    /\ page' = [page EXCEPT ![s] = Append(@, metric[Messages])]
    /\ floor' = [floor EXCEPT ![s] = handled]
    /\ UNCHANGED <<metric, lock, pc, post, todo, loaded, begun, handled>>

BeginPage(s) ==
    /\ page[s] = <<>> \/ Len(page[s]) = SumLine
    /\ scrapes[s] < MaxScrapes
    /\ scrapes' = [scrapes EXCEPT ![s] = @ + 1]
    /\ page' = [page EXCEPT ![s] = <<metric[Messages]>>]
    /\ floor' = [floor EXCEPT ![s] = handled]
    /\ UNCHANGED <<metric, lock, pc, post, todo, loaded, begun, handled>>

\* The buckets are written cumulated, +Inf and _count from two reads of the total.
LineOf(p) ==
    LET i == Len(p) + 1
    IN CASE i = 2            -> metric[Bucket(1)]
         [] i \in 3..(Inf-1) -> p[i - 1] + metric[Bucket(i - 1)]
         [] i = SumLine      -> metric[Sum]
         [] OTHER            -> metric[Total]

ReadLine(s) ==
    /\ Len(page[s]) \in 1..Count
    /\ page' = [page EXCEPT ![s] = Append(@, LineOf(@))]
    /\ UNCHANGED <<metric, lock, pc, post, todo, loaded, scrapes, begun, handled, floor>>

Next ==
    \/ \E h \in Handlers : EndPost(h) \/ Acquire(h) \/ Load(h) \/ Store(h)
    \/ \E s \in Scrapers : BeginPage(s) \/ ReadLine(s)

Spec == Init /\ [][Next]_vars

-----------------------------------------------------------------------------
(* Properties.                                                             *)

TypeOK ==
    /\ metric \in [Keys -> Nat]
    /\ lock \in [{"observe", "inc"} -> Handlers \cup {NoOne}]
    /\ pc \in [Handlers -> {"idle", "observe", "inc", "load", "store"}]
    /\ post \in [Handlers -> Posts]
    /\ todo \in [Handlers -> Seq(Keys)] /\ loaded \in [Handlers -> Nat]
    /\ page \in [Scrapers -> Seq(Nat)] /\ \A s \in Scrapers : Len(page[s]) <= SumLine
    /\ scrapes \in [Scrapers -> 0..MaxScrapes]
    /\ {begun, handled} \subseteq [Lines -> Nat] /\ floor \in [Scrapers -> [Lines -> Nat]]

\* A page that is made while posts are handled makes sense as a histogram: the
\* buckets grow up to +Inf and _count, no more messages were posted than timed,
\* and the sum has the durations of all that are counted.
PageConsistent ==
    \A s \in Scrapers : LET p == page[s] IN
        /\ \A i \in 2..(Len(p) - 1) : i < Count => p[i] <= p[i + 1]
        /\ Len(p) >= Count => p[1] <= p[Count]
        /\ Len(p) = SumLine => p[Count] <= p[SumLine]

\* No observation is lost or counted twice: each line of a page shows all posts
\* handled before the scrape began, and none that has not ended yet.
PageBetween ==
    \A s \in Scrapers : \A i \in 1..Len(page[s]) :
        floor[s][i] <= page[s][i] /\ page[s][i] <= begun[i]
=============================================================================
