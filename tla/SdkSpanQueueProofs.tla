------------------------- MODULE SdkSpanQueueProofs -------------------------
(***************************************************************************)
(* Proofs about SdkSpanQueue, for any number of spans, batch size and      *)
(* retries, and for any answers of the server.                             *)
(*                                                                         *)
(* The invariant says where the spans are: those that nobody holds were    *)
(* taken by the server, the one flush that is under way holds the oldest   *)
(* of the others, and the queue holds the rest.                            *)
(***************************************************************************)
EXTENDS SdkSpanQueue, TLAPS

Held == Sending \cup queue

\* At most one flush is under way, and exactly while `flushing` is set.
OneFlight ==
  /\ \A f, g \in flights : f = g
  /\ flushing <=> flights # {}

\* What was enqueued is held or was taken, and only that.
HeldOrTaken ==
  /\ Held \subseteq 1..enqueued
  /\ \A s \in 1..enqueued : s \in Held \/ delivered[s] > 0
  /\ \A s \in Span : s > enqueued => delivered[s] = 0

\* Spans leave in the order in which they came: those held are the latest, and a
\* flush has earlier ones than the queue.
InOrder ==
  /\ \A s \in Held, e \in 1..enqueued : e \notin Held => e < s
  /\ \A f \in flights : \A s \in f.spans, e \in queue : s < e

\* A span that is sent again was taken only by requests whose answer was lost.
TakenUnseen == \A s \in Held : delivered[s] <= lostReplies[s]

IInv ==
  /\ TypeOK /\ OneFlight /\ HeldOrTaken /\ InOrder /\ TakenUnseen
  /\ DeliveredInOrder /\ DuplicatesExplained

-----------------------------------------------------------------------------
(* What is held, without the union of the flights. *)

LEMMA InHeld == \A s : s \in Held <=> s \in queue \/ \E f \in flights : s \in f.spans
BY DEF Held, Sending

LEMMA InHeldAfter == \A s : s \in Held' <=> s \in queue' \/ \E f \in flights' : s \in f.spans
BY DEF Held, Sending

LEMMA TheFlight ==
  ASSUME IInv, NEW f \in flights
  PROVE  /\ flights = {f} /\ flushing
         /\ f \in Flight /\ f.spans \subseteq Span /\ f.attempt \in 0..MaxRetries
         /\ \A s : s \in Held <=> s \in queue \/ s \in f.spans
<1>1. flights = {f} /\ flushing
  BY DEF IInv, OneFlight
<1>2. f \in Flight
  BY DEF IInv, TypeOK
<1>3. QED BY <1>1, <1>2, InHeld DEF Flight

LEMMA HeldEnqueued ==
  ASSUME IInv, NEW s \in Held
  PROVE  s \in Span /\ s \in Nat /\ 1 <= s /\ s <= enqueued /\ s \in 1..enqueued
<1>1. s \in 1..enqueued
  BY DEF IInv, HeldOrTaken
<1>2. enqueued \in Nat /\ enqueued <= MaxSpans /\ MaxSpans \in Nat
  BY SdkSpanQueueAssumption DEF IInv, TypeOK
<1>3. QED BY <1>1, <1>2 DEF Span

LEMMA InitInv == Init => IInv
<1> SUFFICES ASSUME Init PROVE IInv
  OBVIOUS
<1>1. TypeOK
  <2>1. 0 \in 0..MaxLostReplies /\ 0 \in 0..MaxLostReplies+1 /\ 0 \in 0..MaxSpans
    BY SdkSpanQueueAssumption
  <2>2. QED BY <2>1 DEF Init, TypeOK
<1>2. Held = {}
  BY InHeld DEF Init
<1>3. OneFlight /\ HeldOrTaken /\ InOrder /\ TakenUnseen
  BY <1>2 DEF Init, OneFlight, HeldOrTaken, InOrder, TakenUnseen
<1>4. DeliveredInOrder /\ DuplicatesExplained
  BY DEF Init, DeliveredInOrder, DuplicatesExplained
<1>5. QED BY <1>1, <1>3, <1>4 DEF IInv

-----------------------------------------------------------------------------
(* enqueue(), flush() and shutdown(). *)

\* The new span, if there is one, is the latest; the queue becomes the flight as it is.
LEMMA FlushInv ==
  ASSUME IInv, NEW n \in {enqueued, enqueued + 1}, n <= MaxSpans, enqueued' = n,
         NEW q, \A s : s \in q <=> s \in queue \/ (s = n /\ n # enqueued),
         \/ Flush(q)
         \/ queue' = q /\ UNCHANGED <<flushing, flights>>,
         timer' \in BOOLEAN, closed' \in BOOLEAN,
         UNCHANGED server
  PROVE  IInv'
<1>1. /\ enqueued \in Nat /\ n \in Nat /\ enqueued <= n /\ n \in 0..MaxSpans
      /\ q \subseteq Span /\ queue \subseteq Span
      /\ UNCHANGED <<delivered, lostReplies>>
  <2>1. enqueued \in 0..MaxSpans /\ MaxSpans \in Nat /\ queue \subseteq Span
    BY SdkSpanQueueAssumption DEF IInv, TypeOK
  <2>2. enqueued \in Nat /\ n \in Nat /\ enqueued <= n /\ n \in 0..MaxSpans
    BY <2>1
  <2>3. q \subseteq Span
    <3>1. n # enqueued => n \in Span
      BY <2>1, <2>2 DEF Span
    <3>2. QED BY <2>1, <3>1
  <2>4. QED BY <2>1, <2>2, <2>3 DEF server
<1>2. TypeOK' /\ OneFlight'
  <2>1. CASE Flush(q)
    <3>1. /\ flights = {} /\ flushing' = TRUE /\ queue' = {}
          /\ flights' = {[spans |-> q, attempt |-> 0]}
      BY <2>1 DEF Flush, IInv, OneFlight
    <3>2. [spans |-> q, attempt |-> 0] \in Flight
      BY <1>1, SdkSpanQueueAssumption DEF Flight
    <3>3. QED BY <1>1, <3>1, <3>2 DEF IInv, TypeOK, OneFlight
  <2>2. CASE queue' = q /\ UNCHANGED <<flushing, flights>>
    BY <1>1, <2>2 DEF IInv, TypeOK, OneFlight
  <2>3. QED BY <2>1, <2>2
<1>3. \A s : s \in Held' <=> s \in Held \/ (s = n /\ n # enqueued)
  <2>1. CASE Flush(q)
    <3>1. /\ flights = {} /\ queue' = {}
          /\ flights' = {[spans |-> q, attempt |-> 0]}
      BY <2>1 DEF Flush, IInv, OneFlight
    <3>2. QED BY <3>1, InHeld, InHeldAfter
  <2>2. CASE queue' = q /\ UNCHANGED flights
    BY <2>2, InHeld, InHeldAfter
  <2>3. QED BY <2>1, <2>2
<1>4. \A s : s \in Held => s \in Nat /\ 1 <= s /\ s <= enqueued
  BY <1>1 DEF IInv, HeldOrTaken
<1>5. HeldOrTaken'
  <2>1. \A s : s \in 1..n => s \in 1..enqueued \/ (s = n /\ n # enqueued)
    BY <1>1
  <2>2. Held' \subseteq 1..n
    BY <1>1, <1>3, <1>4
  <2>3. \A s \in 1..n : s \in Held' \/ delivered[s] > 0
    BY <1>3, <2>1 DEF IInv, HeldOrTaken
  <2>4. \A s \in Span : s > n => delivered[s] = 0
    BY <1>1 DEF IInv, HeldOrTaken, Span
  <2>5. QED BY <1>1, <2>2, <2>3, <2>4 DEF HeldOrTaken
<1>6. TakenUnseen'
  <2>1. n # enqueued => n \in Span /\ n > enqueued
    BY <1>1 DEF Span
  <2>2. n # enqueued => delivered[n] = 0 /\ lostReplies[n] \in Nat
    BY <2>1, SdkSpanQueueAssumption DEF IInv, TypeOK, HeldOrTaken
  <2>3. QED BY <1>1, <1>3, <2>2 DEF IInv, TakenUnseen
<1>7. InOrder'
  <2>1. \A s \in Held', e \in 1..n : e \notin Held' => e < s
    <3> SUFFICES ASSUME NEW s \in Held', NEW e \in 1..n, e \notin Held' PROVE e < s
      OBVIOUS
    <3>1. e \in 1..enqueued /\ e \notin Held
      BY <1>1, <1>3
    <3>2. CASE s \in Held
      BY <3>1, <3>2 DEF IInv, InOrder
    <3>3. CASE s = n /\ n # enqueued
      BY <1>1, <3>1, <3>3
    <3>4. QED BY <1>3, <3>2, <3>3
  <2>2. \A f \in flights' : \A s \in f.spans, e \in queue' : s < e
    <3>1. CASE Flush(q)
      BY <3>1 DEF Flush
    <3>2. CASE queue' = q /\ UNCHANGED <<flushing, flights>>
      <4> SUFFICES ASSUME NEW f \in flights, NEW s \in f.spans, NEW e \in q PROVE s < e
        BY <3>2
      <4>1. s \in Nat /\ s <= enqueued
        BY <1>4, InHeld
      <4>2. CASE e \in queue
        BY <4>2 DEF IInv, InOrder
      <4>3. CASE e = n /\ n # enqueued
        BY <1>1, <4>1, <4>3
      <4>4. QED BY <4>2, <4>3
    <3>3. QED BY <3>1, <3>2
  <2>3. QED BY <1>1, <2>1, <2>2 DEF InOrder
<1>8. DeliveredInOrder' /\ DuplicatesExplained'
  BY <1>1 DEF IInv, DeliveredInOrder, DuplicatesExplained
<1>9. QED BY <1>2, <1>5, <1>6, <1>7, <1>8 DEF IInv

LEMMA EnqueueInv == IInv /\ Enqueue => IInv'
<1> SUFFICES ASSUME IInv, Enqueue PROVE IInv'
  OBVIOUS
<1> DEFINE n == enqueued + 1
           q == queue \cup {n}
<1>1. /\ ~closed /\ enqueued < MaxSpans /\ enqueued' = n
      /\ UNCHANGED <<timer, closed, server>>
  BY DEF Enqueue
<1>2. Flush(q) \/ (queue' = q /\ UNCHANGED <<flushing, flights>>)
  BY <1>1 DEF Enqueue, NoFlush
<1>3. enqueued \in Nat /\ n <= MaxSpans /\ n \in {enqueued, enqueued + 1}
  BY <1>1, SdkSpanQueueAssumption DEF IInv, TypeOK
<1>4. \A s : s \in q <=> s \in queue \/ (s = n /\ n # enqueued)
  BY <1>3
<1> HIDE DEF n, q
<1>5. /\ timer' \in BOOLEAN /\ closed' \in BOOLEAN
  BY <1>1 DEF IInv, TypeOK, OneFlight
<1>6. QED BY <1>1, <1>2, <1>3, <1>4, <1>5, FlushInv

LEMMA NobodyEnqueues ==
  ASSUME IInv, UNCHANGED <<enqueued, server>>,
         Flush(queue) \/ NoFlush(queue),
         timer' \in BOOLEAN, closed' \in BOOLEAN
  PROVE  IInv'
<1>1. enqueued \in {enqueued, enqueued + 1} /\ enqueued <= MaxSpans /\ enqueued \in Nat
  BY SdkSpanQueueAssumption DEF IInv, TypeOK
<1>3. Flush(queue) \/ (queue' = queue /\ UNCHANGED <<flushing, flights>>)
  BY DEF NoFlush
<1>4. QED BY <1>1, <1>3, FlushInv

\* The timer's flush and the application's.
LEMMA FlushesInv == IInv /\ (TimerFlush \/ AppFlush) => IInv'
<1> SUFFICES ASSUME IInv, TimerFlush \/ AppFlush PROVE IInv'
  OBVIOUS
<1>1. Flush(queue) /\ UNCHANGED <<enqueued, timer, closed, server>>
  BY DEF TimerFlush, AppFlush
<1>2. timer' \in BOOLEAN /\ closed' \in BOOLEAN
  BY <1>1 DEF IInv, TypeOK
<1>3. QED BY <1>1, <1>2, NobodyEnqueues

LEMMA ShutdownInv == IInv /\ Shutdown => IInv'
<1> SUFFICES ASSUME IInv, Shutdown PROVE IInv'
  OBVIOUS
<1>1. /\ closed' \in BOOLEAN /\ timer' \in BOOLEAN /\ UNCHANGED <<enqueued, server>>
      /\ Flush(queue) \/ NoFlush(queue)
  BY DEF Shutdown
<1>2. QED BY <1>1, NobodyEnqueues

-----------------------------------------------------------------------------
(* The answer to an attempt of flight f: what the server did, what the SDK   *)
(* does, and the two together.                                               *)

\* A request takes spans that nobody has seen answered, and the oldest first.
LEMMA TakeKeepsOrder ==
  ASSUME IInv, NEW f \in flights, Take(f)
  PROVE  /\ \A s \in Span : /\ s \in f.spans => delivered'[s] = delivered[s] + 1
                            /\ s \notin f.spans => delivered'[s] = delivered[s]
         /\ \A s \in Span : delivered[s] > 0 => delivered'[s] > 0
         /\ \A s \in f.spans : delivered'[s] > 0 /\ delivered[s] <= lostReplies[s]
         /\ delivered' \in [Span -> 0..MaxLostReplies + 1]
         /\ DeliveredInOrder'
<1> USE SdkSpanQueueAssumption
<1>1. /\ delivered \in [Span -> Nat] /\ lostReplies \in [Span -> 0..MaxLostReplies]
      /\ \A s \in Span : delivered[s] <= MaxLostReplies + 1 /\ delivered[s] \in Nat
      /\ enqueued \in Nat
  BY DEF IInv, TypeOK
<1>2. /\ f.spans \subseteq Span
      /\ \A s : s \in Held <=> s \in queue \/ s \in f.spans
  BY TheFlight
<1>3. \A s \in Span : /\ s \in f.spans => delivered'[s] = delivered[s] + 1
                      /\ s \notin f.spans => delivered'[s] = delivered[s]
  BY <1>1 DEF Take
<1>4. \A s \in Span : delivered[s] > 0 => delivered'[s] > 0
  BY <1>1, <1>3
<1>5. \A s \in f.spans : delivered'[s] > 0 /\ delivered[s] <= lostReplies[s]
  BY <1>1, <1>2, <1>3 DEF IInv, TakenUnseen
<1>6. delivered' \in [Span -> 0..MaxLostReplies + 1]
  <2>1. \A s \in Span : delivered'[s] \in 0..MaxLostReplies + 1
    <3> SUFFICES ASSUME NEW s \in Span PROVE delivered'[s] \in 0..MaxLostReplies + 1
      OBVIOUS
    <3>1. CASE s \in f.spans
      <4>1. lostReplies[s] \in 0..MaxLostReplies /\ delivered[s] <= lostReplies[s]
        BY <1>1, <1>5, <3>1
      <4>2. QED BY <1>1, <1>3, <3>1, <4>1
    <3>2. CASE s \notin f.spans
      BY <1>1, <1>3, <3>2
    <3>3. QED BY <3>1, <3>2
  <2>2. QED BY <2>1 DEF Take
<1>7. DeliveredInOrder'
  <2> SUFFICES ASSUME NEW s \in Span, delivered'[s] > 0, NEW e \in 1..s
               PROVE  delivered'[e] > 0
    BY DEF DeliveredInOrder
  <2>1. e \in Span /\ e <= s /\ e \in Nat /\ s \in Nat
    BY DEF Span
  <2>2. CASE s \in f.spans
    <3>1. s <= enqueued
      BY <1>2, <2>2, HeldEnqueued
    <3>2. e \in 1..enqueued
      BY <1>1, <2>1, <3>1
    <3>3. e \in Held \/ delivered[e] > 0
      BY <3>2 DEF IInv, HeldOrTaken
    <3>4. e \notin queue
      BY <2>1, <2>2 DEF IInv, InOrder
    <3>5. QED BY <1>2, <1>4, <1>5, <2>1, <3>3, <3>4
  <2>3. CASE s \notin f.spans
    BY <1>3, <1>4, <2>1, <2>3 DEF IInv, DeliveredInOrder
  <2>4. QED BY <2>2, <2>3
<1>8. QED BY <1>3, <1>4, <1>5, <1>6, <1>7

\* A batch that is tried again or put back stays held, in front of the queue.
LEMMA RetryKeepsHeld ==
  ASSUME IInv, NEW f \in flights, RetryOrGiveBack(f) \/ GiveBack(f)
  PROVE  /\ UNCHANGED <<enqueued, timer, closed>>
         /\ queue' \subseteq Span /\ flushing' \in BOOLEAN /\ flights' \subseteq Flight
         /\ OneFlight'
         /\ \A s : s \in Held' <=> s \in Held
         /\ \A g \in flights' : \A s \in g.spans, e \in queue' : s < e
<1> USE SdkSpanQueueAssumption
<1>1. /\ flights = {f} /\ flushing
      /\ f \in Flight /\ f.spans \subseteq Span /\ f.attempt \in 0..MaxRetries
      /\ \A s : s \in Held <=> s \in queue \/ s \in f.spans
  BY TheFlight
<1>2. /\ queue \subseteq Span
      /\ \A s \in f.spans, e \in queue : s < e
  BY DEF IInv, TypeOK, OneFlight, InOrder
<1>3. CASE GiveBack(f)
  <2>1. /\ flights' = {} /\ flushing' = FALSE /\ queue' = f.spans \cup queue
        /\ UNCHANGED <<enqueued, timer, closed>>
    BY <1>1, <1>3 DEF GiveBack, Finish
  <2>2. \A s : s \in Held' <=> s \in Held
    BY <1>1, <2>1, InHeldAfter
  <2>3. OneFlight'
    BY <1>2, <2>1 DEF OneFlight
  <2>4. QED BY <1>1, <1>2, <2>1, <2>2, <2>3
<1>4. CASE RetryOrGiveBack(f) /\ f.attempt < MaxRetries
  <2> DEFINE g == [f EXCEPT !.attempt = f.attempt + 1]
  <2>1. /\ flights' = {g}
        /\ UNCHANGED <<enqueued, queue, flushing, timer, closed>>
    BY <1>1, <1>4 DEF RetryOrGiveBack
  <2>2. f.attempt + 1 \in 0..MaxRetries
    BY <1>1, <1>4
  <2>3. g \in Flight /\ g.spans = f.spans
    BY <1>1, <2>2 DEF Flight
  <2> HIDE DEF g
  <2>4. \A s : s \in Held' <=> s \in Held
    BY <1>1, <2>1, <2>3, InHeldAfter
  <2>5. OneFlight'
    BY <1>1, <1>2, <2>1 DEF OneFlight
  <2>6. flushing' \in BOOLEAN
    BY <2>1 DEF IInv, TypeOK
  <2>7. QED BY <1>1, <1>2, <2>1, <2>3, <2>4, <2>5, <2>6
<1>5. QED BY <1>3, <1>4 DEF RetryOrGiveBack

LEMMA RetryInv ==
  ASSUME IInv, NEW f \in flights, Failed(f) \/ Thrown(f) \/ ReplyLost(f)
  PROVE  IInv'
<1> USE SdkSpanQueueAssumption
<1>1. RetryOrGiveBack(f) \/ GiveBack(f)
  BY DEF Failed, Thrown, ReplyLost
<1>2. /\ UNCHANGED <<enqueued, timer, closed>>
      /\ queue' \subseteq Span /\ flushing' \in BOOLEAN /\ flights' \subseteq Flight
      /\ OneFlight'
      /\ \A s : s \in Held' <=> s \in Held
      /\ \A g \in flights' : \A s \in g.spans, e \in queue' : s < e
  BY <1>1, RetryKeepsHeld
<1>3. Held \subseteq Span
  <2>1. f.spans \subseteq Span /\ queue \subseteq Span
    BY TheFlight DEF IInv, TypeOK
  <2>2. QED BY <2>1, TheFlight
<1>4. /\ delivered' \in [Span -> 0..MaxLostReplies + 1]
      /\ lostReplies' \in [Span -> 0..MaxLostReplies]
      /\ DeliveredInOrder' /\ DuplicatesExplained' /\ TakenUnseen'
      /\ \A s \in Span : delivered[s] > 0 => delivered'[s] > 0
      /\ \A s \in Span : s \notin Held => delivered'[s] = delivered[s]
  <2>1. CASE UNCHANGED <<delivered, lostReplies>>
    BY <1>2, <2>1 DEF IInv, TypeOK, DeliveredInOrder, DuplicatesExplained, TakenUnseen
  <2>2. CASE ReplyLost(f)
    <3>1. /\ \A s \in Span : /\ s \in f.spans => delivered'[s] = delivered[s] + 1
                             /\ s \notin f.spans => delivered'[s] = delivered[s]
          /\ \A s \in Span : delivered[s] > 0 => delivered'[s] > 0
          /\ \A s \in f.spans : delivered[s] <= lostReplies[s]
          /\ delivered' \in [Span -> 0..MaxLostReplies + 1]
          /\ DeliveredInOrder'
      BY <2>2, TakeKeepsOrder DEF ReplyLost
    <3>2. /\ delivered \in [Span -> 0..MaxLostReplies + 1]
          /\ lostReplies \in [Span -> 0..MaxLostReplies]
      BY DEF IInv, TypeOK
    <3>3. \A s \in Span : /\ s \in f.spans => lostReplies'[s] = lostReplies[s] + 1
                          /\ s \notin f.spans => lostReplies'[s] = lostReplies[s]
      BY <2>2, <3>2 DEF ReplyLost
    <3>4. lostReplies' \in [Span -> 0..MaxLostReplies]
      <4>1. \A s \in Span : lostReplies'[s] \in 0..MaxLostReplies
        <5> SUFFICES ASSUME NEW s \in Span PROVE lostReplies'[s] \in 0..MaxLostReplies
          OBVIOUS
        <5>1. s \in f.spans => lostReplies[s] < MaxLostReplies
          BY <2>2 DEF ReplyLost
        <5>2. QED BY <3>2, <3>3, <5>1
      <4>2. QED BY <2>2, <4>1 DEF ReplyLost
    <3>5. DuplicatesExplained'
      <4> SUFFICES ASSUME NEW s \in Span PROVE delivered'[s] <= 1 + lostReplies'[s]
        BY DEF DuplicatesExplained
      <4>1. delivered[s] \in Nat /\ lostReplies[s] \in Nat /\ delivered[s] <= 1 + lostReplies[s]
        BY <3>2 DEF IInv, DuplicatesExplained
      <4>2. QED BY <3>1, <3>3, <4>1
    <3>6. TakenUnseen'
      <4> SUFFICES ASSUME NEW s \in Held PROVE delivered'[s] <= lostReplies'[s]
        BY <1>2 DEF TakenUnseen
      <4>1. s \in Span /\ delivered[s] \in Nat /\ lostReplies[s] \in Nat
            /\ delivered[s] <= lostReplies[s]
        BY <1>3, <3>2 DEF IInv, TakenUnseen
      <4>2. QED BY <3>1, <3>3, <4>1
    <3>7. \A s \in Span : s \notin Held => delivered'[s] = delivered[s]
      BY <3>1, TheFlight
    <3>8. QED BY <3>1, <3>4, <3>5, <3>6, <3>7
  <2>3. QED BY <2>1, <2>2 DEF Failed, Thrown, server
<1>5. TypeOK'
  BY <1>2, <1>4 DEF IInv, TypeOK
<1>6. HeldOrTaken'
  <2>1. enqueued \in Nat /\ (\A s \in 1..enqueued : s \in Span)
    BY DEF IInv, TypeOK, Span
  <2>2. \A s \in Span : s > enqueued => s \notin Held
    BY <2>1, HeldEnqueued DEF Span
  <2>3. QED BY <1>2, <1>4, <2>1, <2>2 DEF IInv, HeldOrTaken
<1>7. InOrder'
  BY <1>2 DEF IInv, InOrder
<1>8. QED BY <1>2, <1>4, <1>5, <1>6, <1>7 DEF IInv

\* What was taken and answered is held no more.
LEMMA OkInv ==
  ASSUME IInv, NEW f \in flights, Ok(f)
  PROVE  IInv'
<1> USE SdkSpanQueueAssumption
<1>1. /\ flights = {f} /\ flushing /\ f.spans \subseteq Span
      /\ \A s : s \in Held <=> s \in queue \/ s \in f.spans
  BY TheFlight
<1>2. /\ flights' = {} /\ flushing' = FALSE
      /\ UNCHANGED <<enqueued, queue, timer, closed, lostReplies>>
  BY <1>1 DEF Ok, Finish
<1>3. \A s : s \in Held' <=> s \in queue
  BY <1>2, InHeldAfter
<1>4. /\ \A s \in Span : /\ s \in f.spans => delivered'[s] = delivered[s] + 1
                         /\ s \notin f.spans => delivered'[s] = delivered[s]
      /\ \A s \in Span : delivered[s] > 0 => delivered'[s] > 0
      /\ \A s \in f.spans : delivered'[s] > 0 /\ delivered[s] <= lostReplies[s]
      /\ delivered' \in [Span -> 0..MaxLostReplies + 1]
      /\ DeliveredInOrder'
  BY TakeKeepsOrder DEF Ok
<1>5. /\ delivered \in [Span -> 0..MaxLostReplies + 1]
      /\ lostReplies \in [Span -> 0..MaxLostReplies]
      /\ enqueued \in 0..MaxSpans /\ queue \subseteq Span
      /\ Held \subseteq 1..enqueued
  BY DEF IInv, TypeOK, HeldOrTaken
<1>6. \A s \in queue : s \in Held /\ s \notin f.spans
  <2> SUFFICES ASSUME NEW s \in queue, s \in f.spans PROVE FALSE
    BY <1>1
  <2>1. s < s /\ s \in Nat
    BY <1>5 DEF IInv, InOrder, Span
  <2>2. QED BY <2>1
<1>7. TypeOK'
  BY <1>2, <1>4 DEF IInv, TypeOK
<1>8. OneFlight'
  BY <1>2 DEF IInv, OneFlight
<1>9. HeldOrTaken'
  <2>1. \A s \in 1..enqueued : s \in Span
    BY <1>5 DEF Span
  <2>2. Held' \subseteq 1..enqueued
    BY <1>3, <1>5, <1>6
  <2>3. \A s \in 1..enqueued : s \in Held' \/ delivered'[s] > 0
    BY <1>1, <1>3, <1>4, <2>1 DEF IInv, HeldOrTaken
  <2>4. \A s \in Span : s > enqueued => delivered'[s] = 0
    <3> SUFFICES ASSUME NEW s \in Span, s > enqueued PROVE delivered'[s] = 0
      OBVIOUS
    <3>1. s \notin f.spans
      <4>1. s \notin Held
        BY <1>5, HeldEnqueued DEF Span
      <4>2. QED BY <1>1, <4>1
    <3>2. QED BY <1>4, <3>1 DEF IInv, HeldOrTaken
  <2>5. QED BY <1>2, <2>2, <2>3, <2>4 DEF HeldOrTaken
<1>10. InOrder'
  <2>1. \A s \in queue, e \in 1..enqueued : e \notin queue => e < s
    BY <1>1, <1>6 DEF IInv, InOrder
  <2>2. QED BY <1>2, <1>3, <2>1 DEF InOrder
<1>11. TakenUnseen'
  BY <1>2, <1>3, <1>4, <1>5, <1>6 DEF IInv, TakenUnseen
<1>12. DuplicatesExplained'
  <2> SUFFICES ASSUME NEW s \in Span PROVE delivered'[s] <= 1 + lostReplies[s]
    BY <1>2 DEF DuplicatesExplained
  <2>1. delivered[s] \in Nat /\ lostReplies[s] \in Nat /\ delivered[s] <= 1 + lostReplies[s]
    BY <1>5 DEF IInv, DuplicatesExplained
  <2>2. QED BY <1>4, <2>1
<1>13. QED BY <1>4, <1>7, <1>8, <1>9, <1>10, <1>11, <1>12 DEF IInv

LEMMA NextInv == IInv /\ [Next]_vars => IInv'
<1> SUFFICES ASSUME IInv, [Next]_vars PROVE IInv'
  OBVIOUS
<1>1. CASE \E f \in flights : Answered(f)
  BY <1>1, OkInv, RetryInv DEF Answered
<1>2. CASE UNCHANGED vars
  BY <1>2, InHeld, InHeldAfter DEF vars, IInv, TypeOK, OneFlight, HeldOrTaken, InOrder,
     TakenUnseen, DeliveredInOrder, DuplicatesExplained
<1>3. QED BY <1>1, <1>2, EnqueueInv, FlushesInv, ShutdownInv DEF Next

\* The inductive invariant holds in every reachable state of the queue (span-queue.ts).
THEOREM SdkSpanQueueInvariant == Spec => []IInv
BY InitInv, NextInv, PTL DEF Spec

\* Whatever the server answers, and whoever calls flush(): the server gets the spans in
\* the order in which they were enqueued, a span twice only if an answer was lost, and
\* the queue keeps a span until then, closed or not.
THEOREM SdkSpanQueueDelivers == Spec => []DeliveryIsSafe
<1>1. IInv => DeliveryIsSafe
  BY DEF IInv, DeliveryIsSafe, HeldOrTaken, Held, KeptUntilTaken
<1>2. QED BY <1>1, SdkSpanQueueInvariant, PTL

-----------------------------------------------------------------------------
(* Refinement: each action maps to an action of SpanLedger or to a stutter.  *)

\* The spans that the ledger calls pending.
Pending == {s \in Span : delivered[s] = 0 /\ s \in Sending \cup queue}

\* Spans change their fate from pending to another one by leaving Pending.
LEMMA LedgerMove ==
  ASSUME IInv, NEW S \in SUBSET Span, NEW to \in {"durable", "lost"},
         S \subseteq Pending, UNCHANGED enqueued,
         \A s \in Span : s \in Pending' <=> s \in Pending /\ s \notin S,
         \A s \in Span : (delivered'[s] > 0) <=> (delivered[s] > 0 \/ (s \in S /\ to = "durable")),
         delivered' \in [Span -> Nat]
  PROVE  Ledger!Move(S, "pending", to)
<1>1. delivered \in [Span -> Nat]
  BY SdkSpanQueueAssumption DEF IInv, TypeOK
<1>2. ASSUME NEW s \in Span
      PROVE  /\ s \in S => FateOf(s) = "pending"
             /\ FateOf(s)' = IF s \in S THEN to ELSE FateOf(s)
  <2>1. delivered[s] \in Nat /\ delivered'[s] \in Nat
    BY <1>1
  <2>2. s \in Sending => s \in Held
    BY DEF Held
  <2>3. s \in queue => s \in Held
    BY DEF Held
  <2>4. s \in Held => s <= enqueued
    BY HeldEnqueued
  <2>5. CASE s \in S
    <3>1. s \in Pending /\ s \notin Pending'
      BY <2>5
    <3>2. delivered[s] = 0 /\ s \in Sending \cup queue
      BY <3>1 DEF Pending
    <3>3. FateOf(s) = "pending" /\ s <= enqueued
      BY <2>2, <2>3, <2>4, <3>2 DEF FateOf
    <3>4. CASE to = "durable"
      BY <2>5, <3>3, <3>4 DEF FateOf
    <3>5. CASE to = "lost"
      <4>1. ~(delivered'[s] > 0) /\ delivered'[s] = 0
        BY <2>1, <2>5, <3>2, <3>5
      <4>2. ~s \in Sending' \cup queue'
        BY <3>1, <4>1 DEF Pending
      <4>3. FateOf(s)' = "lost"
        BY <3>3, <4>1, <4>2 DEF FateOf
      <4>4. QED BY <2>5, <3>3, <3>5, <4>3
    <3>6. QED BY <3>4, <3>5
  <2>6. CASE s \notin S
    <3>1. delivered'[s] > 0 <=> delivered[s] > 0
      BY <2>6
    <3>2. s \in Pending' <=> s \in Pending
      BY <2>6
    <3>3. CASE delivered[s] > 0
      BY <2>6, <3>1, <3>3 DEF FateOf
    <3>4. CASE ~(delivered[s] > 0)
      <4>1. delivered[s] = 0 /\ delivered'[s] = 0
        BY <2>1, <3>1, <3>4
      <4>2. s \in Sending' \cup queue' <=> s \in Sending \cup queue
        BY <3>2, <4>1 DEF Pending
      <4>3. FateOf(s)' = FateOf(s)
        BY <3>1, <3>4, <4>2 DEF FateOf
      <4>4. QED BY <2>6, <4>3
    <3>5. QED BY <3>3, <3>4
  <2>7. QED BY <2>5, <2>6
<1>3. QED BY <1>2 DEF Ledger!Move

\* Moving nothing, with `closed` as it was, is a stutter.
LEMMA MoveNothing ==
  ASSUME Ledger!Move({}, "pending", "lost"), UNCHANGED closed
  PROVE  UNCHANGED Ledger!vars
<1>1. [s \in Span |-> FateOf(s)]' = [s \in Span |-> FateOf(s)]
  BY DEF Ledger!Move
<1>2. QED BY <1>1 DEF Ledger!vars

\* What is being sent, without the union of the flights.
LEMMA InSending == \A s : s \in Sending <=> \E f \in flights : s \in f.spans
BY DEF Sending

LEMMA InSendingAfter == \A s : s \in Sending' <=> \E f \in flights' : s \in f.spans
BY DEF Sending

\* The steps that keep what is held leave every fate as it is.
LEMMA SameHeldMovesNothing ==
  ASSUME IInv, UNCHANGED <<enqueued, delivered>>, \A s : s \in Held' <=> s \in Held
  PROVE  Ledger!Move({}, "pending", "lost")
<1>1. delivered \in [Span -> Nat] /\ UNCHANGED <<enqueued, delivered>>
  BY SdkSpanQueueAssumption DEF IInv, TypeOK
<1>2. \A s \in Span : s \in Pending' <=> s \in Pending
  BY <1>1 DEF Pending, Held
<1>3. QED BY <1>1, <1>2, LedgerMove

LEMMA SameHeldStutters ==
  ASSUME IInv, UNCHANGED <<enqueued, delivered, closed>>, \A s : s \in Held' <=> s \in Held
  PROVE  UNCHANGED Ledger!vars
BY SameHeldMovesNothing, MoveNothing

\* enqueue() is the ledger's Accept.
LEMMA EnqueueAccepts == IInv /\ Enqueue => Ledger!Accept
<1> SUFFICES ASSUME IInv, Enqueue PROVE Ledger!Accept
  OBVIOUS
<1> DEFINE n == enqueued + 1
           q == queue \cup {n}
<1>1. ~closed /\ enqueued < MaxSpans /\ enqueued' = n /\ UNCHANGED <<closed, delivered>>
  BY DEF Enqueue, server
<1>2. Flush(q) \/ (queue' = q /\ UNCHANGED flights)
  BY <1>1 DEF Enqueue, NoFlush
<1>3. n \in Span /\ enqueued \in Nat
  BY <1>1, SdkSpanQueueAssumption DEF IInv, TypeOK, Span
<1>4. delivered[n] = 0 /\ n \notin Held
  <2>1. n > enqueued
    BY <1>3
  <2>2. QED BY <1>3, <2>1, HeldEnqueued DEF IInv, HeldOrTaken
<1> HIDE DEF n
<1>5. \A s : s \in Held' <=> s \in Held \/ s = n
  <2>1. CASE Flush(q)
    <3>1. /\ flights = {} /\ queue' = {}
          /\ flights' = {[spans |-> q, attempt |-> 0]}
      BY <2>1 DEF Flush, IInv, OneFlight
    <3>2. QED BY <3>1, InHeld, InHeldAfter
  <2>2. CASE queue' = q /\ UNCHANGED flights
    BY <2>2, InHeld, InHeldAfter
  <2>3. QED BY <1>2, <2>1, <2>2
<1>6. ASSUME NEW s \in Span
      PROVE  /\ s = n => FateOf(s) = "absent" /\ FateOf(s)' = "pending"
             /\ s # n => FateOf(s)' = FateOf(s)
  <2>1. CASE s = n
    <3>1. ~(s <= enqueued)
      BY <1>3, <2>1 DEF n
    <3>2. QED BY <1>1, <1>4, <1>5, <2>1, <3>1 DEF FateOf, Held
  <2>2. CASE s # n
    <3>1. s <= enqueued' <=> s <= enqueued
      BY <1>1, <1>3, <2>2 DEF Span, n
    <3>2. QED BY <1>1, <1>5, <2>2, <3>1 DEF FateOf, Held
  <2>3. QED BY <2>1, <2>2
<1>7. PICK m \in Span : m = n
  BY <1>3
<1>8. Ledger!Move({m}, "absent", "pending")
  BY <1>6, <1>7 DEF Ledger!Move
<1>9. QED BY <1>1, <1>8 DEF Ledger!Accept

\* A flush, and one that returns at once, keeps what is held.
LEMMA FlushKeepsHeld ==
  ASSUME IInv, Flush(queue) \/ NoFlush(queue)
  PROVE  \A s : s \in Held' <=> s \in Held
<1>1. CASE Flush(queue)
  <2>1. /\ flights = {} /\ queue' = {}
        /\ flights' = {[spans |-> queue, attempt |-> 0]}
    BY <1>1 DEF Flush, IInv, OneFlight
  <2>2. QED BY <2>1, InHeld, InHeldAfter
<1>2. CASE NoFlush(queue)
  BY <1>2, InHeld, InHeldAfter DEF NoFlush
<1>3. QED BY <1>1, <1>2

LEMMA FlushesStutter == IInv /\ (TimerFlush \/ AppFlush) => UNCHANGED Ledger!vars
BY FlushKeepsHeld, SameHeldStutters DEF TimerFlush, AppFlush, server

\* shutdown() begins, or repeats, the end of the queue, and gives nothing up.
LEMMA ShutdownGivesUp == IInv /\ Shutdown => Ledger!GiveUp
<1> SUFFICES ASSUME IInv, Shutdown PROVE Ledger!GiveUp
  OBVIOUS
<1>1. closed' = TRUE /\ UNCHANGED <<enqueued, delivered>> /\ \A s : s \in Held' <=> s \in Held
  BY FlushKeepsHeld DEF Shutdown, server
<1>2. Ledger!Move({}, "pending", "lost")
  BY <1>1, SameHeldMovesNothing
<1>3. QED BY <1>1, <1>2 DEF Ledger!GiveUp

\* The batch that the server takes, whether its answer arrives or not, settles.
LEMMA TakenSettles ==
  ASSUME IInv, NEW f \in flights, Ok(f) \/ ReplyLost(f)
  PROVE  Ledger!Settle
<1> USE SdkSpanQueueAssumption
<1>1. /\ flights = {f} /\ f.spans \subseteq Span
      /\ \A s : s \in Held <=> s \in queue \/ s \in f.spans
  BY TheFlight
<1>2. /\ \A s \in Span : s \notin f.spans => delivered'[s] = delivered[s]
      /\ \A s \in Span : delivered[s] > 0 => delivered'[s] > 0
      /\ \A s \in f.spans : delivered'[s] > 0
      /\ delivered' \in [Span -> Nat] /\ delivered \in [Span -> Nat]
  BY TakeKeepsOrder DEF Ok, ReplyLost, IInv, TypeOK
<1>3. /\ UNCHANGED <<enqueued, closed>>
      /\ \A s : s \in Sending' => s \in f.spans
      /\ \A s : s \in queue' => s \in queue \/ s \in f.spans
      /\ \A s : s \in queue => s \in queue'
  <2>1. CASE Ok(f)
    BY <1>1, <2>1, InSendingAfter DEF Ok, Finish
  <2>2. CASE GiveBack(f)
    BY <1>1, <2>2, InSendingAfter DEF GiveBack, Finish
  <2>3. CASE RetryOrGiveBack(f) /\ f.attempt < MaxRetries
    <3>1. /\ flights' = {[f EXCEPT !.attempt = f.attempt + 1]}
          /\ UNCHANGED <<enqueued, queue, closed>>
      BY <1>1, <2>3 DEF RetryOrGiveBack
    <3>2. [f EXCEPT !.attempt = f.attempt + 1].spans = f.spans
      BY TheFlight DEF Flight
    <3>3. QED BY <3>1, <3>2, InSendingAfter
  <2>4. QED BY <2>1, <2>2, <2>3 DEF ReplyLost, RetryOrGiveBack
<1>4. \A s \in Span : s \in Sending <=> s \in f.spans
  BY <1>1, InSending
<1> DEFINE S == {s \in f.spans : delivered[s] = 0}
<1>5. S \in SUBSET Span /\ S \subseteq Pending
  BY <1>1, <1>4 DEF Pending
<1>6. \A s \in Span : s \in Pending' <=> s \in Pending /\ s \notin S
  <2> SUFFICES ASSUME NEW s \in Span PROVE s \in Pending' <=> s \in Pending /\ s \notin S
    OBVIOUS
  <2>1. CASE s \in f.spans
    <3>1. ~(delivered'[s] = 0)
      BY <1>2, <2>1
    <3>2. QED BY <2>1, <3>1 DEF Pending
  <2>2. CASE s \notin f.spans
    BY <1>2, <1>3, <1>4, <2>2 DEF Pending
  <2>3. QED BY <2>1, <2>2
<1>7. \A s \in Span : (delivered'[s] > 0) <=> (delivered[s] > 0 \/ s \in S)
  BY <1>2
<1> HIDE DEF S
<1>8. \E T \in SUBSET Span : Ledger!Move(T, "pending", "durable")
  BY <1>2, <1>3, <1>5, <1>6, <1>7, LedgerMove
<1>9. QED BY <1>3, <1>8 DEF Ledger!Settle

\* A batch that the server did not take stays pending.
LEMMA RefusedKeeps ==
  ASSUME IInv, NEW f \in flights, Failed(f) \/ Thrown(f)
  PROVE  UNCHANGED Ledger!vars
BY RetryKeepsHeld, SameHeldStutters DEF Failed, Thrown, server

LEMMA LedgerInit == Init => Ledger!Init
<1> SUFFICES ASSUME Init PROVE Ledger!Init
  OBVIOUS
<1>1. ASSUME NEW s \in Span
      PROVE  FateOf(s) = "absent"
  <2>1. ~(s <= 0) /\ s \notin Sending
    BY InSending DEF Init, Span
  <2>2. QED BY <2>1 DEF Init, FateOf
<1>2. QED BY <1>1 DEF Init, Ledger!Init

LEMMA LedgerNext == IInv /\ [Next]_vars => [Ledger!Next]_Ledger!vars
<1> SUFFICES ASSUME IInv, [Next]_vars
             PROVE  Ledger!Next \/ UNCHANGED Ledger!vars
  OBVIOUS
<1>1. CASE UNCHANGED vars
  <2>1. \A s : s \in Held' <=> s \in Held
    BY <1>1, InHeld, InHeldAfter DEF vars
  <2>2. QED BY <1>1, <2>1, SameHeldStutters DEF vars
<1>2. CASE \E f \in flights : Answered(f)
  BY <1>2, TakenSettles, RefusedKeeps DEF Answered, Ledger!Next
<1>3. QED
  BY <1>1, <1>2, EnqueueAccepts, FlushesStutter, ShutdownGivesUp DEF Next, Ledger!Next

\* The SDK's queue implements the ledger: a span that enqueue() took stays with the
\* process or the server, also when flush() or shutdown() is called once more on a
\* closed queue; a span that the server has stays there; a closed queue takes none.
THEOREM SdkSpanQueueImplementsLedger == Spec => LedgerSpec
BY LedgerInit, LedgerNext, SdkSpanQueueInvariant, PTL DEF Spec, LedgerSpec, Ledger!Spec

=============================================================================
