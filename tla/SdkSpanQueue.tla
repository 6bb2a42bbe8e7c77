---------------------------- MODULE SdkSpanQueue ----------------------------
(***************************************************************************)
(* sdk-js/src/span-queue.ts: the JavaScript SDK's buffer of finished spans *)
(* and the HTTP sends that drain it.                                       *)
(*                                                                         *)
(* JavaScript runs each piece of code between two awaits without           *)
(* interruption; a flush awaits only the answers to its POSTs and its      *)
(* back-off sleeps, which are folded into the attempt they precede.  Spans *)
(* are numbered in the order they are enqueued.                            *)
(***************************************************************************)
EXTENDS Naturals, FiniteSets

CONSTANTS
  MaxSpans,     \* bound: how many spans the application finishes
  BatchSize,    \* batchSize
  MaxRetries,   \* MAX_RETRIES
  MaxLostReplies, \* bound: answers lost after the server took the batch, per span
  Bad           \* the spans that the server answers with a 4xx status

Span == 1..MaxSpans

ASSUME SdkSpanQueueAssumption ==
  /\ MaxSpans \in Nat
  /\ BatchSize \in Nat \ {0}
  /\ MaxRetries \in Nat
  /\ MaxLostReplies \in Nat
  /\ Bad \subseteq Span

VARIABLES
  enqueued,     \* history: spans 1..enqueued have been enqueued
  queue,        \* queue
  flushing,     \* flushing
  flights,      \* the flush calls that await sendWithRetry
  timer,        \* TRUE while the interval timer is set
  closed,       \* closed
  delivered,    \* server: how many times it has taken each span
  lostReplies   \* history: how many of those answers never arrived

server == <<delivered, lostReplies>>
vars == <<enqueued, queue, flushing, flights, timer, closed,
          delivered, lostReplies>>

\* A flush in progress: what it sends, and its retries so far.
Flight == [spans : SUBSET Span, attempt : 0..MaxRetries]

Init ==
  /\ enqueued = 0
  /\ queue = {}
  /\ flushing = FALSE
  /\ flights = {}
  /\ timer = TRUE
  /\ closed = FALSE
  /\ delivered = [s \in Span |-> 0]
  /\ lostReplies = [s \in Span |-> 0]

-----------------------------------------------------------------------------
\* Mutant of Flush: two flushes may send at the same time.
FlushReentrant(q) ==
  /\ q # {}
  /\ flushing' = TRUE
  /\ queue' = {}
  /\ flights' = flights \cup {[spans |-> q, attempt |-> 0]}

\* flush() with q queued, when it does not return at once: it takes all of q.
Flush(q) ==
  /\ ~flushing
  /\ q # {}
  /\ flushing' = TRUE
  /\ queue' = {}
  /\ flights' = flights \cup {[spans |-> q, attempt |-> 0]}

\* flush() returns at once.
NoFlush(q) ==
  /\ flushing \/ q = {}
  /\ queue' = q
  /\ UNCHANGED <<flushing, flights>>

\* enqueue(): a closed queue drops the span, which is no step of the queue.
Enqueue ==
  /\ ~closed
  /\ enqueued < MaxSpans
  /\ enqueued' = enqueued + 1
  /\ LET q == queue \cup {enqueued'}
     IN  IF Cardinality(q) >= BatchSize
         THEN Flush(q) \/ NoFlush(q)
         ELSE queue' = q /\ UNCHANGED <<flushing, flights>>
  /\ UNCHANGED <<timer, closed, server>>

\* The interval timer.
TimerFlush ==
  /\ timer
  /\ Flush(queue)
  /\ UNCHANGED <<enqueued, timer, closed, server>>

\* The application's own flush() (client.ts:152), also of a queue that is closed.
AppFlush ==
  /\ Flush(queue)
  /\ UNCHANGED <<enqueued, timer, closed, server>>

\* shutdown(), which may be called again: it flushes what is queued, unless a
\* flush is under way, for which it does not wait.
Shutdown ==
  /\ closed' = TRUE
  /\ timer' = FALSE
  /\ Flush(queue) \/ NoFlush(queue)
  /\ UNCHANGED <<enqueued, server>>

-----------------------------------------------------------------------------
(* The answer to an attempt of flight f. *)

\* Mutant of Finish: without finally, `flushing` outlives a failed flush.
FinishKeepsFlushing(f) ==
  /\ flights' = flights \ {f}
  /\ UNCHANGED flushing
  /\ UNCHANGED <<enqueued, timer, closed>>

\* The finally block.
Finish(f) ==
  /\ flights' = flights \ {f}
  /\ flushing' = FALSE
  /\ UNCHANGED <<enqueued, timer, closed>>

Take(f) ==
  delivered' = [s \in Span |-> delivered[s] + (IF s \in f.spans THEN 1 ELSE 0)]

\* Mutant of GiveBack: a failed batch is only logged.
GiveBackDrops(f) ==
  /\ UNCHANGED queue
  /\ Finish(f)

\* The catch block of flush(): unshift the batch.
GiveBack(f) ==
  /\ queue' = f.spans \cup queue
  /\ Finish(f)

\* Mutant of Ok: the batch is removed from the queue only by the next flush.
OkRequeues(f) ==
  /\ f.spans \cap Bad = {}
  /\ Take(f)
  /\ Finish(f)
  /\ queue' = f.spans \cup queue
  /\ UNCHANGED lostReplies

Ok(f) ==
  /\ f.spans \cap Bad = {}
  /\ Take(f)
  /\ Finish(f)
  /\ UNCHANGED <<queue, lostReplies>>

\* A 5xx status or a recognised network error: try again, MaxRetries times.
RetryOrGiveBack(f) ==
  IF f.attempt < MaxRetries
  THEN /\ flights' = (flights \ {f}) \cup {[f EXCEPT !.attempt = @ + 1]}
       /\ UNCHANGED <<enqueued, queue, flushing, timer, closed>>
  ELSE GiveBack(f)

Failed(f) ==
  /\ RetryOrGiveBack(f)
  /\ UNCHANGED server

\* A 4xx status (422, but also 401 or 429), or an error that isNetworkError does
\* not recognise: sendWithRetry throws at once.
Thrown(f) ==
  /\ GiveBack(f)
  /\ UNCHANGED server

\* The server took the batch but the SDK sees an error.
ReplyLost(f) ==
  /\ f.spans \cap Bad = {}
  /\ \A s \in f.spans : lostReplies[s] < MaxLostReplies
  /\ Take(f)
  /\ lostReplies' = [s \in Span |-> lostReplies[s] + (IF s \in f.spans THEN 1 ELSE 0)]
  /\ RetryOrGiveBack(f) \/ GiveBack(f)

Answered(f) ==
  Ok(f) \/ Failed(f) \/ Thrown(f) \/ ReplyLost(f)

Next ==
  \/ Enqueue \/ TimerFlush \/ AppFlush \/ Shutdown
  \/ \E f \in flights : Answered(f)

Spec == Init /\ [][Next]_vars

\* The timer fires (nothing makes the application flush), every fetch is answered or times out, and a server that
\* is asked again and again sooner or later answers 2xx.
Fairness ==
  /\ WF_vars(TimerFlush)
  /\ WF_vars(\E f \in flights : Answered(f))
  /\ SF_vars(\E f \in flights : Ok(f))

FairSpec == Spec /\ Fairness

-----------------------------------------------------------------------------
TypeOK ==
  /\ enqueued \in 0..MaxSpans
  /\ queue \subseteq Span
  /\ flushing \in BOOLEAN
  /\ flights \subseteq Flight
  /\ timer \in BOOLEAN
  /\ closed \in BOOLEAN
  /\ delivered \in [Span -> 0..MaxLostReplies + 1]
  /\ lostReplies \in [Span -> 0..MaxLostReplies]

Sending == UNION {f.spans : f \in flights}

\* The server never has a span before every span that was finished earlier:
\* flushes do not overlap and a failed batch goes back in front.
DeliveredInOrder ==
  \A s \in Span : delivered[s] > 0 => \A e \in 1..s : delivered[e] > 0

\* A span is ingested twice only if an answer was lost.
DuplicatesExplained ==
  \A s \in Span : delivered[s] <= 1 + lostReplies[s]

\* The queue forgets no span that the server has not taken: not when its retries
\* run out, and not when it is closed, where nothing need send it any more but
\* flush() and shutdown() still can.
KeptUntilTaken ==
  \A s \in 1..enqueued : s \in Sending \cup queue \/ delivered[s] > 0

\* Whatever the server answers, and whoever calls flush() or shutdown(), and how
\* often: spans arrive in order, once but for lost answers, and are kept till then.
DeliveryIsSafe ==
  TypeOK /\ DeliveredInOrder /\ DuplicatesExplained /\ KeptUntilTaken

\* Until shutdown() is called, every span reaches the server in the end, unless
\* a span that the server refuses has joined the queue: it is put back with its
\* batch, and everything behind it is refused with it (span-queue.ts:60-66).
EventuallyDelivered ==
  \A s \in Span :
    (s <= enqueued) ~> (delivered[s] > 0 \/ closed \/ \E b \in Bad : b <= enqueued)

-----------------------------------------------------------------------------
(* The queue implements SpanLedger.  A span is pending as long as the       *)
(* process holds it, whether the queue is closed or not: one that a flush   *)
(* under way left behind at shutdown() goes with a later flush(), if there  *)
(* is one, and else with the process, of which the queue knows nothing.     *)

FateOf(s) ==
  IF delivered[s] > 0 THEN "durable"
  ELSE IF s \in Sending \cup queue THEN "pending"
  ELSE IF s <= enqueued THEN "lost"
  ELSE "absent"

Ledger == INSTANCE SpanLedger WITH
  Record <- Span,
  fate <- [s \in Span |-> FateOf(s)],
  closing <- closed

\* Every step of the queue is a step of SpanLedger or leaves it unchanged.
LedgerSpec == Ledger!Spec

=============================================================================
