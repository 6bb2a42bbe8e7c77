---------------------------- MODULE BatchWriter ----------------------------
(***************************************************************************)
(* otelmind/collector/writer.py: the buffer between the OTLP receiver      *)
(* (collector/server.py) and PostgreSQL.                                   *)
(*                                                                         *)
(* Everything runs on one asyncio event loop, so code between two awaits   *)
(* is one step.  The lock of the class guards sections that contain no     *)
(* await, so no task ever waits for it and each section is one step; the   *)
(* awaits that do suspend are the sleep of the flush loop, the database    *)
(* transaction of _flush and stop()'s await of the cancelled loop.         *)
(*                                                                         *)
(* The four buffers (traces, spans, tokens, errors) are swapped, written   *)
(* and put back together: one set of records stands for them.  A record    *)
(* without usage (processor.py:42-44) adds nothing to the token buffer.    *)
(***************************************************************************)
EXTENDS Naturals, FiniteSets

CONSTANTS
  Record,       \* the processed spans that the receiver may write
  Counted,      \* those of an LLM call, with a usage record of their own
  Refused,      \* those whose INSERT the database refuses, whenever it is tried
  Caller,       \* the request handlers that call write() concurrently
  BatchSize,    \* batch_size of the writer
  MaxCopies     \* bound: COMMITs of one record whose reply is lost

Loop == "loop"          \* the background flush task
Stopper == "stop"       \* the task that runs stop()
Task == Caller \cup {Loop, Stopper}

ASSUME BatchWriterAssumption ==
  /\ BatchSize \in Nat \ {0}
  /\ MaxCopies \in Nat \ {0}
  /\ Counted \subseteq Record
  /\ Refused \subseteq Record
  /\ Loop \notin Caller
  /\ Stopper \notin Caller

VARIABLES
  running,      \* _running
  loop,         \* state of _flush_task
  stopping,     \* where stop() is
  buffer,       \* _span_buffer (and the three buffers that move with it)
  flight,       \* flight[t]: the batch that task t swapped out and is writing
  stored,       \* PostgreSQL: the records whose span row exists
  tokenRows,    \* PostgreSQL: how many token_counts rows each record has
  accepted,     \* history: the records write() took
  cut,          \* history: the batch the loop was writing when stop() cancelled it
  unsure        \* history: how many COMMITs of each record lost their reply

db == <<stored, tokenRows>>
history == <<accepted, cut, unsure>>
vars == <<running, loop, stopping, buffer, flight, stored, tokenRows,
          accepted, cut, unsure>>

-----------------------------------------------------------------------------
\* The records of the process's memory.
Held == buffer \cup UNION {flight[t] : t \in Task}

Idle(t) == flight[t] = {}

Init ==
  /\ running = FALSE
  /\ loop = "off"
  /\ stopping = "no"
  /\ buffer = {}
  /\ flight = [t \in Task |-> {}]
  /\ stored = {}
  /\ tokenRows = [r \in Record |-> 0]
  /\ accepted = {}
  /\ cut = {}
  /\ unsure = [r \in Record |-> 0]

\* start(), called by the lifespan of the receiver before any request.
Start ==
  /\ loop = "off"
  /\ running' = TRUE
  /\ loop' = "on"
  /\ UNCHANGED <<stopping, buffer, flight, db, history>>

\* The swap at the head of _flush by task t, when `held` is buffered.
Swap(t, held) ==
  /\ flight' = [flight EXCEPT ![t] = held]
  /\ buffer' = {}

\* write() of record r: append; at the threshold the caller flushes at once.
\* The receiver accepts requests between start() and its own shutdown.
Write(c, r) ==
  /\ running
  /\ Idle(c)
  /\ r \notin accepted
  /\ accepted' = accepted \cup {r}
  /\ LET held == buffer \cup {r}
     IN  IF Cardinality(held) >= BatchSize
         THEN Swap(c, held)
         ELSE buffer' = held /\ UNCHANGED flight
  /\ UNCHANGED <<running, loop, stopping, db, cut, unsure>>

\* Mutant of Tick: the loop, too, waits for a full batch.
TickWhenFull ==
  /\ running
  /\ loop = "on"
  /\ Idle(Loop)
  /\ Cardinality(buffer) >= BatchSize
  /\ Swap(Loop, buffer)
  /\ UNCHANGED <<running, loop, stopping, db, history>>

\* The sleep of the loop is over and the buffer is not empty.
Tick ==
  /\ running
  /\ loop = "on"
  /\ Idle(Loop)
  /\ buffer # {}
  /\ Swap(Loop, buffer)
  /\ UNCHANGED <<running, loop, stopping, db, history>>

-----------------------------------------------------------------------------
(* The outcomes of the transaction of task t.  A task other than the       *)
(* stopper goes on with what it did; stop() returns after its own flush.   *)

Writing(t) ==
  /\ flight[t] # {}
  /\ t = Loop => loop = "on"

\* Mutant of Inserted: the usage rows are not in the transaction.
InsertedSpansOnly(S) ==
  /\ stored' = stored \cup S
  /\ UNCHANGED tokenRows

\* What the transaction writes: spans ON CONFLICT DO NOTHING, and the usage
\* rows, of the records that have one, as is.
Inserted(S) ==
  /\ stored' = stored \cup S
  /\ tokenRows' = [r \in Record |->
                     tokenRows[r] + (IF r \in S \cap Counted THEN 1 ELSE 0)]

\* One INSERT that fails, fails the transaction of the whole batch.
Accepts(S) == S \cap Refused = {}

AfterFlush(t) ==
  stopping' = IF t = Stopper THEN "done" ELSE stopping

\* Mutant of PutBack: the failed batch replaces what was buffered meanwhile.
PutBackOverwrites(t) ==
  /\ buffer' = flight[t]
  /\ flight' = [flight EXCEPT ![t] = {}]

\* except Exception: the batch goes back in front of the buffer.
PutBack(t) ==
  /\ buffer' = flight[t] \cup buffer
  /\ flight' = [flight EXCEPT ![t] = {}]

Committed(t) ==
  /\ Writing(t)
  /\ Accepts(flight[t])
  /\ Inserted(flight[t])
  /\ flight' = [flight EXCEPT ![t] = {}]
  /\ AfterFlush(t)
  /\ UNCHANGED <<running, loop, buffer, history>>

RolledBack(t) ==
  /\ Writing(t)
  /\ PutBack(t)
  /\ AfterFlush(t)
  /\ UNCHANGED <<running, loop, db, history>>

\* The server committed but the connection broke before its reply.
CommitReplyLost(t) ==
  /\ Writing(t)
  /\ Accepts(flight[t])
  /\ \A r \in flight[t] : unsure[r] < MaxCopies
  /\ Inserted(flight[t])
  /\ PutBack(t)
  /\ unsure' = [r \in Record |-> unsure[r] + (IF r \in flight[t] THEN 1 ELSE 0)]
  /\ AfterFlush(t)
  /\ UNCHANGED <<running, loop, accepted, cut>>

-----------------------------------------------------------------------------
(* stop(), called by the lifespan once the server has drained its requests. *)

StopCalled ==
  /\ running
  /\ \A c \in Caller : Idle(c)
  /\ running' = FALSE
  /\ loop' = "cancelling"
  /\ stopping' = "joining"
  /\ cut' = flight[Loop]
  /\ UNCHANGED <<buffer, flight, db, accepted, unsure>>

\* CancelledError reaches the loop, at its sleep or inside the transaction.
\* It is no Exception, so the handler of _flush does not put the batch back:
\* the batch survives only if the COMMIT had gone through, or if the
\* ROLLBACK itself fails with an Exception, which the handler does catch.
LoopCancelled ==
  /\ loop = "cancelling"
  /\ loop' = "ended"
  /\ stopping' = "flushing"
  /\ flight' = [flight EXCEPT ![Loop] = {}]
  /\ \/ UNCHANGED <<buffer, db>>
     \/ Accepts(flight[Loop]) /\ Inserted(flight[Loop]) /\ UNCHANGED buffer
     \/ buffer' = flight[Loop] \cup buffer /\ UNCHANGED db
  /\ UNCHANGED <<running, history>>

\* stop()'s own _flush, once the loop has ended.  If it fails, stop() returns
\* all the same and the process exits with the batch.
StopFlush ==
  /\ stopping = "flushing"
  /\ Idle(Stopper)
  /\ IF buffer = {}
     THEN stopping' = "done" /\ UNCHANGED <<buffer, flight>>
     ELSE Swap(Stopper, buffer) /\ UNCHANGED stopping
  /\ UNCHANGED <<running, loop, db, history>>

Next ==
  \/ Start
  \/ \E c \in Caller, r \in Record : Write(c, r)
  \/ Tick
  \/ \E t \in Task : Committed(t) \/ RolledBack(t) \/ CommitReplyLost(t)
  \/ StopCalled \/ LoopCancelled \/ StopFlush

Spec == Init /\ [][Next]_vars

\* The event loop runs every task that is ready, and a database that can be
\* reached again and again sooner or later commits a batch that is retried and
\* that it does not refuse: nothing is promised of a batch with a refused record.
Fairness ==
  /\ WF_vars(Tick) /\ WF_vars(LoopCancelled) /\ WF_vars(StopFlush)
  /\ \A t \in Task : SF_vars(Committed(t))

FairSpec == Spec /\ Fairness

-----------------------------------------------------------------------------
TypeOK ==
  /\ running \in BOOLEAN
  /\ loop \in {"off", "on", "cancelling", "ended"}
  /\ stopping \in {"no", "joining", "flushing", "done"}
  /\ buffer \subseteq Record
  /\ flight \in [Task -> SUBSET Record]
  /\ stored \subseteq Record
  /\ tokenRows \in [Record -> 0..MaxCopies + 1]
  /\ accepted \subseteq Record
  /\ cut \subseteq Record
  /\ unsure \in [Record -> 0..MaxCopies]

\* No record is held twice: however many _flush calls overlap, each record is
\* in the buffer or in the hands of one task (the swap of writer.py:94-106).
HeldOnce ==
  /\ \A t \in Task : flight[t] \cap buffer = {}
  /\ \A t, u \in Task : t # u => flight[t] \cap flight[u] = {}

\* The only records the writer can forget before stop() returns are those of
\* the batch the loop was writing when stop() cancelled it (writer.py:61): a
\* failed transaction, or any overlap of flushes, forgets nothing.
OnlyCancelLoses ==
  accepted \ (stored \cup Held) \subseteq cut

\* The usage of a record that has one is counted once, plus once for each COMMIT
\* whose reply was lost (token_counts has no conflict clause, writer.py:170-189),
\* and the span row of such a record exists exactly with a usage row: one
\* transaction writes both.
UsageCountedOnce ==
  \A r \in Record :
    /\ tokenRows[r] <= 1 + unsure[r]
    /\ r \in stored \cap Counted <=> tokenRows[r] > 0

\* As long as the loop runs, every record that write() took reaches the
\* database, however many transactions fail on the way (writer.py:86-90), unless
\* the writer holds a record that the database refuses: that fails the batch it
\* is in, and is put back to fail the next one.
EventuallyStored ==
  \A r \in Record :
    (r \in accepted) ~> (r \in stored \/ stopping # "no" \/ ~Accepts(Held))

-----------------------------------------------------------------------------
(* The writer implements the ledger: a record that write() took can be lost *)
(* only once stop() has begun, and a stored record stays stored.            *)

FateOf(r) ==
  IF r \in stored THEN "durable"
  ELSE IF r \in Held /\ stopping # "done" THEN "pending"
  ELSE IF r \in accepted THEN "lost"
  ELSE "absent"

Ledger == INSTANCE SpanLedger WITH
  fate <- [r \in Record |-> FateOf(r)],
  closing <- stopping # "no"

\* Every step of the writer is a step of SpanLedger or leaves it unchanged.
LedgerSpec == Ledger!Spec

=============================================================================
