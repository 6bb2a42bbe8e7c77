------------------------------ MODULE Collector ------------------------------
(***************************************************************************)
(* otelmind/collector/collector.py, span_processor.py and the collector    *)
(* loop of otelmind/main.py: POST /ingest buffers the spans of a request   *)
(* and flushes the buffer to PostgreSQL in one transaction, and a loop     *)
(* flushes, without the lock, what a failed flush has put back.            *)
(*                                                                         *)
(* Each process has a Collector of its own; they share the database.  A    *)
(* coroutine is interrupted only where it awaits: for the lock, and at     *)
(* each statement of its transaction.  A record stands for a request body: *)
(* its spans are appended, flushed and stored together.                    *)
(***************************************************************************)
EXTENDS Naturals, FiniteSets

CONSTANTS
  Process,      \* the API processes
  Looping,      \* those started as otelmind.main, with the collector loop
  Record,       \* the request bodies that clients send
  Trace,        \* (tenant_id, trace_id) pairs
  TraceOf,      \* the trace that the spans of a record belong to
  Poison,       \* records whose start_time or token counts do not parse
  MaxSends,     \* bound: how often a client sends the same record
  MaxErrors     \* bound: how many transactions the database fails

ASSUME CollectorAssumption ==
  /\ Looping \subseteq Process
  /\ TraceOf \in [Record -> Trace]
  /\ Poison \subseteq Record
  /\ MaxSends \in Nat
  /\ MaxErrors \in Nat

Nobody == "nobody"
Loop == "loop"

\* The loop and the unlocked lock are no records.
ASSUME CollectorNames == Nobody \notin Record /\ Loop \notin Record

VARIABLES
  sends,        \* client: how often it has sent each record
  reply,        \* client: what it knows of its last request for the record
  home,         \* the process that handles, or handled, that request
  lock,         \* _lock of each process: the record whose ingest() holds it
  buffer,       \* _buffer of each process: how many copies of each record
  flights,      \* the calls of _flush() that are in their transaction
  spanRows,     \* database: how many times the spans of a record are stored
  traceRows,    \* database: how many rows of traces each trace has
  errors,       \* how many transactions the database has failed
  unseen,       \* history: commits of the record that were reported as failed
  lost          \* history: records that were in memory when a process ended

client == <<sends, reply, home>>
database == <<spanRows, traceRows, errors, unseen>>
vars == <<sends, reply, home, lock, buffer, flights, spanRows, traceRows,
          errors, unseen, lost>>

Copies == [Record -> Nat]
Flight == [proc : Process, owner : Record \cup {Loop}, batch : Copies,
           todo : SUBSET Trace, made : SUBSET Trace]

Empty == [r \in Record |-> 0]
Plus(b, c) == [r \in Record |-> b[r] + c[r]]
In(b) == {r \in Record : b[r] > 0}
TracesIn(b) == {TraceOf[r] : r \in In(b)}

Init ==
  /\ sends = Empty
  /\ reply = [r \in Record |-> "none"]
  /\ home \in [Record -> Process]
  /\ lock = [p \in Process |-> Nobody]
  /\ buffer = [p \in Process |-> Empty]
  /\ flights = {}
  /\ spanRows = Empty
  /\ traceRows = [t \in Trace |-> 0]
  /\ errors = 0
  /\ unseen = Empty
  /\ lost = {}

-----------------------------------------------------------------------------
\* A client sends r, again if it was answered 500.
Post(r, p) ==
  /\ reply[r] \in {"none", "error"}
  /\ sends[r] < MaxSends
  /\ sends' = [sends EXCEPT ![r] = @ + 1]
  /\ reply' = [reply EXCEPT ![r] = "waiting"]
  /\ home' = [home EXCEPT ![r] = p]
  /\ UNCHANGED <<lock, buffer, flights, database, lost>>

\* The head of _flush(): copy the buffer, clear it, open a transaction.
Flush(p, owner, batch) ==
  /\ buffer' = [buffer EXCEPT ![p] = Empty]
  /\ flights' = flights \cup
       {[proc |-> p, owner |-> owner, batch |-> batch, todo |-> TracesIn(batch), made |-> {}]}

\* Mutant of Ingest: ingest() flushes first and appends its records for later.
IngestFlushesFirst(r) ==
  LET p == home[r]
  IN  /\ reply[r] = "waiting"
      /\ lock[p] = Nobody
      /\ lock' = [lock EXCEPT ![p] = r]
      /\ flights' = flights \cup {[proc |-> p, owner |-> r, batch |-> buffer[p],
                                   todo |-> TracesIn(buffer[p]), made |-> {}]}
      /\ buffer' = [buffer EXCEPT ![p] = [Empty EXCEPT ![r] = 1]]
      /\ reply' = [reply EXCEPT ![r] = "ingesting"]
      /\ UNCHANGED <<sends, home, database, lost>>

\* ingest() gets the lock, appends its records and flushes.
Ingest(r) ==
  LET p == home[r]
  IN  /\ reply[r] = "waiting"
      /\ lock[p] = Nobody
      /\ lock' = [lock EXCEPT ![p] = r]
      /\ Flush(p, r, [buffer[p] EXCEPT ![r] = @ + 1])
      /\ reply' = [reply EXCEPT ![r] = "ingesting"]
      /\ UNCHANGED <<sends, home, database, lost>>

\* The collector loop, which awaits its own flush and not the lock.
LoopFlush(p) ==
  /\ p \in Looping
  /\ In(buffer[p]) # {}
  /\ \A f \in flights : f.proc # p \/ f.owner # Loop
  /\ Flush(p, Loop, buffer[p])
  /\ UNCHANGED <<client, lock, database, lost>>

-----------------------------------------------------------------------------

\* _flush() returns or raises: ingest() releases the lock and is answered.
Answer(f, status) ==
  /\ flights' = flights \ {f}
  /\ IF f.owner = Loop
     THEN UNCHANGED <<lock, reply>>
     ELSE /\ lock' = [lock EXCEPT ![f.proc] = Nobody]
          /\ reply' = [reply EXCEPT ![f.owner] = status]
  /\ UNCHANGED <<sends, home, lost>>

\* Mutant of Rebuffer: the except clause re-raises without extending _buffer.
RebufferDrops(f) ==
  /\ UNCHANGED buffer
  /\ Answer(f, "error")

\* The except clause of _flush().
Rebuffer(f) ==
  /\ buffer' = [buffer EXCEPT ![f.proc] = Plus(@, f.batch)]
  /\ Answer(f, "error")

PoisonIn(f, t) == \E r \in In(f.batch) \cap Poison : TraceOf[r] = t

\* Mutant of StoreTrace: the trace row is left to another flush that runs.
StoreTraceLeavesRow(f, t) ==
  /\ t \in f.todo
  /\ traceRows[t] < 2
  /\ ~PoisonIn(f, t)
  /\ flights' = (flights \ {f}) \cup
       {[f EXCEPT !.todo = @ \ {t},
                  !.made = IF traceRows[t] = 0 /\ Cardinality(flights) = 1 THEN @ \cup {t} ELSE @]}
  /\ UNCHANGED <<client, lock, buffer, database, lost>>

\* One trace of the batch: _ensure_trace() inserts its row if get_trace() sees
\* none, then its spans are inserted.
StoreTrace(f, t) ==
  /\ t \in f.todo
  /\ traceRows[t] < 2
  /\ ~PoisonIn(f, t)
  /\ flights' = (flights \ {f}) \cup
       {[f EXCEPT !.todo = @ \ {t}, !.made = IF traceRows[t] = 0 THEN @ \cup {t} ELSE @]}
  /\ UNCHANGED <<client, lock, buffer, database, lost>>

\* get_trace() raises MultipleResultsFound on two rows, and a malformed span
\* raises when it is parsed.
BadTrace(f, t) ==
  /\ t \in f.todo
  /\ traceRows[t] >= 2 \/ PoisonIn(f, t)
  /\ Rebuffer(f)
  /\ UNCHANGED database

\* The database fails a statement or the commit.
DatabaseError(f) ==
  /\ errors < MaxErrors
  /\ errors' = errors + 1
  /\ Rebuffer(f)
  /\ UNCHANGED <<spanRows, traceRows, unseen>>

Store(f) ==
  /\ spanRows' = Plus(spanRows, f.batch)
  /\ traceRows' = [t \in Trace |-> traceRows[t] + (IF t \in f.made THEN 1 ELSE 0)]

\* Mutant of Commit: each tenant's records are committed, then put back by an
\* error of the next.
CommitRebuffers(f) ==
  /\ f.todo = {}
  /\ Store(f)
  /\ Answer(f, "ok")
  /\ buffer' = [buffer EXCEPT ![f.proc] = Plus(@, f.batch)]
  /\ UNCHANGED <<errors, unseen>>

Commit(f) ==
  /\ f.todo = {}
  /\ Store(f)
  /\ Answer(f, "ok")
  /\ UNCHANGED <<buffer, errors, unseen>>

\* The connection breaks after the database has committed.
CommitUnseen(f) ==
  /\ f.todo = {}
  /\ errors < MaxErrors
  /\ errors' = errors + 1
  /\ Store(f)
  /\ unseen' = Plus(unseen, f.batch)
  /\ Rebuffer(f)

Progress(f) ==
  \/ \E t \in Trace : StoreTrace(f, t) \/ BadTrace(f, t)
  \/ DatabaseError(f) \/ Commit(f) \/ CommitUnseen(f)

\* The process is killed, or run() cancels its tasks: CancelledError passes by
\* the except clause.  Its clients see a closed connection.
ProcessEnds(p) ==
  LET mine == {f \in flights : f.proc = p}
  IN  /\ flights' = flights \ mine
      /\ buffer' = [buffer EXCEPT ![p] = Empty]
      /\ lock' = [lock EXCEPT ![p] = Nobody]
      /\ lost' = lost \cup {r \in Record :
           \/ buffer[p][r] > 0
           \/ \E f \in mine : f.batch[r] > 0
           \/ reply[r] = "waiting" /\ home[r] = p}
      /\ reply' = [r \in Record |->
           IF home[r] = p /\ reply[r] \in {"waiting", "ingesting"} THEN "error" ELSE reply[r]]
      /\ UNCHANGED <<sends, home, database>>

Next ==
  \/ \E r \in Record, p \in Process : Post(r, p)
  \/ \E r \in Record : Ingest(r)
  \/ \E p \in Process : LoopFlush(p) \/ ProcessEnds(p)
  \/ \E f \in flights : Progress(f)

Spec == Init /\ [][Next]_vars

\* The lock is fair, the loop wakes every 5 s, and statements return.
Fairness ==
  /\ \A r \in Record : WF_vars(Ingest(r))
  /\ \A p \in Process :
       /\ WF_vars(LoopFlush(p))
       /\ \A o \in Record \cup {Loop} :
            WF_vars(\E f \in flights : f.proc = p /\ f.owner = o /\ Progress(f))

FairSpec == Spec /\ Fairness

-----------------------------------------------------------------------------
TypeOK ==
  /\ sends \in [Record -> 0..MaxSends]
  /\ reply \in [Record -> {"none", "waiting", "ingesting", "ok", "error"}]
  /\ home \in [Record -> Process]
  /\ lock \in [Process -> Record \cup {Nobody}]
  /\ buffer \in [Process -> Copies]
  /\ flights \subseteq Flight
  /\ spanRows \in Copies
  /\ traceRows \in [Trace -> Nat]
  /\ errors \in 0..MaxErrors
  /\ unseen \in Copies
  /\ lost \subseteq Record

\* A request that was answered 200 has its spans in the database
\* (collector.py:25, "Returns the number of spans persisted").
AcknowledgedStored == \A r \in Record : reply[r] = "ok" => spanRows[r] > 0

\* What a client has sent is awaiting the lock, buffered, in a transaction or
\* stored, unless a process that held it has ended.
OnlyProcessEndLoses ==
  \A r \in Record : sends[r] > 0 =>
    \/ reply[r] = "waiting"
    \/ \E p \in Process : buffer[p][r] > 0
    \/ \E f \in flights : f.batch[r] > 0
    \/ spanRows[r] > 0
    \/ r \in lost

\* Stored spans have a trace, although no foreign key says so
\* (models.py:257-259, "integrity is enforced at the service layer").
SpansHaveTrace ==
  \A r \in Record : spanRows[r] > 0 => traceRows[TraceOf[r]] > 0

\* A record is stored no more often than clients sent it and commits of it
\* were reported as failed, however often it was put back.
DuplicatesExplained ==
  \A r \in Record : spanRows[r] <= sends[r] + unseen[r]

\* What makes every flush of a process fail: a trace with two rows, or a record
\* that does not parse.
Blocked == (\E t \in Trace : traceRows[t] > 1) \/ \E r \in Poison : sends[r] > 0

\* What was sent to a process with the collector loop is stored in the end,
\* unless the process has ended or its flushes are blocked.
EventuallyStored ==
  \A r \in Record :
    (sends[r] > 0) ~> (spanRows[r] > 0 \/ r \in lost \/ home[r] \notin Looping \/ Blocked)

=============================================================================
