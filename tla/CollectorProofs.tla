--------------------------- MODULE CollectorProofs ---------------------------
(***************************************************************************)
(* Proofs about Collector for any processes, records, traces and bounds.   *)
(* The invariant is TypeOK, the three properties, and what makes them      *)
(* inductive: the flush of an ingest() carries the records of that         *)
(* ingest(), and each trace of a batch is yet to be stored, inserted by    *)
(* the batch's own transaction, or in the database.  That copies are       *)
(* neither made nor forgotten is shown by counting them.                   *)
(***************************************************************************)
EXTENDS Collector, FiniteSetTheorems, TLAPS

OwnBatch == \A f \in flights : f.owner \in Record => f.batch[f.owner] > 0

TracesReady ==
  \A f \in flights : \A r \in Record :
    f.batch[r] > 0 =>
      TraceOf[r] \in f.todo \/ TraceOf[r] \in f.made \/ traceRows[TraceOf[r]] > 0

IInv ==
  /\ TypeOK
  /\ OwnBatch
  /\ TracesReady
  /\ AcknowledgedStored
  /\ SpansHaveTrace
  /\ OnlyProcessEndLoses

-----------------------------------------------------------------------------
(* Operators. *)

\* The copies of two bags add up record by record.
LEMMA PlusCopies ==
  ASSUME NEW b \in Copies, NEW c \in Copies
  PROVE  /\ Plus(b, c) \in Copies
         /\ \A r \in Record : Plus(b, c)[r] = b[r] + c[r]
BY DEF Plus, Copies

\* Each record of a bag has its trace among the traces of the bag.
LEMMA TracesInBag ==
  ASSUME NEW b \in Copies
  PROVE  /\ TracesIn(b) \subseteq Trace
         /\ \A r \in Record : b[r] > 0 => TraceOf[r] \in TracesIn(b)
BY CollectorAssumption DEF TracesIn, In, Copies

\* The fields of a flight.
LEMMA FlightFields ==
  ASSUME NEW f \in Flight
  PROVE  /\ f.proc \in Process
         /\ f.owner \in Record \cup {Loop}
         /\ f.batch \in Copies
         /\ f.todo \in SUBSET Trace
         /\ f.made \in SUBSET Trace
BY DEF Flight

-----------------------------------------------------------------------------
(* A new flush takes the whole of a batch b of process p. *)

\* A flush is a flight of the right type whose traces are all to be stored.
LEMMA NewFlight ==
  ASSUME NEW p \in Process, NEW o \in Record \cup {Loop}, NEW b \in Copies
  PROVE  [proc |-> p, owner |-> o, batch |-> b, todo |-> TracesIn(b), made |-> {}] \in Flight
BY TracesInBag DEF Flight

\* The invariant holds at the start: nothing is held and nothing is stored.
LEMMA InitInv == Init => IInv
<1> SUFFICES ASSUME Init PROVE IInv
  OBVIOUS
<1>1. TypeOK
  <2>1. sends \in [Record -> 0..MaxSends] /\ errors \in 0..MaxErrors
    BY CollectorAssumption DEF Init, Empty
  <2>2. QED BY <2>1 DEF Init, TypeOK, Empty, Copies, Nobody
<1>2. OwnBatch /\ TracesReady
  BY DEF Init, OwnBatch, TracesReady
<1>3. AcknowledgedStored /\ SpansHaveTrace /\ OnlyProcessEndLoses
  BY DEF Init, Empty, AcknowledgedStored, SpansHaveTrace, OnlyProcessEndLoses
<1>4. QED BY <1>1, <1>2, <1>3 DEF IInv

\* A client's request awaits the lock; nothing else changes.
LEMMA PostInv ==
  ASSUME IInv, NEW r \in Record, NEW p \in Process, Post(r, p)
  PROVE  IInv'
<1> USE DEF IInv, Post, database
<1>1. TypeOK'
  <2>1. sends' \in [Record -> 0..MaxSends]
    BY CollectorAssumption DEF TypeOK
  <2>2. reply' \in [Record -> {"none", "waiting", "ingesting", "ok", "error"}]
    BY DEF TypeOK
  <2>3. QED BY <2>1, <2>2 DEF TypeOK
<1>2. OwnBatch' /\ TracesReady'
  BY DEF OwnBatch, TracesReady
<1>3. AcknowledgedStored' /\ SpansHaveTrace'
  BY DEF AcknowledgedStored, SpansHaveTrace, TypeOK
<1>4. OnlyProcessEndLoses'
  BY DEF OnlyProcessEndLoses, TypeOK
<1>5. QED BY <1>1, <1>2, <1>3, <1>4

\* An ingest() moves its record, and the whole buffer, into a flight.
LEMMA IngestInv ==
  ASSUME IInv, NEW r \in Record, Ingest(r)
  PROVE  IInv'
<1> DEFINE p == home[r]
           b == [buffer[p] EXCEPT ![r] = @ + 1]
           g == [proc |-> p, owner |-> r, batch |-> b, todo |-> TracesIn(b), made |-> {}]
<1>1. p \in Process /\ buffer[p] \in Copies
  BY DEF IInv, TypeOK
<1>2. /\ b \in Copies
      /\ b[r] > 0
      /\ \A q \in Record : buffer[p][q] > 0 => b[q] > 0
  BY <1>1 DEF Copies
<1>3. g \in Flight
  BY <1>1, <1>2, NewFlight
<1>4. /\ flights' = flights \cup {g}
      /\ buffer' = [buffer EXCEPT ![p] = Empty]
      /\ reply' = [reply EXCEPT ![r] = "ingesting"]
      /\ lock' = [lock EXCEPT ![p] = r]
      /\ UNCHANGED <<sends, home, spanRows, traceRows, errors, unseen, lost>>
  BY DEF Ingest, Flush, database
<1> HIDE DEF b, g
<1>5. TypeOK'
  <2>1. Empty \in Copies
    BY DEF Empty, Copies
  <2>2. QED BY <1>1, <1>3, <1>4, <2>1 DEF IInv, TypeOK
<1>6. OwnBatch'
  BY <1>2, <1>4 DEF IInv, OwnBatch, g
<1>7. TracesReady'
  BY <1>2, <1>4, TracesInBag DEF IInv, TracesReady, g
<1>8. AcknowledgedStored' /\ SpansHaveTrace'
  BY <1>4 DEF IInv, AcknowledgedStored, SpansHaveTrace, TypeOK
<1>9. OnlyProcessEndLoses'
  <2> SUFFICES ASSUME NEW q \in Record, sends'[q] > 0
               PROVE  \/ reply'[q] = "waiting"
                      \/ \E x \in Process : buffer'[x][q] > 0
                      \/ \E f \in flights' : f.batch[q] > 0
                      \/ spanRows'[q] > 0
                      \/ q \in lost'
    BY DEF OnlyProcessEndLoses
  <2>1. CASE q = r \/ buffer[p][q] > 0
    <3>1. g \in flights' /\ g.batch = b
      BY <1>4 DEF g
    <3>2. b[q] > 0
      BY <1>2, <2>1
    <3>3. QED BY <3>1, <3>2
  <2>2. CASE q # r /\ ~(buffer[p][q] > 0)
    <3>1. reply'[q] = reply[q]
      BY <1>4, <2>2 DEF IInv, TypeOK
    <3>2. \A x \in Process : buffer[x][q] > 0 => buffer'[x][q] > 0
      BY <1>4, <2>2 DEF IInv, TypeOK
    <3>3. sends[q] > 0
      BY <1>4
    <3>4. QED BY <1>4, <3>1, <3>2, <3>3 DEF IInv, OnlyProcessEndLoses
  <2>3. QED BY <2>1, <2>2
<1>10. QED BY <1>5, <1>6, <1>7, <1>8, <1>9 DEF IInv

\* The loop moves the whole buffer into a flight.
LEMMA LoopFlushInv ==
  ASSUME IInv, NEW p \in Process, LoopFlush(p)
  PROVE  IInv'
<1> DEFINE b == buffer[p]
           g == [proc |-> p, owner |-> Loop, batch |-> b, todo |-> TracesIn(b), made |-> {}]
<1>1. b \in Copies
  BY DEF IInv, TypeOK
<1>2. g \in Flight
  BY <1>1, NewFlight
<1>3. /\ flights' = flights \cup {g}
      /\ buffer' = [buffer EXCEPT ![p] = Empty]
      /\ UNCHANGED <<sends, reply, home, lock, spanRows, traceRows, errors, unseen, lost>>
  BY DEF LoopFlush, Flush, client, database
<1> HIDE DEF g
<1>4. TypeOK'
  <2>1. Empty \in Copies
    BY DEF Empty, Copies
  <2>2. QED BY <1>2, <1>3, <2>1 DEF IInv, TypeOK
<1>5. OwnBatch'
  BY <1>3, CollectorNames DEF IInv, OwnBatch, g
<1>6. TracesReady'
  BY <1>1, <1>3, TracesInBag DEF IInv, TracesReady, g
<1>7. AcknowledgedStored' /\ SpansHaveTrace'
  BY <1>3 DEF IInv, AcknowledgedStored, SpansHaveTrace
<1>8. OnlyProcessEndLoses'
  <2> SUFFICES ASSUME NEW q \in Record, sends'[q] > 0
               PROVE  \/ reply'[q] = "waiting"
                      \/ \E x \in Process : buffer'[x][q] > 0
                      \/ \E f \in flights' : f.batch[q] > 0
                      \/ spanRows'[q] > 0
                      \/ q \in lost'
    BY DEF OnlyProcessEndLoses
  <2>1. CASE buffer[p][q] > 0
    <3>1. g \in flights' /\ g.batch = b
      BY <1>3 DEF g
    <3>2. QED BY <2>1, <3>1
  <2>2. CASE ~(buffer[p][q] > 0)
    <3>1. \A x \in Process : buffer[x][q] > 0 => buffer'[x][q] > 0
      BY <1>3, <2>2 DEF IInv, TypeOK
    <3>2. sends[q] > 0
      BY <1>3
    <3>3. QED BY <1>3, <3>1, <3>2 DEF IInv, OnlyProcessEndLoses
  <2>3. QED BY <2>1, <2>2
<1>9. QED BY <1>4, <1>5, <1>6, <1>7, <1>8 DEF IInv

-----------------------------------------------------------------------------
(* What an answered flush leaves behind. *)

\* Only the owner of the flush learns its outcome, and the lock stays typed.
LEMMA AnswerFrame ==
  ASSUME IInv, NEW f \in Flight, NEW status \in {"ok", "error"}, Answer(f, status)
  PROVE  /\ flights' = flights \ {f}
         /\ UNCHANGED <<sends, home, lost>>
         /\ lock' \in [Process -> Record \cup {Nobody}]
         /\ reply' \in [Record -> {"none", "waiting", "ingesting", "ok", "error"}]
         /\ \A r \in Record : reply'[r] = reply[r] \/ (r = f.owner /\ reply'[r] = status)
<1>1. f.owner \in Record \cup {Loop}
  BY FlightFields
<1>2. CASE f.owner = Loop
  BY <1>2 DEF Answer, IInv, TypeOK
<1>3. CASE f.owner # Loop
  BY <1>1, <1>3 DEF Answer, IInv, TypeOK
<1>4. QED BY <1>2, <1>3

-----------------------------------------------------------------------------
(* The steps of a transaction. *)

\* A stored trace is, for its own flight, either there or inserted.
LEMMA StoreTraceInv ==
  ASSUME IInv, NEW f \in flights, NEW t \in Trace, StoreTrace(f, t)
  PROVE  IInv'
<1> DEFINE g == [f EXCEPT !.todo = @ \ {t},
                          !.made = IF traceRows[t] = 0 THEN @ \cup {t} ELSE @]
<1>1. f \in Flight
  BY DEF IInv, TypeOK
<1>2. /\ flights' = (flights \ {f}) \cup {g}
      /\ UNCHANGED <<sends, reply, home, lock, buffer, spanRows, traceRows, errors, unseen, lost>>
  BY DEF StoreTrace, client, database
<1>3. /\ g \in Flight
      /\ g.owner = f.owner /\ g.batch = f.batch
      /\ g.todo = f.todo \ {t}
      /\ g.made = IF traceRows[t] = 0 THEN f.made \cup {t} ELSE f.made
  BY <1>1 DEF Flight
<1> HIDE DEF g
<1>4. TypeOK'
  BY <1>2, <1>3 DEF IInv, TypeOK
<1>5. OwnBatch'
  BY <1>2, <1>3 DEF IInv, OwnBatch
<1>6. TracesReady'
  <2> SUFFICES ASSUME NEW h \in flights', NEW r \in Record, h.batch[r] > 0
               PROVE  \/ TraceOf[r] \in h.todo \/ TraceOf[r] \in h.made
                      \/ traceRows[TraceOf[r]] > 0
    BY <1>2 DEF TracesReady
  <2>1. traceRows[t] \in Nat
    BY DEF IInv, TypeOK
  <2>2. CASE h = g
    BY <1>3, <2>1, <2>2 DEF IInv, TracesReady
  <2>3. CASE h \in flights
    BY <2>3 DEF IInv, TracesReady
  <2>4. QED BY <1>2, <2>2, <2>3
<1>7. AcknowledgedStored' /\ SpansHaveTrace'
  BY <1>2 DEF IInv, AcknowledgedStored, SpansHaveTrace
<1>8. OnlyProcessEndLoses'
  BY <1>2, <1>3 DEF IInv, OnlyProcessEndLoses
<1>9. QED BY <1>4, <1>5, <1>6, <1>7, <1>8 DEF IInv

\* A flush that raises puts back what it took; what it stored before, if its
\* commit was not seen, stays.
LEMMA RebufferInv ==
  ASSUME IInv, NEW f \in flights, Rebuffer(f),
         errors' \in 0..MaxErrors,
         \/ UNCHANGED <<spanRows, traceRows, unseen>>
         \/ f.todo = {} /\ Store(f) /\ unseen' = Plus(unseen, f.batch)
  PROVE  IInv'
<1>1. f \in Flight /\ f.batch \in Copies /\ f.proc \in Process
  BY FlightFields DEF IInv, TypeOK
<1>2. /\ flights' = flights \ {f}
      /\ buffer' = [buffer EXCEPT ![f.proc] = Plus(buffer[f.proc], f.batch)]
      /\ UNCHANGED <<sends, home, lost>>
      /\ lock' \in [Process -> Record \cup {Nobody}]
      /\ reply' \in [Record -> {"none", "waiting", "ingesting", "ok", "error"}]
      /\ \A r \in Record : reply'[r] = reply[r] \/ (r = f.owner /\ reply'[r] = "error")
  BY <1>1, AnswerFrame DEF Rebuffer
<1>3. /\ spanRows' \in Copies /\ unseen' \in Copies /\ traceRows' \in [Trace -> Nat]
      /\ \A r \in Record : spanRows'[r] >= spanRows[r]
      /\ \A t \in Trace : traceRows'[t] >= traceRows[t]
  <2>1. spanRows \in Copies /\ unseen \in Copies /\ traceRows \in [Trace -> Nat]
    BY DEF IInv, TypeOK
  <2>2. CASE UNCHANGED <<spanRows, traceRows, unseen>>
    BY <2>1, <2>2 DEF Copies
  <2>3. CASE Store(f) /\ unseen' = Plus(unseen, f.batch)
    <3>1. spanRows' \in Copies /\ unseen' \in Copies
      BY <1>1, <2>1, <2>3, PlusCopies DEF Store
    <3>2. \A r \in Record : /\ spanRows'[r] = spanRows[r] + f.batch[r]
                           /\ spanRows[r] \in Nat /\ f.batch[r] \in Nat
      BY <1>1, <2>1, <2>3, PlusCopies DEF Store, Copies
    <3>3. traceRows' \in [Trace -> Nat] /\ \A t \in Trace : traceRows'[t] >= traceRows[t]
      BY <2>1, <2>3 DEF Store
    <3>4. QED BY <3>1, <3>2, <3>3
  <2>4. QED BY <2>2, <2>3
<1>4. /\ buffer' \in [Process -> Copies]
      /\ \A q \in Record : f.batch[q] > 0 => buffer'[f.proc][q] > 0
      /\ \A x \in Process, q \in Record : buffer[x][q] > 0 => buffer'[x][q] > 0
  <2>1. buffer[f.proc] \in Copies
    BY <1>1 DEF IInv, TypeOK
  <2>2. /\ Plus(buffer[f.proc], f.batch) \in Copies
        /\ \A q \in Record : Plus(buffer[f.proc], f.batch)[q] = buffer[f.proc][q] + f.batch[q]
    BY <1>1, <2>1, PlusCopies
  <2>3. \A q \in Record : buffer[f.proc][q] \in Nat /\ f.batch[q] \in Nat
    BY <1>1, <2>1 DEF Copies
  <2>4. QED BY <1>1, <1>2, <2>2, <2>3 DEF IInv, TypeOK
<1>5. TypeOK'
  BY <1>2, <1>3, <1>4 DEF IInv, TypeOK
<1>6. OwnBatch'
  BY <1>2 DEF IInv, OwnBatch
<1>7. TracesReady'
  <2>1. \A r \in Record : TraceOf[r] \in Trace
    BY CollectorAssumption
  <2>2. \A t \in Trace : traceRows[t] \in Nat /\ traceRows'[t] \in Nat
    BY <1>3 DEF IInv, TypeOK
  <2>3. QED BY <1>2, <1>3, <2>1, <2>2 DEF IInv, TracesReady
<1>8. AcknowledgedStored'
  <2>1. \A r \in Record : spanRows[r] \in Nat /\ spanRows'[r] \in Nat
    BY <1>3 DEF IInv, TypeOK, Copies
  <2>2. QED BY <1>2, <1>3, <2>1 DEF IInv, AcknowledgedStored
<1>9. SpansHaveTrace'
  <2> SUFFICES ASSUME NEW r \in Record, spanRows'[r] > 0
               PROVE  traceRows'[TraceOf[r]] > 0
    BY DEF SpansHaveTrace
  <2>1. TraceOf[r] \in Trace /\ traceRows[TraceOf[r]] \in Nat /\ traceRows'[TraceOf[r]] \in Nat
    BY <1>3, CollectorAssumption DEF IInv, TypeOK
  <2>2. CASE spanRows[r] > 0
    BY <1>3, <2>1, <2>2 DEF IInv, SpansHaveTrace
  <2>3. CASE ~(spanRows[r] > 0)
    <3>1. f.todo = {} /\ Store(f)
      BY <2>3 DEF IInv, SpansHaveTrace
    <3>2. spanRows \in Copies
      BY DEF IInv, TypeOK
    <3>3. spanRows'[r] = spanRows[r] + f.batch[r] /\ spanRows[r] \in Nat /\ f.batch[r] \in Nat
      BY <1>1, <3>1, <3>2, PlusCopies DEF Store, Copies
    <3>4. f.batch[r] > 0
      BY <2>3, <3>3
    <3>5. TraceOf[r] \in f.made \/ traceRows[TraceOf[r]] > 0
      BY <3>1, <3>4 DEF IInv, TracesReady
    <3>6. QED BY <2>1, <3>1, <3>5 DEF Store
  <2>4. QED BY <2>2, <2>3
<1>10. OnlyProcessEndLoses'
  <2> SUFFICES ASSUME NEW q \in Record, sends'[q] > 0
               PROVE  \/ reply'[q] = "waiting"
                      \/ \E x \in Process : buffer'[x][q] > 0
                      \/ \E g \in flights' : g.batch[q] > 0
                      \/ spanRows'[q] > 0
                      \/ q \in lost'
    BY DEF OnlyProcessEndLoses
  <2>1. CASE f.batch[q] > 0
    BY <1>1, <1>4, <2>1
  <2>2. CASE ~(f.batch[q] > 0)
    <3>1. q # f.owner
      BY <2>2 DEF IInv, OwnBatch
    <3>2. spanRows[q] \in Nat /\ spanRows'[q] \in Nat
      BY <1>3 DEF IInv, TypeOK, Copies
    <3>3. QED BY <1>2, <1>3, <1>4, <2>2, <3>1, <3>2 DEF IInv, OnlyProcessEndLoses
  <2>3. QED BY <2>1, <2>2
<1>11. QED BY <1>5, <1>6, <1>7, <1>8, <1>9, <1>10 DEF IInv

\* A commit stores the batch, with the traces its transaction inserted.
LEMMA CommitInv ==
  ASSUME IInv, NEW f \in flights, Commit(f)
  PROVE  IInv'
<1>1. f \in Flight /\ f.batch \in Copies /\ f.proc \in Process
  BY FlightFields DEF IInv, TypeOK
<1>2. /\ flights' = flights \ {f}
      /\ UNCHANGED <<sends, home, buffer, errors, unseen, lost>>
      /\ lock' \in [Process -> Record \cup {Nobody}]
      /\ reply' \in [Record -> {"none", "waiting", "ingesting", "ok", "error"}]
      /\ \A r \in Record : reply'[r] = reply[r] \/ r = f.owner
  BY <1>1, AnswerFrame DEF Commit
<1>3. /\ spanRows' \in Copies /\ traceRows' \in [Trace -> Nat]
      /\ \A r \in Record : spanRows'[r] = spanRows[r] + f.batch[r]
      /\ \A r \in Record : spanRows[r] \in Nat /\ f.batch[r] \in Nat
      /\ \A t \in Trace : traceRows'[t] >= traceRows[t]
  BY <1>1, PlusCopies DEF IInv, TypeOK, Commit, Store, Copies
<1>4. TypeOK'
  BY <1>2, <1>3 DEF IInv, TypeOK
<1>5. OwnBatch'
  BY <1>2 DEF IInv, OwnBatch
<1>6. TracesReady'
  <2>1. \A r \in Record : TraceOf[r] \in Trace
    BY CollectorAssumption
  <2>2. \A t \in Trace : traceRows[t] \in Nat /\ traceRows'[t] \in Nat
    BY <1>3 DEF IInv, TypeOK
  <2>3. QED BY <1>2, <1>3, <2>1, <2>2 DEF IInv, TracesReady
<1>7. AcknowledgedStored'
  BY <1>2, <1>3 DEF IInv, AcknowledgedStored, OwnBatch
<1>8. SpansHaveTrace'
  <2> SUFFICES ASSUME NEW r \in Record, spanRows'[r] > 0
               PROVE  traceRows'[TraceOf[r]] > 0
    BY DEF SpansHaveTrace
  <2>1. TraceOf[r] \in Trace /\ traceRows[TraceOf[r]] \in Nat /\ traceRows'[TraceOf[r]] \in Nat
    BY <1>3, CollectorAssumption DEF IInv, TypeOK
  <2>2. CASE spanRows[r] > 0
    BY <1>3, <2>1, <2>2 DEF IInv, SpansHaveTrace
  <2>3. CASE f.batch[r] > 0
    <3>1. TraceOf[r] \in f.made \/ traceRows[TraceOf[r]] > 0
      BY <2>3 DEF IInv, TracesReady, Commit
    <3>2. QED BY <2>1, <3>1 DEF Store, Commit
  <2>4. QED BY <1>3, <2>2, <2>3
<1>9. OnlyProcessEndLoses'
  <2> SUFFICES ASSUME NEW q \in Record, sends'[q] > 0
               PROVE  \/ reply'[q] = "waiting"
                      \/ \E x \in Process : buffer'[x][q] > 0
                      \/ \E g \in flights' : g.batch[q] > 0
                      \/ spanRows'[q] > 0
                      \/ q \in lost'
    BY DEF OnlyProcessEndLoses
  <2>1. CASE f.batch[q] > 0
    BY <1>3, <2>1
  <2>2. CASE ~(f.batch[q] > 0)
    <3>1. q # f.owner
      BY <2>2 DEF IInv, OwnBatch
    <3>2. QED BY <1>2, <1>3, <2>2, <3>1 DEF IInv, OnlyProcessEndLoses
  <2>3. QED BY <2>1, <2>2
<1>10. QED BY <1>4, <1>5, <1>6, <1>7, <1>8, <1>9 DEF IInv

\* A process that ends turns all that it held into lost records.
LEMMA ProcessEndsInv ==
  ASSUME IInv, NEW p \in Process, ProcessEnds(p)
  PROVE  IInv'
<1> DEFINE mine == {f \in flights : f.proc = p}
<1>1. /\ flights' = flights \ mine
      /\ buffer' = [buffer EXCEPT ![p] = Empty]
      /\ lock' = [lock EXCEPT ![p] = Nobody]
      /\ UNCHANGED <<sends, home, spanRows, traceRows, errors, unseen>>
      /\ reply' \in [Record -> {"none", "waiting", "ingesting", "ok", "error"}]
      /\ \A r \in Record : reply'[r] = "ok" => reply[r] = "ok"
  BY DEF ProcessEnds, IInv, TypeOK, database
<1>2. /\ lost' \subseteq Record
      /\ lost \subseteq lost'
      /\ \A r \in Record : buffer[p][r] > 0 => r \in lost'
      /\ \A f \in mine, r \in Record : f.batch[r] > 0 => r \in lost'
      /\ \A r \in Record : reply[r] = "waiting" => (reply'[r] = "waiting" \/ r \in lost')
  <2>1. lost' = lost \cup {r \in Record :
           \/ buffer[p][r] > 0
           \/ \E f \in mine : f.batch[r] > 0
           \/ reply[r] = "waiting" /\ home[r] = p}
    BY DEF ProcessEnds
  <2>2. \A r \in Record : home[r] # p => reply'[r] = reply[r]
    BY DEF ProcessEnds
  <2>3. lost \subseteq Record
    BY DEF IInv, TypeOK
  <2> HIDE DEF mine
  <2>4. QED BY <2>1, <2>2, <2>3
<1> HIDE DEF mine
<1>3. TypeOK'
  <2>1. Empty \in Copies
    BY DEF Empty, Copies
  <2>2. QED BY <1>1, <1>2, <2>1 DEF IInv, TypeOK
<1>4. OwnBatch' /\ TracesReady'
  BY <1>1 DEF IInv, OwnBatch, TracesReady
<1>5. AcknowledgedStored' /\ SpansHaveTrace'
  BY <1>1 DEF IInv, AcknowledgedStored, SpansHaveTrace
<1>6. OnlyProcessEndLoses'
  BY <1>1, <1>2 DEF IInv, OnlyProcessEndLoses, TypeOK
<1>7. QED BY <1>3, <1>4, <1>5, <1>6 DEF IInv

-----------------------------------------------------------------------------
\* Every step keeps the invariant.
LEMMA NextInv == IInv /\ [Next]_vars => IInv'
<1> SUFFICES ASSUME IInv, [Next]_vars PROVE IInv'
  OBVIOUS
<1>1. CASE \E r \in Record, p \in Process : Post(r, p)
  BY <1>1, PostInv
<1>2. CASE \E r \in Record : Ingest(r)
  BY <1>2, IngestInv
<1>3. CASE \E p \in Process : LoopFlush(p) \/ ProcessEnds(p)
  BY <1>3, LoopFlushInv, ProcessEndsInv
<1>4. CASE \E f \in flights : Progress(f)
  <2>1. PICK f \in flights : Progress(f)
    BY <1>4
  <2>2. errors \in 0..MaxErrors /\ (errors < MaxErrors => errors + 1 \in 0..MaxErrors)
    BY CollectorAssumption DEF IInv, TypeOK
  <2>3. CASE \E t \in Trace : StoreTrace(f, t)
    BY <2>3, StoreTraceInv
  <2>4. CASE \E t \in Trace : BadTrace(f, t)
    BY <2>2, <2>4, RebufferInv DEF BadTrace, database
  <2>5. CASE DatabaseError(f)
    BY <2>2, <2>5, RebufferInv DEF DatabaseError
  <2>6. CASE Commit(f)
    BY <2>6, CommitInv
  <2>7. CASE CommitUnseen(f)
    BY <2>2, <2>7, RebufferInv DEF CommitUnseen
  <2>8. QED BY <2>1, <2>3, <2>4, <2>5, <2>6, <2>7 DEF Progress
<1>5. CASE UNCHANGED vars
  BY <1>5 DEF vars, IInv, TypeOK, OwnBatch, TracesReady, AcknowledgedStored,
              SpansHaveTrace, OnlyProcessEndLoses
<1>6. QED BY <1>1, <1>2, <1>3, <1>4, <1>5 DEF Next

\* The invariant holds in every state.
THEOREM CollectorInvariant == Spec => []IInv
BY InitInv, NextInv, PTL DEF Spec

\* A request answered 200 has its spans in the database (Collector.ingest).
THEOREM CollectorAcknowledgedStored == Spec => []AcknowledgedStored
<1>1. IInv => AcknowledgedStored
  BY DEF IInv
<1>2. QED BY <1>1, CollectorInvariant, PTL

\* Stored spans have a trace row, however flushes of several processes
\* interleave (SpanProcessor.process_spans).
THEOREM CollectorSpansHaveTrace == Spec => []SpansHaveTrace
<1>1. IInv => SpansHaveTrace
  BY DEF IInv
<1>2. QED BY <1>1, CollectorInvariant, PTL

\* Only the end of a process loses records (Collector._flush).
THEOREM CollectorOnlyProcessEndLoses == Spec => []OnlyProcessEndLoses
<1>1. IInv => OnlyProcessEndLoses
  BY DEF IInv
<1>2. QED BY <1>1, CollectorInvariant, PTL

-----------------------------------------------------------------------------
(* Counting the copies of a record.  A copy in a buffer or a flight is a     *)
(* pair of its holder and a number, so that holders need not be summed over. *)

Strip(x, m, n) == {x} \X (m+1 .. m+n)

Buffered(r) == {c \in Process \X Nat : c[2] \in 1..buffer[c[1]][r]}
Flying(r) == {c \in flights \X Nat : c[2] \in 1..c[1].batch[r]}
Waiting(r) == IF reply[r] = "waiting" THEN 1 ELSE 0

\* The copies in the process and in the database were sent, or were stored by a
\* commit that was reported as failed.
Counted(r) ==
  /\ IsFiniteSet(Buffered(r))
  /\ IsFiniteSet(Flying(r))
  /\ Cardinality(Buffered(r)) + Cardinality(Flying(r)) + spanRows[r] + Waiting(r)
       <= sends[r] + unseen[r]

CopiesCounted == \A r \in Record : Counted(r)

LEMMA StripSize ==
  ASSUME NEW x, NEW m \in Nat, NEW n \in Nat
  PROVE  IsFiniteSet(Strip(x, m, n)) /\ Cardinality(Strip(x, m, n)) = n
<1>1. IsFiniteSet(m+1 .. m+n) /\ Cardinality(m+1 .. m+n) = n
  BY FS_Interval
<1>2. IsFiniteSet({x}) /\ Cardinality({x}) = 1
  BY FS_Singleton
<1>3. /\ IsFiniteSet({x} \X (m+1 .. m+n))
      /\ Cardinality({x} \X (m+1 .. m+n)) = 1 * n
  BY <1>1, <1>2, FS_Product
<1>4. QED BY <1>3 DEF Strip

LEMMA AddStrip ==
  ASSUME NEW S, IsFiniteSet(S), NEW x, NEW m \in Nat, NEW n \in Nat,
         NEW T, T = S \cup Strip(x, m, n)
  PROVE  /\ IsFiniteSet(T) /\ Cardinality(T) \in Nat
         /\ Cardinality(T) <= Cardinality(S) + n
<1> DEFINE D == Strip(x, m, n)
<1>1. IsFiniteSet(D) /\ Cardinality(D) = n
  BY StripSize
<1> HIDE DEF D
<1>2. /\ IsFiniteSet(S \cup D) /\ IsFiniteSet(S \cap D)
      /\ Cardinality(S \cup D) = Cardinality(S) + Cardinality(D) - Cardinality(S \cap D)
  BY <1>1, FS_Union, FS_Intersection
<1>3. Cardinality(S \cup D) \in Nat /\ Cardinality(S \cap D) \in Nat /\ Cardinality(S) \in Nat
  BY <1>2, FS_CardinalityType
<1>4. Cardinality(S \cup D) <= Cardinality(S) + n
  BY <1>1, <1>2, <1>3
<1>5. QED BY <1>2, <1>3, <1>4 DEF D

LEMMA TakeStrip ==
  ASSUME NEW S, IsFiniteSet(S), NEW x, NEW m \in Nat, NEW n \in Nat, Strip(x, m, n) \subseteq S,
         NEW T, T = S \ Strip(x, m, n)
  PROVE  /\ IsFiniteSet(T) /\ Cardinality(T) \in Nat
         /\ Cardinality(T) = Cardinality(S) - n
<1> DEFINE D == Strip(x, m, n)
<1>1. Cardinality(D) = n /\ S \cap D = D
  BY StripSize
<1> HIDE DEF D
<1>2. IsFiniteSet(S \ D) /\ Cardinality(S \ D) = Cardinality(S) - Cardinality(S \cap D)
  BY FS_Difference
<1>3. Cardinality(S \ D) \in Nat
  BY <1>2, FS_CardinalityType
<1>4. QED BY <1>1, <1>2, <1>3 DEF D

\* What the assignments to the buffers and the flights do to the copies.
LEMMA BufferCleared ==
  ASSUME IInv, NEW r \in Record, NEW p \in Process, buffer' = [buffer EXCEPT ![p] = Empty]
  PROVE  /\ Strip(p, 0, buffer[p][r]) \subseteq Buffered(r)
         /\ Buffered(r)' = Buffered(r) \ Strip(p, 0, buffer[p][r])
<1>1. /\ buffer \in [Process -> Copies] /\ buffer[p][r] \in Nat
      /\ \A q \in Process : buffer'[q][r] = IF q = p THEN 0 ELSE buffer[q][r]
  BY DEF IInv, TypeOK, Empty, Copies
<1>2. QED BY <1>1 DEF Buffered, Strip

LEMMA BufferRaised ==
  ASSUME IInv, NEW r \in Record, NEW p \in Process, NEW b \in Copies,
         buffer' = [buffer EXCEPT ![p] = Plus(buffer[p], b)]
  PROVE  Buffered(r)' = Buffered(r) \cup Strip(p, buffer[p][r], b[r])
<1>1. buffer \in [Process -> Copies] /\ buffer[p] \in Copies /\ buffer[p][r] \in Nat /\ b[r] \in Nat
  BY DEF IInv, TypeOK, Copies
<1>2. \A q \in Process : buffer'[q][r] = IF q = p THEN buffer[p][r] + b[r] ELSE buffer[q][r]
  BY <1>1, PlusCopies
<1>3. QED BY <1>1, <1>2 DEF Buffered, Strip

LEMMA FlightRemoved ==
  ASSUME NEW r \in Record, NEW f \in flights, f.batch[r] \in Nat
  PROVE  /\ Strip(f, 0, f.batch[r]) \subseteq Flying(r)
         /\ flights' = flights \ {f} => Flying(r)' = Flying(r) \ Strip(f, 0, f.batch[r])
BY DEF Flying, Strip

LEMMA FlightAdded ==
  ASSUME NEW r \in Record, NEW g, g.batch[r] \in Nat, flights' = flights \cup {g}
  PROVE  Flying(r)' = Flying(r) \cup Strip(g, 0, g.batch[r])
BY DEF Flying, Strip

\* The numbers that Counted compares.
LEMMA CountedTypes ==
  ASSUME IInv, CopiesCounted, NEW r \in Record
  PROVE  /\ IsFiniteSet(Buffered(r)) /\ Cardinality(Buffered(r)) \in Nat
         /\ IsFiniteSet(Flying(r)) /\ Cardinality(Flying(r)) \in Nat
         /\ spanRows[r] \in Nat /\ Waiting(r) \in {0, 1} /\ sends[r] \in Nat /\ unseen[r] \in Nat
         /\ \A p \in Process : buffer[p][r] \in Nat
         /\ \A f \in flights : f \in Flight /\ f.batch \in Copies /\ f.batch[r] \in Nat
         /\ Cardinality(Buffered(r)) + Cardinality(Flying(r)) + spanRows[r] + Waiting(r)
              <= sends[r] + unseen[r]
<1>1. Counted(r)
  BY DEF CopiesCounted
<1>2. Cardinality(Buffered(r)) \in Nat /\ Cardinality(Flying(r)) \in Nat
  BY <1>1, FS_CardinalityType DEF Counted
<1>3. \A f \in flights : f \in Flight /\ f.batch \in Copies
  BY FlightFields DEF IInv, TypeOK
<1>4. spanRows[r] \in Nat /\ unseen[r] \in Nat /\ \A p \in Process : buffer[p][r] \in Nat
  BY DEF IInv, TypeOK, Copies
<1>5. sends[r] \in Nat
  BY CollectorAssumption DEF IInv, TypeOK
<1>6. Waiting(r) \in {0, 1}
  BY DEF Waiting
<1>7. \A f \in flights : f.batch[r] \in Nat
  BY <1>3 DEF Copies
<1>8. QED BY <1>1, <1>2, <1>3, <1>4, <1>5, <1>6, <1>7 DEF Counted

LEMMA InitCounted == Init => CopiesCounted
<1> SUFFICES ASSUME Init, NEW r \in Record PROVE Counted(r)
  BY DEF CopiesCounted
<1>1. Buffered(r) = {} /\ Flying(r) = {}
  BY DEF Init, Buffered, Flying, Empty
<1>2. spanRows[r] = 0 /\ sends[r] = 0 /\ unseen[r] = 0 /\ Waiting(r) = 0
  BY DEF Init, Empty, Waiting
<1>3. QED BY <1>1, <1>2, FS_EmptySet DEF Counted

\* A request that a client sends is one more copy, which awaits the lock.
LEMMA PostCounted ==
  ASSUME IInv, CopiesCounted, NEW r \in Record, NEW p \in Process, Post(r, p)
  PROVE  CopiesCounted'
<1> SUFFICES ASSUME NEW q \in Record PROVE Counted(q)'
  BY DEF CopiesCounted
<1>1. UNCHANGED <<buffer, flights, spanRows, unseen>> /\ reply[r] # "waiting"
  BY DEF Post, database
<1>2. Buffered(q)' = Buffered(q) /\ Flying(q)' = Flying(q)
  BY <1>1 DEF Buffered, Flying
<1>3. sends'[q] - sends[q] = Waiting(q)' - Waiting(q) /\ sends'[q] \in Nat /\ Waiting(q)' \in {0, 1}
  BY <1>1, CountedTypes DEF Post, Waiting, IInv, TypeOK
<1>4. QED BY <1>1, <1>2, <1>3, CountedTypes DEF Counted

\* A flush moves the copies of a buffer, and the one that ingest() appends, into a flight.
LEMMA FlushCounted ==
  ASSUME IInv, CopiesCounted, NEW p \in Process, NEW g, NEW q \in Record,
         buffer' = [buffer EXCEPT ![p] = Empty], flights' = flights \cup {g},
         UNCHANGED <<sends, spanRows, unseen>>,
         g.batch[q] \in Nat, Waiting(q)' \in {0, 1},
         g.batch[q] - buffer[p][q] = Waiting(q) - Waiting(q)'
  PROVE  Counted(q)'
<1>1. /\ IsFiniteSet(Buffered(q)') /\ Cardinality(Buffered(q)') \in Nat
      /\ Cardinality(Buffered(q)') = Cardinality(Buffered(q)) - buffer[p][q]
  <2>1. IsFiniteSet(Buffered(q)) /\ buffer[p][q] \in Nat
    BY CountedTypes
  <2>2. /\ Strip(p, 0, buffer[p][q]) \subseteq Buffered(q)
        /\ Buffered(q)' = Buffered(q) \ Strip(p, 0, buffer[p][q])
    BY BufferCleared
  <2>3. QED BY <2>1, <2>2, TakeStrip
<1>2. /\ IsFiniteSet(Flying(q)') /\ Cardinality(Flying(q)') \in Nat
      /\ Cardinality(Flying(q)') <= Cardinality(Flying(q)) + g.batch[q]
  <2>1. IsFiniteSet(Flying(q))
    BY CountedTypes
  <2>2. Flying(q)' = Flying(q) \cup Strip(g, 0, g.batch[q])
    BY FlightAdded
  <2>3. QED BY <2>1, <2>2, AddStrip
<1>3. buffer[p][q] \in Nat /\ UNCHANGED <<sends, spanRows, unseen>>
  BY CountedTypes
<1>4. QED BY <1>1, <1>2, <1>3, CountedTypes, SMTT(30) DEF Counted

LEMMA IngestCounted ==
  ASSUME IInv, CopiesCounted, NEW r \in Record, Ingest(r)
  PROVE  CopiesCounted'
<1> SUFFICES ASSUME NEW q \in Record PROVE Counted(q)'
  BY DEF CopiesCounted
<1> DEFINE p == home[r]
           b == [buffer[p] EXCEPT ![r] = @ + 1]
           g == [proc |-> p, owner |-> r, batch |-> b, todo |-> TracesIn(b), made |-> {}]
<1>1. p \in Process /\ buffer[p] \in Copies /\ reply \in [Record -> {"none", "waiting", "ingesting", "ok", "error"}]
  BY DEF IInv, TypeOK
<1>2. /\ flights' = flights \cup {g}
      /\ buffer' = [buffer EXCEPT ![p] = Empty]
      /\ reply[r] = "waiting" /\ reply' = [reply EXCEPT ![r] = "ingesting"]
      /\ UNCHANGED <<sends, spanRows, unseen>>
  BY DEF Ingest, Flush, database
<1>3. g.batch = b /\ b[q] = buffer[p][q] + (IF q = r THEN 1 ELSE 0) /\ buffer[p][q] \in Nat
  BY <1>1 DEF Copies
<1> HIDE DEF g, b
<1>4. /\ Waiting(q)' \in {0, 1}
      /\ Waiting(q) - Waiting(q)' = IF q = r THEN 1 ELSE 0
  BY <1>1, <1>2 DEF Waiting
<1>5. g.batch[q] \in Nat /\ g.batch[q] - buffer[p][q] = Waiting(q) - Waiting(q)'
  BY <1>3, <1>4
<1>6. QED BY <1>1, <1>2, <1>4, <1>5, FlushCounted

LEMMA LoopFlushCounted ==
  ASSUME IInv, CopiesCounted, NEW p \in Process, LoopFlush(p)
  PROVE  CopiesCounted'
<1> SUFFICES ASSUME NEW q \in Record PROVE Counted(q)'
  BY DEF CopiesCounted
<1> DEFINE g == [proc |-> p, owner |-> Loop, batch |-> buffer[p],
                 todo |-> TracesIn(buffer[p]), made |-> {}]
<1>1. /\ flights' = flights \cup {g}
      /\ buffer' = [buffer EXCEPT ![p] = Empty]
      /\ UNCHANGED <<sends, spanRows, unseen, reply>>
  BY DEF LoopFlush, Flush, database, client
<1>2. g.batch = buffer[p]
  OBVIOUS
<1> HIDE DEF g
<1>3. Waiting(q)' = Waiting(q)
  BY <1>1 DEF Waiting
<1>4. g.batch[q] \in Nat /\ g.batch[q] - buffer[p][q] = Waiting(q) - Waiting(q)'
  BY <1>2, <1>3, CountedTypes
<1>5. QED BY <1>1, <1>3, <1>4, FlushCounted, CountedTypes

\* A flight that stores a trace holds the copies that it held before.
LEMMA StoreTraceCounted ==
  ASSUME IInv, CopiesCounted, NEW f \in flights, NEW t \in Trace, StoreTrace(f, t)
  PROVE  CopiesCounted'
<1> SUFFICES ASSUME NEW q \in Record PROVE Counted(q)'
  BY DEF CopiesCounted
<1> DEFINE g == [f EXCEPT !.todo = @ \ {t},
                          !.made = IF traceRows[t] = 0 THEN @ \cup {t} ELSE @]
           S == Flying(q) \ Strip(f, 0, f.batch[q])
<1>1. /\ flights' = (flights \ {f}) \cup {g}
      /\ UNCHANGED <<sends, reply, buffer, spanRows, unseen>>
  BY DEF StoreTrace, client, database
<1>2. g.batch = f.batch /\ f.batch[q] \in Nat
  BY CountedTypes DEF Flight
<1> HIDE DEF g
<1>3. /\ IsFiniteSet(S) /\ Cardinality(S) \in Nat
      /\ Cardinality(S) = Cardinality(Flying(q)) - f.batch[q]
  <2>1. IsFiniteSet(Flying(q))
    BY CountedTypes
  <2>2. Strip(f, 0, f.batch[q]) \subseteq Flying(q)
    BY <1>2, FlightRemoved
  <2>3. QED BY <1>2, <2>1, <2>2, TakeStrip
<1>4. Flying(q)' = S \cup Strip(g, 0, g.batch[q])
  BY <1>1, <1>2 DEF Flying, Strip
<1> HIDE DEF S
<1>5. /\ IsFiniteSet(Flying(q)') /\ Cardinality(Flying(q)') \in Nat
      /\ Cardinality(Flying(q)') <= Cardinality(Flying(q))
  <2>1. /\ IsFiniteSet(Flying(q)') /\ Cardinality(Flying(q)') \in Nat
        /\ Cardinality(Flying(q)') <= Cardinality(S) + f.batch[q]
    BY <1>2, <1>3, <1>4, AddStrip
  <2>2. Cardinality(Flying(q)) \in Nat
    BY CountedTypes
  <2>3. QED BY <1>2, <1>3, <2>1, <2>2
<1>6. Buffered(q)' = Buffered(q) /\ Waiting(q)' = Waiting(q)
  BY <1>1 DEF Buffered, Waiting
<1>7. QED BY <1>1, <1>5, <1>6, CountedTypes DEF Counted

\* The copies of a flight that ends go where its outcome says.
LEMMA FlightEnds ==
  ASSUME IInv, CopiesCounted, NEW f \in flights, NEW status \in {"ok", "error"}, Answer(f, status),
         NEW q \in Record
  PROVE  /\ UNCHANGED sends
         /\ Waiting(q)' \in {0, 1} /\ Waiting(q)' <= Waiting(q)
         /\ IsFiniteSet(Flying(q)') /\ Cardinality(Flying(q)') \in Nat
         /\ Cardinality(Flying(q)') = Cardinality(Flying(q)) - f.batch[q]
<1>1. /\ flights' = flights \ {f} /\ UNCHANGED sends
      /\ \A r \in Record : reply'[r] = reply[r] \/ (r = f.owner /\ reply'[r] = status)
  BY AnswerFrame, CountedTypes
<1>2. Waiting(q)' \in {0, 1} /\ Waiting(q)' <= Waiting(q)
  BY <1>1 DEF Waiting
<1>3. f.batch[q] \in Nat
  BY CountedTypes
<1>4. /\ Strip(f, 0, f.batch[q]) \subseteq Flying(q)
      /\ Flying(q)' = Flying(q) \ Strip(f, 0, f.batch[q])
  BY <1>1, <1>3, FlightRemoved
<1>5. /\ IsFiniteSet(Flying(q)') /\ Cardinality(Flying(q)') \in Nat
      /\ Cardinality(Flying(q)') = Cardinality(Flying(q)) - f.batch[q]
  <2>1. IsFiniteSet(Flying(q))
    BY CountedTypes
  <2>2. QED BY <1>3, <1>4, <2>1, TakeStrip
<1>6. QED BY <1>1, <1>2, <1>5

LEMMA RebufferCounted ==
  ASSUME IInv, CopiesCounted, NEW f \in flights, Rebuffer(f),
         \/ UNCHANGED <<spanRows, unseen>>
         \/ Store(f) /\ unseen' = Plus(unseen, f.batch)
  PROVE  CopiesCounted'
<1> SUFFICES ASSUME NEW q \in Record PROVE Counted(q)'
  BY DEF CopiesCounted
<1>1. f \in Flight /\ f.batch \in Copies /\ f.proc \in Process /\ f.batch[q] \in Nat
  BY CountedTypes, FlightFields
<1>2. /\ UNCHANGED sends
      /\ Waiting(q)' \in {0, 1} /\ Waiting(q)' <= Waiting(q)
      /\ IsFiniteSet(Flying(q)') /\ Cardinality(Flying(q)') \in Nat
      /\ Cardinality(Flying(q)') = Cardinality(Flying(q)) - f.batch[q]
  BY FlightEnds DEF Rebuffer
<1>3. buffer' = [buffer EXCEPT ![f.proc] = Plus(buffer[f.proc], f.batch)]
  BY DEF Rebuffer
<1>4. /\ IsFiniteSet(Buffered(q)') /\ Cardinality(Buffered(q)') \in Nat
      /\ Cardinality(Buffered(q)') <= Cardinality(Buffered(q)) + f.batch[q]
  <2>1. IsFiniteSet(Buffered(q)) /\ buffer[f.proc][q] \in Nat
    BY <1>1, CountedTypes
  <2>2. Buffered(q)' = Buffered(q) \cup Strip(f.proc, buffer[f.proc][q], f.batch[q])
    BY <1>1, <1>3, BufferRaised
  <2>3. QED BY <1>1, <2>1, <2>2, AddStrip
<1>5. spanRows'[q] - spanRows[q] = unseen'[q] - unseen[q] /\ spanRows'[q] \in Nat /\ unseen'[q] \in Nat
  <2>1. spanRows \in Copies /\ unseen \in Copies
    BY DEF IInv, TypeOK
  <2>2. QED BY <1>1, <2>1, CountedTypes, PlusCopies DEF Store
<1>6. QED BY <1>1, <1>2, <1>4, <1>5, CountedTypes DEF Counted

LEMMA CommitCounted ==
  ASSUME IInv, CopiesCounted, NEW f \in flights, Commit(f)
  PROVE  CopiesCounted'
<1> SUFFICES ASSUME NEW q \in Record PROVE Counted(q)'
  BY DEF CopiesCounted
<1>1. f.batch \in Copies /\ f.batch[q] \in Nat /\ UNCHANGED <<buffer, unseen>>
  BY CountedTypes DEF Commit
<1>2. /\ UNCHANGED sends
      /\ Waiting(q)' \in {0, 1} /\ Waiting(q)' <= Waiting(q)
      /\ IsFiniteSet(Flying(q)') /\ Cardinality(Flying(q)') \in Nat
      /\ Cardinality(Flying(q)') = Cardinality(Flying(q)) - f.batch[q]
  BY FlightEnds DEF Commit
<1>3. Buffered(q)' = Buffered(q)
  BY <1>1 DEF Buffered
<1>4. spanRows'[q] = spanRows[q] + f.batch[q]
  BY <1>1, PlusCopies DEF Commit, Store, IInv, TypeOK
<1>5. QED BY <1>1, <1>2, <1>3, <1>4, CountedTypes DEF Counted

\* A process that ends forgets copies.
LEMMA ProcessEndsCounted ==
  ASSUME IInv, CopiesCounted, NEW p \in Process, ProcessEnds(p)
  PROVE  CopiesCounted'
<1> SUFFICES ASSUME NEW q \in Record PROVE Counted(q)'
  BY DEF CopiesCounted
<1>1. /\ flights' \subseteq flights
      /\ buffer' = [buffer EXCEPT ![p] = Empty]
      /\ UNCHANGED <<sends, spanRows, unseen>>
  BY DEF ProcessEnds, database
<1>2. reply'[q] = "waiting" => reply[q] = "waiting"
  BY DEF ProcessEnds
<1>3. Buffered(q)' \subseteq Buffered(q)
  BY <1>1, BufferCleared
<1>4. Flying(q)' \subseteq Flying(q)
  BY <1>1 DEF Flying
<1>5. /\ IsFiniteSet(Buffered(q)') /\ Cardinality(Buffered(q)') <= Cardinality(Buffered(q))
      /\ IsFiniteSet(Flying(q)') /\ Cardinality(Flying(q)') <= Cardinality(Flying(q))
  BY <1>3, <1>4, CountedTypes, FS_Subset
<1>6. Cardinality(Buffered(q)') \in Nat /\ Cardinality(Flying(q)') \in Nat
  BY <1>5, FS_CardinalityType
<1>7. Waiting(q)' \in {0, 1} /\ Waiting(q)' <= Waiting(q)
  BY <1>2 DEF Waiting
<1>8. QED BY <1>1, <1>5, <1>6, <1>7, CountedTypes DEF Counted

LEMMA NextCounted == IInv /\ CopiesCounted /\ [Next]_vars => CopiesCounted'
<1> SUFFICES ASSUME IInv, CopiesCounted, [Next]_vars PROVE CopiesCounted'
  OBVIOUS
<1>1. CASE \E f \in flights : Progress(f)
  <2>1. PICK f \in flights : Progress(f)
    BY <1>1
  <2>2. CASE \E t \in Trace : StoreTrace(f, t) \/ BadTrace(f, t)
    BY <2>2, StoreTraceCounted, RebufferCounted DEF BadTrace, database
  <2>3. CASE DatabaseError(f) \/ Commit(f) \/ CommitUnseen(f)
    BY <2>3, RebufferCounted, CommitCounted DEF DatabaseError, CommitUnseen
  <2>4. QED BY <2>1, <2>2, <2>3 DEF Progress
<1>2. CASE UNCHANGED vars
  BY <1>2 DEF vars, CopiesCounted, Counted, Buffered, Flying, Waiting
<1>3. QED
  BY <1>1, <1>2, PostCounted, IngestCounted, LoopFlushCounted, ProcessEndsCounted DEF Next

\* However often a batch is put back and flushed again (Collector._flush), the database
\* has no more copies of a record than were sent or reported as failed.
THEOREM CollectorDuplicatesExplained == Spec => []DuplicatesExplained
<1>1. IInv /\ CopiesCounted => DuplicatesExplained
  BY CountedTypes DEF DuplicatesExplained
<1>2. QED
  BY <1>1, InitCounted, NextCounted, CollectorInvariant, PTL DEF Spec

=============================================================================
