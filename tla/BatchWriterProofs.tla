------------------------- MODULE BatchWriterProofs -------------------------
(***************************************************************************)
(* Proofs about BatchWriter for every set of records and callers and every *)
(* batch size: its safety invariants, and that it implements SpanLedger.   *)
(***************************************************************************)
EXTENDS BatchWriter, TLAPS

\* Where stop() is decides what the loop does and who may still be writing.
Phases ==
  /\ running => loop = "on" /\ stopping = "no"
  /\ loop = "on" => running
  /\ stopping = "no" <=> loop \in {"off", "on"}
  /\ stopping = "joining" <=> loop = "cancelling"
  /\ loop = "ended" => flight[Loop] = {}
  /\ stopping # "no" => \A c \in Caller : flight[c] = {}
  /\ flight[Stopper] # {} => stopping = "flushing" /\ buffer = {}

\* What the process holds was accepted, and the batch that stop() cut off is
\* the one the loop is writing.
Sources ==
  /\ buffer \subseteq accepted
  /\ \A t \in Task : flight[t] \subseteq accepted
  /\ stored \subseteq accepted
  /\ stopping = "no" => cut = {}
  /\ stopping = "joining" => cut = flight[Loop]

\* The usage rows of a record while it is held, and afterwards.
Rows ==
  \A r \in Record :
    /\ r \in stored \cap Counted <=> tokenRows[r] > 0
    /\ r \in Counted => unsure[r] <= tokenRows[r]
    /\ tokenRows[r] <= unsure[r] + 1
    /\ (r \in Counted /\ (r \in buffer \/ \E t \in Task : r \in flight[t]))
         => tokenRows[r] = unsure[r]

\* An accepted record is in one of the places that account for it.
Placed ==
  \A r \in accepted :
    \/ r \in buffer
    \/ r \in stored
    \/ r \in cut
    \/ \E t \in Task : r \in flight[t]

IInv == TypeOK /\ HeldOnce /\ Phases /\ Sources /\ Rows /\ Placed

-----------------------------------------------------------------------------
\* Membership in Held without the union.
LEMMA InHeld ==
  ASSUME NEW r
  PROVE  r \in Held <=> (r \in buffer \/ \E t \in Task : r \in flight[t])
BY DEF Held

LEMMA TaskMembers ==
  /\ Loop \in Task
  /\ Stopper \in Task
  /\ Loop # Stopper
  /\ \A c \in Caller : c \in Task /\ c # Loop /\ c # Stopper
  /\ \A t \in Task : t \in Caller \/ t = Loop \/ t = Stopper
BY BatchWriterAssumption DEF Task, Loop, Stopper

LEMMA InitIInv == Init => IInv
<1> SUFFICES ASSUME Init PROVE IInv
  OBVIOUS
<1> USE BatchWriterAssumption, TaskMembers DEF Init
<1>1. TypeOK
  <2>1. 0 \in 0..MaxCopies /\ 0 \in 0..MaxCopies + 1
    OBVIOUS
  <2>2. tokenRows \in [Record -> 0..MaxCopies + 1] /\ unsure \in [Record -> 0..MaxCopies]
    BY <2>1, Zenon
  <2> QED
    BY <2>2 DEF TypeOK
<1>2. HeldOnce /\ Phases /\ Sources /\ Placed
  BY DEF HeldOnce, Phases, Sources, Placed
<1>3. Rows
  BY DEF Rows
<1> QED
  BY <1>1, <1>2, <1>3 DEF IInv

-----------------------------------------------------------------------------
(* One lemma per action. *)

LEMMA StartStep == IInv /\ Start => IInv'
BY DEF IInv, Start, TypeOK, HeldOnce, Phases, Sources, Rows, Placed, db, history

LEMMA WriteStep ==
  ASSUME NEW c \in Caller, NEW r \in Record, IInv, Write(c, r)
  PROVE  IInv'
<1> DEFINE held == buffer \cup {r}
<1> USE TaskMembers
<1>1. CASE UNCHANGED flight /\ buffer' = held
  BY <1>1 DEF IInv, Write, TypeOK, HeldOnce, Phases, Sources, Rows, Placed, db
<1>2. CASE Swap(c, held)
  <2> USE <1>2 DEF Swap, IInv, Write, db
  <2>1. flight' = [flight EXCEPT ![c] = held] /\ flight[c] = {} /\ buffer' = {}
    BY DEF Idle
  <2>2. TypeOK'
    BY <2>1 DEF TypeOK
  <2>3. HeldOnce'
    BY <2>1 DEF TypeOK, HeldOnce, Sources
  <2>4. Phases' /\ Sources'
    BY <2>1 DEF TypeOK, Phases, Sources
  <2>5. Rows'
    BY <2>1 DEF TypeOK, Rows, Sources
  <2>6. Placed'
    BY <2>1 DEF TypeOK, Placed
  <2> QED
    BY <2>2, <2>3, <2>4, <2>5, <2>6
<1> QED
  BY <1>1, <1>2 DEF Write

LEMMA SwapStep ==
  ASSUME NEW t \in Task, IInv, flight[t] = {}, Swap(t, buffer),
         UNCHANGED <<running, loop, stopping, db, history>>,
         \/ t = Loop /\ loop = "on"
         \/ t = Stopper /\ stopping = "flushing"
  PROVE  IInv'
<1> USE TaskMembers DEF Swap, IInv, db, history
<1>1. TypeOK' /\ HeldOnce'
  BY DEF TypeOK, HeldOnce
<1>2. Phases'
  BY DEF TypeOK, Phases
<1>3. Sources' /\ Placed'
  BY DEF TypeOK, Phases, Sources, Placed
<1>4. Rows'
  BY DEF TypeOK, Rows
<1> QED
  BY <1>1, <1>2, <1>3, <1>4

LEMMA TickStep == IInv /\ Tick => IInv'
<1> SUFFICES ASSUME IInv, Tick PROVE IInv'
  OBVIOUS
<1>1. /\ Loop \in Task /\ flight[Loop] = {} /\ Swap(Loop, buffer)
      /\ UNCHANGED <<running, loop, stopping, db, history>>
      /\ loop = "on"
  BY TaskMembers DEF Tick, Idle
<1> QED
  BY <1>1, SwapStep

LEMMA StopFlushStep == IInv /\ StopFlush => IInv'
<1> SUFFICES ASSUME IInv, StopFlush PROVE IInv'
  OBVIOUS
<1>1. CASE Swap(Stopper, buffer) /\ UNCHANGED stopping
  BY <1>1, SwapStep, TaskMembers DEF StopFlush, Idle
<1>2. CASE stopping' = "done" /\ UNCHANGED <<buffer, flight>>
  BY <1>2 DEF StopFlush, Idle, IInv, TypeOK, HeldOnce, Phases, Sources, Rows,
              Placed, db, history
<1> QED
  BY <1>1, <1>2 DEF StopFlush

LEMMA CommittedStep ==
  ASSUME NEW t \in Task, IInv, Committed(t)
  PROVE  IInv'
<1> USE TaskMembers DEF IInv, Committed, Inserted, history
<1>1. TypeOK'
  <2>1. ASSUME NEW r \in Record
        PROVE  tokenRows[r] + (IF r \in flight[t] \cap Counted THEN 1 ELSE 0) \in 0..MaxCopies + 1
    BY BatchWriterAssumption DEF TypeOK, Rows
  <2> QED
    BY <2>1 DEF TypeOK, AfterFlush
<1>2. HeldOnce' /\ Placed'
  BY DEF TypeOK, HeldOnce, Placed
<1>3. Phases' /\ Sources'
  BY DEF TypeOK, Phases, Sources, AfterFlush, Writing
<1>4. Rows'
  BY DEF TypeOK, HeldOnce, Rows
<1> QED
  BY <1>1, <1>2, <1>3, <1>4

LEMMA RolledBackStep ==
  ASSUME NEW t \in Task, IInv, RolledBack(t)
  PROVE  IInv'
<1> USE TaskMembers DEF IInv, RolledBack, PutBack, db, history
<1>1. TypeOK'
  BY DEF TypeOK, AfterFlush
<1>2. HeldOnce' /\ Placed'
  BY DEF TypeOK, HeldOnce, Placed
<1>3. Phases' /\ Sources'
  BY DEF TypeOK, Phases, Sources, AfterFlush, Writing
<1>4. Rows'
  BY DEF TypeOK, Rows
<1> QED
  BY <1>1, <1>2, <1>3, <1>4

LEMMA CommitReplyLostStep ==
  ASSUME NEW t \in Task, IInv, CommitReplyLost(t)
  PROVE  IInv'
<1> USE TaskMembers, BatchWriterAssumption
    DEF IInv, CommitReplyLost, PutBack, Inserted
<1>1. TypeOK'
  BY DEF TypeOK, Rows, AfterFlush
<1>2. HeldOnce' /\ Placed'
  BY DEF TypeOK, HeldOnce, Placed
<1>3. Phases' /\ Sources'
  BY DEF TypeOK, Phases, Sources, AfterFlush, Writing
<1>4. Rows'
  BY DEF TypeOK, Rows
<1> QED
  BY <1>1, <1>2, <1>3, <1>4

LEMMA StopCalledStep == IInv /\ StopCalled => IInv'
<1> SUFFICES ASSUME IInv, StopCalled PROVE IInv'
  OBVIOUS
<1> USE TaskMembers DEF IInv, StopCalled, Idle, db
<1>1. TypeOK' /\ HeldOnce' /\ Rows'
  BY DEF TypeOK, HeldOnce, Rows
<1>2. Phases' /\ Sources'
  BY DEF TypeOK, Phases, Sources
<1>3. Placed'
  BY DEF Phases, Sources, Placed
<1> QED
  BY <1>1, <1>2, <1>3

LEMMA LoopCancelledStep == IInv /\ LoopCancelled => IInv'
<1> SUFFICES ASSUME IInv, LoopCancelled PROVE IInv'
  OBVIOUS
<1> USE TaskMembers DEF IInv, LoopCancelled, Inserted, db, history
<1>1. TypeOK'
  <2>1. ASSUME NEW r \in Record
        PROVE  tokenRows[r] + (IF r \in flight[Loop] \cap Counted THEN 1 ELSE 0) \in 0..MaxCopies + 1
    BY BatchWriterAssumption DEF TypeOK, Rows
  <2> QED
    BY <2>1 DEF TypeOK
<1>2. HeldOnce' /\ Placed'
  BY DEF TypeOK, HeldOnce, Phases, Sources, Placed
<1>3. Phases' /\ Sources'
  BY DEF TypeOK, Phases, Sources
<1>4. Rows'
  BY DEF TypeOK, HeldOnce, Rows
<1> QED
  BY <1>1, <1>2, <1>3, <1>4

LEMMA StepIInv == IInv /\ [Next]_vars => IInv'
<1> SUFFICES ASSUME IInv, [Next]_vars PROVE IInv'
  OBVIOUS
<1>1. CASE UNCHANGED vars
  BY <1>1 DEF IInv, vars, TypeOK, HeldOnce, Phases, Sources, Rows, Placed
<1>2. CASE Next
  BY <1>2, StartStep, WriteStep, TickStep, CommittedStep, RolledBackStep,
     CommitReplyLostStep, StopCalledStep, LoopCancelledStep, StopFlushStep
     DEF Next
<1> QED
  BY <1>1, <1>2

LEMMA InvariantHolds == Spec => []IInv
BY InitIInv, StepIInv, PTL DEF Spec

-----------------------------------------------------------------------------
(* Type correctness, and no record in two places: the swap and the put-back *)
(* of concurrent _flush calls neither copy nor drop a record.               *)
THEOREM BatchWriterTypeOK == Spec => [](TypeOK /\ HeldOnce)
BY InvariantHolds, PTL DEF IInv

(* Before stop() returns, the writer has forgotten only records of the      *)
(* batch its loop was writing when it was cancelled.                        *)
THEOREM BatchWriterOnlyCancelLoses == Spec => []OnlyCancelLoses
<1>1. IInv => OnlyCancelLoses
  BY InHeld DEF IInv, Placed, OnlyCancelLoses
<1> QED
  BY <1>1, InvariantHolds, PTL

(* The usage of a record that has one is counted once, plus once per lost   *)
(* COMMIT reply, and a record without usage has no usage row.               *)
THEOREM BatchWriterUsageCountedOnce == Spec => []UsageCountedOnce
<1>1. IInv => UsageCountedOnce
  BY DEF IInv, TypeOK, Rows, UsageCountedOnce
<1> QED
  BY <1>1, InvariantHolds, PTL

-----------------------------------------------------------------------------
(* Refinement: each action maps to an action of SpanLedger or to a stutter.  *)

\* The records the ledger calls pending.
Pending == IF stopping = "done" THEN {} ELSE Held \ stored

\* Two states with the same sets have the same ledger.
LEMMA LedgerMove ==
  ASSUME NEW S \in SUBSET Record, NEW to \in {"durable", "lost"},
         S \subseteq Pending, Held \subseteq accepted, accepted' = accepted,
         Pending' = Pending \ S,
         IF to = "durable" THEN stored' = stored \cup S ELSE stored' = stored
  PROVE  Ledger!Move(S, "pending", to)
<1>1. ASSUME NEW r \in Record
      PROVE  /\ r \in S => FateOf(r) = "pending"
             /\ FateOf(r)' = IF r \in S THEN to ELSE FateOf(r)
  BY DEF FateOf, Pending
<1> QED
  BY <1>1 DEF Ledger!Move

LEMMA LedgerSame ==
  ASSUME accepted' = accepted, stored' = stored, Pending' = Pending,
         Held \subseteq accepted
  PROVE  [r \in Record |-> FateOf(r)]' = [r \in Record |-> FateOf(r)]
<1>1. ASSUME NEW r \in Record
      PROVE  FateOf(r)' = FateOf(r)
  BY DEF FateOf, Pending
<1> QED
  BY <1>1

\* Held after a step, without the union of the flights.
LEMMA HeldAfter == \A r : r \in Held' <=> (r \in buffer' \/ \E t \in Task : r \in flight'[t])
BY DEF Held

LEMMA HeldAccepted == IInv => Held \subseteq accepted
BY InHeld DEF IInv, Sources

\* The steps that keep what is held and stored are stutters of the ledger.
LEMMA SameHeld ==
  ASSUME IInv, Held' = Held, UNCHANGED <<stored, accepted>>,
         stopping' = stopping \/ (Held = {} /\ stopping # "no" /\ stopping' # "no")
                              \/ (stopping = "joining" /\ stopping' = "flushing")
  PROVE  UNCHANGED Ledger!vars
<1>1. Pending' = Pending /\ (stopping # "no")' = (stopping # "no")
  BY DEF Pending
<1> QED
  BY <1>1, LedgerSame, HeldAccepted DEF Ledger!vars

LEMMA SwapKeepsHeld ==
  ASSUME NEW t \in Task, IInv, flight[t] = {}, Swap(t, buffer)
  PROVE  Held' = Held
<1>1. \A r : r \in Held' <=> r \in Held
  BY InHeld, HeldAfter DEF Swap, IInv, TypeOK
<1> QED
  BY <1>1

LEMMA PutBackKeepsHeld ==
  ASSUME NEW t \in Task, IInv, PutBack(t)
  PROVE  Held' = Held
<1>1. \A r : r \in Held' <=> r \in Held
  BY InHeld, HeldAfter DEF PutBack, IInv, TypeOK
<1> QED
  BY <1>1

\* The stopper holds a batch only when it holds everything.
LEMMA StopperHoldsAll ==
  ASSUME IInv, stopping = "flushing"
  PROVE  /\ flight[Stopper] # {} => Held = flight[Stopper]
         /\ flight[Stopper] = {} => Held = buffer
<1>1. \A r : r \in Held <=> r \in buffer \/ r \in flight[Stopper]
  BY InHeld, TaskMembers DEF IInv, TypeOK, Phases
<1> QED
  BY <1>1, InHeld, TaskMembers DEF IInv, TypeOK, Phases

\* write() is the ledger's Accept.
LEMMA WriteAccepts ==
  ASSUME NEW c \in Caller, NEW r \in Record, IInv, Write(c, r)
  PROVE  Ledger!Accept
<1>1. \A q : q \in Held' <=> q \in Held \/ q = r
  <2>1. CASE UNCHANGED flight /\ buffer' = buffer \cup {r}
    BY <2>1, InHeld, HeldAfter
  <2>2. CASE Swap(c, buffer \cup {r})
    BY <2>2, InHeld, HeldAfter, TaskMembers DEF Swap, Write, Idle, IInv, TypeOK
  <2> QED
    BY <2>1, <2>2 DEF Write
<1>2. /\ stopping = "no" /\ stopping' = "no" /\ stored' = stored
      /\ accepted' = accepted \cup {r} /\ r \notin accepted
      /\ r \notin stored /\ r \notin Held
  BY HeldAccepted DEF Write, IInv, Phases, Sources, db
<1>3. ASSUME NEW q \in Record
      PROVE  /\ q = r => FateOf(q) = "absent" /\ FateOf(q)' = "pending"
             /\ q # r => FateOf(q)' = FateOf(q)
  BY <1>1, <1>2 DEF FateOf
<1>4. Ledger!Move({r}, "absent", "pending")
  BY <1>3 DEF Ledger!Move
<1> QED
  BY <1>2, <1>4 DEF Ledger!Accept

\* A transaction that the database commits is the ledger's Settle.
LEMMA CommittedSettles ==
  ASSUME NEW t \in Task, IInv, Committed(t)
  PROVE  Ledger!Settle
<1> DEFINE S == flight[t] \ stored
<1>1. S \in SUBSET Record /\ S \subseteq Pending
  BY InHeld, TaskMembers DEF IInv, TypeOK, Phases, Committed, Writing, Pending
<1>2. \A r : r \in Held' <=> r \in Held /\ r \notin flight[t]
  BY InHeld, HeldAfter DEF Committed, IInv, TypeOK, HeldOnce
<1>3. Pending' = Pending \ S /\ (stopping # "no")' = (stopping # "no")
  <2>1. stopping # "done"
    BY TaskMembers, <1>1 DEF Pending, Committed, Writing, IInv, Phases, TypeOK
  <2>2. CASE t = Stopper
    BY <1>2, <2>1, <2>2, StopperHoldsAll
       DEF Pending, Committed, Writing, Inserted, AfterFlush, IInv, Phases
  <2>3. CASE t # Stopper
    BY <1>2, <2>1, <2>3 DEF Pending, Committed, Inserted, AfterFlush
  <2> QED
    BY <2>2, <2>3
<1>4. Ledger!Move(S, "pending", "durable")
  BY <1>1, <1>3, LedgerMove, HeldAccepted DEF Committed, Inserted, history
<1> QED
  BY <1>1, <1>3, <1>4 DEF Ledger!Settle

LEMMA CommitReplyLostSettles ==
  ASSUME NEW t \in Task, IInv, CommitReplyLost(t)
  PROVE  Ledger!Settle
<1> DEFINE S == flight[t] \ stored
<1>1. S \in SUBSET Record /\ S \subseteq Pending
  BY InHeld, TaskMembers DEF IInv, TypeOK, Phases, CommitReplyLost, Writing, Pending
<1>2. Held' = Held
  BY PutBackKeepsHeld DEF CommitReplyLost
<1>3. Pending' = Pending \ S /\ (stopping # "no")' = (stopping # "no")
  <2>1. stopping # "done"
    BY TaskMembers DEF CommitReplyLost, Writing, IInv, Phases, TypeOK
  <2>2. CASE t = Stopper
    BY <1>2, <2>1, <2>2, StopperHoldsAll
       DEF Pending, CommitReplyLost, Writing, Inserted, AfterFlush, IInv, Phases
  <2>3. CASE t # Stopper
    BY <1>2, <2>1, <2>3 DEF Pending, CommitReplyLost, Inserted, AfterFlush
  <2> QED
    BY <2>2, <2>3
<1>4. Ledger!Move(S, "pending", "durable")
  BY <1>1, <1>3, LedgerMove, HeldAccepted DEF CommitReplyLost, Inserted
<1> QED
  BY <1>1, <1>3, <1>4 DEF Ledger!Settle

\* A rolled-back batch is kept, except by stop(), which returns without it.
LEMMA RolledBackKeeps ==
  ASSUME NEW t \in Task, IInv, RolledBack(t)
  PROVE  Ledger!GiveUp \/ UNCHANGED Ledger!vars
<1>1. Held' = Held
  BY PutBackKeepsHeld DEF RolledBack
<1>2. CASE t # Stopper
  BY <1>1, <1>2, SameHeld DEF RolledBack, AfterFlush, db, history
<1>3. CASE t = Stopper
  <2>1. stopping = "flushing" /\ stopping' = "done"
    BY <1>3 DEF RolledBack, Writing, AfterFlush, IInv, Phases
  <2>2. Pending \in SUBSET Record
    BY HeldAccepted DEF IInv, TypeOK, Pending
  <2>3. Ledger!Move(Pending, "pending", "lost")
    BY <2>1, <2>2, LedgerMove, HeldAccepted DEF RolledBack, Pending, db, history
  <2> QED
    BY <2>1, <2>2, <2>3 DEF Ledger!GiveUp
<1> QED
  BY <1>2, <1>3

LEMMA StopCalledCloses == IInv /\ StopCalled => Ledger!GiveUp
<1> SUFFICES ASSUME IInv, StopCalled PROVE Ledger!GiveUp
  OBVIOUS
<1>1. Held' = Held
  BY DEF StopCalled, Held
<1>2. Pending' = Pending \ {}
  BY <1>1 DEF StopCalled, Pending, IInv, Phases, db
<1>3. Ledger!Move({}, "pending", "lost")
  BY <1>2, LedgerMove, HeldAccepted DEF StopCalled, db
<1> QED
  BY <1>3 DEF StopCalled, Ledger!GiveUp

\* The cancelled loop loses its batch, or settles it, or puts it back.
LEMMA LoopCancelledStops ==
  IInv /\ LoopCancelled =>
    Ledger!GiveUp \/ Ledger!Settle \/ UNCHANGED Ledger!vars
<1> SUFFICES ASSUME IInv, LoopCancelled
             PROVE  Ledger!GiveUp \/ Ledger!Settle \/ UNCHANGED Ledger!vars
  OBVIOUS
<1> DEFINE S == flight[Loop] \ stored
<1>1. /\ stopping = "joining" /\ stopping' = "flushing" /\ accepted' = accepted
      /\ S \in SUBSET Record /\ S \subseteq Pending
  BY InHeld, TaskMembers
     DEF IInv, TypeOK, Phases, LoopCancelled, Pending, history
<1>2. flight' = [flight EXCEPT ![Loop] = {}]
  BY DEF LoopCancelled
<1>3. CASE buffer' = flight[Loop] \cup buffer /\ UNCHANGED db
  <2>1. \A r : r \in Held' <=> r \in Held
    BY <1>2, <1>3, InHeld, HeldAfter, TaskMembers DEF IInv, TypeOK
  <2> QED
    BY <1>1, <1>3, <2>1, SameHeld DEF db
<1>4. CASE UNCHANGED buffer
  <2>1. \A r : r \in Held' <=> r \in Held /\ r \notin flight[Loop]
    BY <1>2, <1>4, InHeld, HeldAfter, TaskMembers DEF IInv, TypeOK, HeldOnce
  <2>2. CASE UNCHANGED db
    <3>1. Pending' = Pending \ S
      BY <1>1, <2>1, <2>2 DEF Pending, db
    <3>2. Ledger!Move(S, "pending", "lost")
      BY <1>1, <2>2, <3>1, LedgerMove, HeldAccepted DEF db
    <3> QED
      BY <1>1, <3>2 DEF Ledger!GiveUp
  <2>3. CASE Inserted(flight[Loop])
    <3>1. Pending' = Pending \ S /\ stored' = stored \cup S
      BY <1>1, <2>1, <2>3 DEF Pending, Inserted
    <3>2. Ledger!Move(S, "pending", "durable")
      BY <1>1, <3>1, LedgerMove, HeldAccepted
    <3> QED
      BY <1>1, <3>2 DEF Ledger!Settle
  <2> QED
    BY <1>3, <2>2, <2>3 DEF LoopCancelled
<1> QED
  BY <1>3, <1>4 DEF LoopCancelled

LEMMA StopFlushStutters == IInv /\ StopFlush => UNCHANGED Ledger!vars
<1> SUFFICES ASSUME IInv, StopFlush PROVE UNCHANGED Ledger!vars
  OBVIOUS
<1>1. CASE Swap(Stopper, buffer) /\ UNCHANGED stopping
  BY <1>1, SwapKeepsHeld, SameHeld, TaskMembers DEF StopFlush, Idle, db, history
<1>2. CASE buffer = {} /\ stopping' = "done" /\ UNCHANGED <<buffer, flight>>
  <2>1. Held = {} /\ Held' = {}
    BY <1>2, StopperHoldsAll DEF StopFlush, Idle, Held
  <2> QED
    BY <1>2, <2>1, SameHeld DEF StopFlush, db, history
<1> QED
  BY <1>1, <1>2 DEF StopFlush

LEMMA StartAndTickStutter ==
  /\ IInv /\ Start => UNCHANGED Ledger!vars
  /\ IInv /\ Tick => UNCHANGED Ledger!vars
<1>1. ASSUME IInv, Start PROVE UNCHANGED Ledger!vars
  <2>1. Held' = Held
    BY <1>1 DEF Start, Held
  <2> QED
    BY <1>1, <2>1, SameHeld DEF Start, db, history
<1>2. ASSUME IInv, Tick PROVE UNCHANGED Ledger!vars
  <2>1. Held' = Held
    BY <1>2, SwapKeepsHeld, TaskMembers DEF Tick, Idle
  <2> QED
    BY <1>2, <2>1, SameHeld DEF Tick, db, history
<1> QED
  BY <1>1, <1>2

LEMMA LedgerInit == Init => Ledger!Init
<1> SUFFICES ASSUME Init PROVE Ledger!Init
  OBVIOUS
<1>1. ASSUME NEW r \in Record
      PROVE  FateOf(r) = "absent"
  BY InHeld DEF Init, FateOf
<1> QED
  BY <1>1 DEF Init, Ledger!Init

LEMMA LedgerNext == IInv /\ [Next]_vars => [Ledger!Next]_Ledger!vars
<1> SUFFICES ASSUME IInv, [Next]_vars
             PROVE  Ledger!Next \/ UNCHANGED Ledger!vars
  OBVIOUS
<1>1. CASE UNCHANGED vars
  <2>1. Held' = Held
    BY <1>1 DEF vars, Held
  <2> QED
    BY <1>1, <2>1, SameHeld DEF vars
<1>2. CASE Next
  BY <1>2, StartAndTickStutter, WriteAccepts, CommittedSettles, RolledBackKeeps,
     CommitReplyLostSettles, StopCalledCloses, LoopCancelledStops, StopFlushStutters
     DEF Next, Ledger!Next
<1> QED
  BY <1>1, <1>2

(* The writer implements the ledger: a record that write() took stays with   *)
(* the process or the database until stop() begins, a stored record stays    *)
(* stored, and nothing is taken after stop().                                *)
THEOREM BatchWriterImplementsLedger == Spec => LedgerSpec
BY LedgerInit, LedgerNext, InvariantHolds, PTL DEF Spec, LedgerSpec, Ledger!Spec

=============================================================================
