--------------------------- MODULE WatchdogProofs ---------------------------
(***************************************************************************)
(* Proofs about Watchdog, for any watchdogs, traces, failures and errors.  *)
(*                                                                         *)
(* ClassifiedOnce counts committed rows; the invariant counts with them    *)
(* the watchdogs whose open transaction holds the failure, or is about to  *)
(* record it, since each of those may still add one.                       *)
(***************************************************************************)
EXTENDS Watchdog, FiniteSetTheorems, TLAPS

\* The watchdogs that may still commit a row for x.
Holders(x) == {a \in Agent : x \in scan[a].found \cup scan[a].rows}

\* No more rows are committed or to be committed than there are watchdogs.
RowsBounded == \A x \in Finding : failures[x] + Cardinality(Holders(x)) <= Cardinality(Agent)

\* A scan that is not under way holds nothing; failures wait only between traces.
ScanShape ==
  \A a \in Agent :
    /\ scan[a].at = "asleep" => scan[a] = Asleep
    /\ scan[a].current \subseteq scan[a].rows

\* A scan examines a trace once and records each failure of it once: that is why
\* sets describe its rows.
RecordedOnce ==
  \A a \in Agent :
    /\ scan[a].todo \cap scan[a].seen = {}
    /\ scan[a].found \cap scan[a].rows = {}
    /\ \A x \in scan[a].found \cup scan[a].rows : x[1] \in scan[a].seen

\* What an agent has selected is stored; while it scans, all of it is in the scan
\* or was in one that came to its commit, or was outdated at a restart.
SelectedInScan ==
  \A a \in Agent : \A t \in selected[a] :
    /\ stage[t] = "stored"
    /\ scan[a].at # "asleep" => t \in scan[a].todo \cup scan[a].seen \cup examined \cup dropped \cup outdated

Bookkeeping == ScanShape /\ RecordedOnce /\ SelectedInScan

IInv ==
  /\ TypeOK /\ Bookkeeping /\ RowsBounded
  /\ EachFailureRemedied /\ RolledBackIsReselected /\ AlertedIsPersisted

-----------------------------------------------------------------------------
(* Counting holders. *)

LEMMA AgentCount == Cardinality(Agent) \in Nat
BY FS_CardinalityType, WatchdogAssumption

LEMMA FewerAgents ==
  ASSUME NEW T \in SUBSET Agent, NEW S \in SUBSET T
  PROVE  /\ Cardinality(S) \in Nat /\ Cardinality(T) \in Nat
         /\ Cardinality(S) <= Cardinality(T)
         /\ Cardinality(T) <= Cardinality(Agent)
<1>1. IsFiniteSet(T) /\ Cardinality(T) <= Cardinality(Agent)
  BY FS_Subset, WatchdogAssumption
<1>2. IsFiniteSet(S) /\ Cardinality(S) <= Cardinality(T)
  BY <1>1, FS_Subset
<1>3. QED BY <1>1, <1>2, FS_CardinalityType

\* The failure of a holder that gives up is one row less to come.
LEMMA OneHolderLess ==
  ASSUME NEW T \in SUBSET Agent, NEW a \in T, NEW S \in SUBSET (T \ {a})
  PROVE  Cardinality(S) + 1 <= Cardinality(T)
<1>1. IsFiniteSet(T) /\ Cardinality(T) \in Nat
  BY FS_Subset, FS_CardinalityType, WatchdogAssumption
<1>2. IsFiniteSet(T \ {a}) /\ Cardinality(T \ {a}) = Cardinality(T) - 1
  BY <1>1, FS_RemoveElement
<1>3. Cardinality(S) <= Cardinality(T \ {a}) /\ Cardinality(S) \in Nat
  BY <1>2, FS_Subset, FS_CardinalityType
<1>4. QED BY <1>1, <1>2, <1>3

LEMMA HoldersAreAgents == \A x : Holders(x) \in SUBSET Agent
BY DEF Holders

\* A step that commits nothing and adds no holder keeps the bound.
LEMMA NoMoreHolders ==
  ASSUME IInv, UNCHANGED failures, \A x \in Finding : Holders(x)' \subseteq Holders(x)
  PROVE  RowsBounded'
<1> SUFFICES ASSUME NEW x \in Finding
             PROVE  failures[x] + Cardinality(Holders(x)') <= Cardinality(Agent)
  BY DEF RowsBounded
<1>1. Cardinality(Holders(x)') <= Cardinality(Holders(x))
      /\ Cardinality(Holders(x)') \in Nat /\ Cardinality(Holders(x)) \in Nat
  BY FewerAgents, HoldersAreAgents
<1>2. failures[x] \in Nat /\ failures[x] + Cardinality(Holders(x)) <= Cardinality(Agent)
  BY DEF IInv, TypeOK, RowsBounded
<1>3. QED BY <1>1, <1>2, AgentCount

-----------------------------------------------------------------------------
LEMMA InitInv == Init => IInv
<1> SUFFICES ASSUME Init PROVE IInv
  OBVIOUS
<1>1. TypeOK
  BY WatchdogAssumption DEF Init, TypeOK, Scan, Asleep, Finding
<1>2. Bookkeeping
  BY DEF Init, Bookkeeping, ScanShape, RecordedOnce, SelectedInScan, Asleep
<1>3. RowsBounded
  <2> SUFFICES ASSUME NEW x \in Finding
               PROVE  failures[x] + Cardinality(Holders(x)) <= Cardinality(Agent)
    BY DEF RowsBounded
  <2>1. Holders(x) = {}
    BY DEF Init, Holders, Asleep
  <2>2. QED BY <2>1, FS_EmptySet, AgentCount DEF Init
<1>4. EachFailureRemedied /\ RolledBackIsReselected /\ AlertedIsPersisted
  BY DEF Init, EachFailureRemedied, RolledBackIsReselected, AlertedIsPersisted
<1>5. QED BY <1>1, <1>2, <1>3, <1>4 DEF IInv

\* The collectors and the clock touch neither rows nor scans; created_at of a stored
\* trace is fixed.
LEMMA TickInv == IInv /\ Tick => IInv'
<1> SUFFICES ASSUME IInv, Tick PROVE IInv'
  OBVIOUS
<1>1. TypeOK'
  BY WatchdogAssumption DEF IInv, TypeOK, Tick, traces
<1>2. RowsBounded'
  BY NoMoreHolders DEF Tick, Holders
<1>3. Bookkeeping'
  BY DEF IInv, Tick, traces, Bookkeeping, ScanShape, RecordedOnce, SelectedInScan
<1>4. (EachFailureRemedied /\ RolledBackIsReselected /\ AlertedIsPersisted)'
  BY DEF IInv, Tick, traces, EachFailureRemedied, RolledBackIsReselected, AlertedIsPersisted
<1>5. QED BY <1>1, <1>2, <1>3, <1>4 DEF IInv

LEMMA TracesInv ==
  ASSUME IInv, NEW t \in Trace, NEW fs \in SUBSET Failure,
         CommitTrace(t) \/ BeginTrace(t, fs) \/ LateSpans(t, fs)
  PROVE  IInv'
<1>1. UNCHANGED <<now, lastCheck, scan, failures, settled, alerted, examined,
                  errors, selected, dropped, undone, outdated>>
  BY DEF CommitTrace, BeginTrace, LateSpans
<1>2. /\ stage' \in [Trace -> {"none", "open", "stored"}]
      /\ created' \in [Trace -> 0..now]
      /\ shows' \in [Trace -> SUBSET Failure]
  BY DEF IInv, TypeOK, CommitTrace, BeginTrace, LateSpans
<1>3. \A u \in Trace : stage[u] = "stored" => stage'[u] = "stored" /\ created'[u] = created[u]
  BY DEF IInv, TypeOK, CommitTrace, BeginTrace, LateSpans
<1>4. TypeOK'
  BY <1>1, <1>2 DEF IInv, TypeOK
<1>5. RowsBounded'
  BY <1>1, NoMoreHolders DEF Holders
<1>6. Bookkeeping'
  BY <1>1, <1>3 DEF IInv, TypeOK, Bookkeeping, ScanShape, RecordedOnce, SelectedInScan
<1>7. RolledBackIsReselected'
  BY <1>1, <1>3 DEF IInv, TypeOK, Bookkeeping, SelectedInScan, RolledBackIsReselected
<1>8. (EachFailureRemedied /\ AlertedIsPersisted)'
  BY <1>1 DEF IInv, EachFailureRemedied, AlertedIsPersisted
<1>9. QED BY <1>4, <1>5, <1>6, <1>7, <1>8 DEF IInv

-----------------------------------------------------------------------------
(* The steps of a scan. *)

\* What an agent selected before and has not settled is new to it again.
LEMMA SelectInv == ASSUME IInv, NEW a \in Agent, Select(a) PROVE IInv'
<1> DEFINE new == {t \in Trace : stage[t] = "stored" /\ created[t] >= lastCheck[a]}
<1>1. /\ scan[a].at = "asleep" /\ scan[a] = Asleep
      /\ scan' = [scan EXCEPT ![a] = [Asleep EXCEPT !.at = "next", !.todo = new]]
      /\ selected' = [selected EXCEPT ![a] = @ \cup new]
      /\ UNCHANGED <<now, stage, created, shows, lastCheck, failures, settled, alerted,
                     examined, errors, dropped, undone, outdated>>
  BY DEF Select, traces, IInv, Bookkeeping, ScanShape
<1>2. new \subseteq Trace /\ \A t \in new : stage[t] = "stored" /\ created[t] >= lastCheck[a]
  OBVIOUS
<1>3. \A t \in selected[a] : t \in examined \/ t \in dropped \/ t \in outdated \/ t \in new
  BY DEF IInv, TypeOK, Bookkeeping, SelectedInScan, RolledBackIsReselected
<1> HIDE DEF new
<1>4. /\ scan'[a] = [at |-> "next", todo |-> new, seen |-> {}, found |-> {}, current |-> {},
                     rows |-> {}, acts |-> {}]
      /\ scan'[a] \in Scan
      /\ \A b \in Agent \ {a} : scan'[b] = scan[b]
  BY <1>1, <1>2 DEF IInv, TypeOK, Asleep, Scan
<1>5. TypeOK'
  BY <1>1, <1>2, <1>4 DEF IInv, TypeOK
<1>6. RowsBounded'
  BY <1>1, <1>4, NoMoreHolders DEF Holders
<1>7. ScanShape' /\ RecordedOnce'
  BY <1>4 DEF IInv, Bookkeeping, ScanShape, RecordedOnce
<1>8. SelectedInScan'
  BY <1>1, <1>2, <1>3, <1>4 DEF IInv, TypeOK, Bookkeeping, SelectedInScan
<1>9. RolledBackIsReselected'
  BY <1>1, <1>2 DEF IInv, TypeOK, RolledBackIsReselected
<1>10. EachFailureRemedied'
  BY <1>1 DEF IInv, EachFailureRemedied
<1>11. AlertedIsPersisted'
  BY <1>1, <1>4 DEF IInv, TypeOK, AlertedIsPersisted, Asleep
<1>12. QED BY <1>5, <1>6, <1>7, <1>8, <1>9, <1>10, <1>11 DEF IInv, Bookkeeping

\* Before a trace without a row is analysed nobody has committed a row for it, so
\* that there is room for the row of every watchdog.
LEMMA ExamineInv ==
  ASSUME IInv, NEW a \in Agent, NEW t \in Trace, Examine(a, t) PROVE IInv'
<1> DEFINE shown == IF Classified(a, t) THEN {} ELSE {t} \X shows[t]
<1>1. /\ scan[a].at = "next" /\ scan[a].found = {} /\ t \in scan[a].todo
      /\ scan' = [scan EXCEPT ![a].todo = @ \ {t}, ![a].seen = @ \cup {t}, ![a].found = shown]
      /\ UNCHANGED <<now, stage, created, shows, lastCheck, failures, settled, alerted,
                     examined, errors, selected, dropped, undone, outdated>>
  BY DEF Examine, traces
<1>2. /\ shown \subseteq Finding
      /\ \A x \in shown : x[1] = t /\ failures[x] = 0 /\ x \notin scan[a].rows
  <2>1. shows[t] \subseteq Failure
    BY DEF IInv, TypeOK
  <2>2. \A f \in Failure : failures[<<t, f>>] \in Nat
    BY DEF IInv, TypeOK, Finding
  <2>3. QED BY <2>1, <2>2 DEF Classified, Finding
<1> HIDE DEF shown
<1>3. scan[a] \in Scan /\ \A b \in Agent \ {a} : scan'[b] = scan[b]
  BY <1>1 DEF IInv, TypeOK
<1>4. /\ scan'[a] = [at |-> "next", todo |-> scan[a].todo \ {t}, seen |-> scan[a].seen \cup {t},
                     found |-> shown, current |-> scan[a].current,
                     rows |-> scan[a].rows, acts |-> scan[a].acts]
      /\ scan'[a] \in Scan
  <2>1. scan \in [Agent -> Scan]
    BY DEF IInv, TypeOK
  <2>2. scan'[a] = [at |-> "next", todo |-> scan[a].todo \ {t}, seen |-> scan[a].seen \cup {t},
                    found |-> shown, current |-> scan[a].current,
                    rows |-> scan[a].rows, acts |-> scan[a].acts]
    BY <1>1, <2>1, ZenonT(30) DEF Scan
  <2>3. QED BY <1>2, <1>3, <2>2 DEF Scan
<1>5. TypeOK'
  BY <1>1, <1>3, <1>4 DEF IInv, TypeOK
<1>6. /\ scan'[a].at = "next" /\ scan'[a].rows = scan[a].rows /\ scan'[a].current = scan[a].current
      /\ scan'[a].found = shown /\ scan'[a].todo = scan[a].todo \ {t}
      /\ scan'[a].seen = scan[a].seen \cup {t}
  BY <1>4
<1>7. RowsBounded'
  <2> SUFFICES ASSUME NEW x \in Finding
               PROVE  failures[x] + Cardinality(Holders(x)') <= Cardinality(Agent)
    BY <1>1 DEF RowsBounded
  <2>1. Holders(x)' \in SUBSET Agent /\ failures[x] \in Nat
    BY DEF Holders, IInv, TypeOK
  <2>2. CASE x \in shown
    BY <1>2, <2>1, <2>2, FewerAgents, AgentCount
  <2>3. CASE x \notin shown
    <3>1. Holders(x)' \subseteq Holders(x)
      BY <1>3, <1>6, <2>3 DEF Holders
    <3>2. QED BY <2>1, <3>1, FewerAgents, HoldersAreAgents, AgentCount DEF IInv, RowsBounded
  <2>4. QED BY <2>2, <2>3
<1>8. ScanShape'
  BY <1>1, <1>3, <1>6 DEF IInv, Bookkeeping, ScanShape
<1>9. RecordedOnce'
  BY <1>1, <1>2, <1>3, <1>6, ZenonT(30) DEF IInv, Bookkeeping, RecordedOnce
<1>10. SelectedInScan'
  BY <1>1, <1>3, <1>6 DEF IInv, Bookkeeping, SelectedInScan
<1>11. EachFailureRemedied' /\ RolledBackIsReselected'
  BY <1>1 DEF IInv, EachFailureRemedied, RolledBackIsReselected
<1>12. AlertedIsPersisted'
  BY <1>1, <1>3, <1>6 DEF IInv, AlertedIsPersisted
<1>13. QED BY <1>5, <1>7, <1>8, <1>9, <1>10, <1>11, <1>12 DEF IInv, Bookkeeping

\* A step within a scan: its traces and the failures that it holds stay the same.
LEMMA ScanGoesOn ==
  ASSUME IInv, NEW a \in Agent,
         UNCHANGED <<stage, created, lastCheck, failures, settled, examined, selected, dropped, outdated>>,
         \A b \in Agent \ {a} : scan'[b] = scan[b],
         scan[a].at # "asleep",
         scan'[a].todo = scan[a].todo, scan'[a].seen = scan[a].seen,
         scan'[a].found \cup scan'[a].rows = scan[a].found \cup scan[a].rows
  PROVE  (RowsBounded /\ SelectedInScan /\ EachFailureRemedied /\ RolledBackIsReselected)'
<1>1. RowsBounded'
  BY NoMoreHolders DEF Holders
<1>2. SelectedInScan'
  BY DEF IInv, Bookkeeping, SelectedInScan
<1>3. EachFailureRemedied' /\ RolledBackIsReselected'
  BY DEF IInv, EachFailureRemedied, RolledBackIsReselected
<1>4. QED BY <1>1, <1>2, <1>3

LEMMA RecordInv ==
  ASSUME IInv, NEW a \in Agent, NEW x \in Finding, Record(a, x) PROVE IInv'
<1>1. /\ scan[a].at = "next" /\ x \in scan[a].found
      /\ scan' = [scan EXCEPT ![a].found = @ \ {x}, ![a].current = {x},
                              ![a].rows = @ \cup {x}, ![a].at = "dispatch"]
      /\ UNCHANGED <<now, stage, created, shows, lastCheck, failures, settled, alerted,
                     examined, errors, selected, dropped, undone, outdated>>
  BY DEF Record, traces
<1>2. scan \in [Agent -> Scan] /\ scan[a] \in Scan /\ \A b \in Agent \ {a} : scan'[b] = scan[b]
  BY <1>1 DEF IInv, TypeOK
<1>3. scan'[a] = [at |-> "dispatch", todo |-> scan[a].todo, seen |-> scan[a].seen,
                  found |-> scan[a].found \ {x}, current |-> {x},
                  rows |-> scan[a].rows \cup {x}, acts |-> scan[a].acts]
  BY <1>1, <1>2 DEF Scan
<1>4. scan'[a] \in Scan
  BY <1>2, <1>3 DEF Scan
<1>5. /\ scan'[a].at = "dispatch" /\ scan'[a].todo = scan[a].todo /\ scan'[a].seen = scan[a].seen
      /\ scan'[a].found = scan[a].found \ {x} /\ scan'[a].current = {x}
      /\ scan'[a].rows = scan[a].rows \cup {x} /\ scan'[a].acts = scan[a].acts
  BY <1>3
<1>6. scan[a].rows = scan[a].acts
  BY <1>1 DEF IInv, TypeOK
<1>7. TypeOK'
  <2>1. scan' \in [Agent -> Scan]
    BY <1>1, <1>2, <1>4 DEF IInv, TypeOK
  <2>2. ASSUME NEW b \in Agent
        PROVE  /\ scan'[b].current # {} <=> scan'[b].at \in {"dispatch", "remediate"}
               /\ scan'[b].rows = scan'[b].acts \cup scan'[b].current
    <3>1. CASE b = a
      BY <1>5, <1>6, <3>1
    <3>2. CASE b # a
      BY <1>2, <3>2 DEF IInv, TypeOK
    <3>3. QED BY <3>1, <3>2
  <2>3. QED BY <1>1, <2>1, <2>2 DEF IInv, TypeOK
<1>8. (RowsBounded /\ SelectedInScan /\ EachFailureRemedied /\ RolledBackIsReselected)'
  <2>1. scan'[a].found \cup scan'[a].rows = scan[a].found \cup scan[a].rows
    BY <1>1, <1>5
  <2>2. QED BY <1>1, <1>2, <1>5, <2>1, ScanGoesOn
<1>9. (ScanShape /\ RecordedOnce)'
  <2>1. ScanShape'
    BY <1>1, <1>2, <1>5 DEF IInv, Bookkeeping, ScanShape
  <2>2. /\ scan[a].todo \cap scan[a].seen = {} /\ scan[a].found \cap scan[a].rows = {}
        /\ \A y \in scan[a].found \cup scan[a].rows : y[1] \in scan[a].seen
    BY DEF IInv, Bookkeeping, RecordedOnce
  <2>3. scan'[a].found \cap scan'[a].rows = {}
    BY <1>5, <2>2
  <2>4. \A y \in scan'[a].found \cup scan'[a].rows : y[1] \in scan'[a].seen
    BY <1>1, <1>5, <2>2
  <2>5. RecordedOnce'
    BY <1>2, <1>5, <2>2, <2>3, <2>4 DEF IInv, Bookkeeping, RecordedOnce
  <2>6. QED BY <2>1, <2>5
<1>10. AlertedIsPersisted'
  BY <1>1, <1>2, <1>5 DEF IInv, AlertedIsPersisted
<1>11. QED BY <1>7, <1>8, <1>9, <1>10 DEF IInv, Bookkeeping

\* An alert is for a failure whose row the transaction holds.
LEMMA DispatchInv == ASSUME IInv, NEW a \in Agent, Dispatch(a) PROVE IInv'
<1>1. /\ scan[a].at = "dispatch"
      /\ scan' = [scan EXCEPT ![a].at = "remediate"]
      /\ alerted \subseteq alerted' /\ alerted' \subseteq alerted \cup scan[a].current
      /\ UNCHANGED <<now, stage, created, shows, lastCheck, failures, settled,
                     examined, errors, selected, dropped, undone, outdated>>
  BY DEF Dispatch, traces
<1>2. scan \in [Agent -> Scan] /\ scan[a] \in Scan /\ \A b \in Agent \ {a} : scan'[b] = scan[b]
  BY <1>1 DEF IInv, TypeOK
<1>3. /\ scan'[a].at = "remediate" /\ scan'[a].todo = scan[a].todo /\ scan'[a].seen = scan[a].seen
      /\ scan'[a].found = scan[a].found /\ scan'[a].current = scan[a].current
      /\ scan'[a].rows = scan[a].rows /\ scan'[a].acts = scan[a].acts
      /\ scan'[a] \in Scan
  BY <1>1, <1>2 DEF Scan
<1>4. TypeOK'
  <2>1. alerted' \subseteq Finding
    BY <1>1, <1>2 DEF IInv, TypeOK, Scan
  <2>2. scan' \in [Agent -> Scan]
    BY <1>1, <1>2, <1>3
  <2>3. \A b \in Agent : /\ scan'[b].current # {} <=> scan'[b].at \in {"dispatch", "remediate"}
                         /\ scan'[b].rows = scan'[b].acts \cup scan'[b].current
    BY <1>1, <1>2, <1>3 DEF IInv, TypeOK
  <2>4. QED BY <1>1, <2>1, <2>2, <2>3 DEF IInv, TypeOK
<1>5. (RowsBounded /\ SelectedInScan /\ EachFailureRemedied /\ RolledBackIsReselected)'
  BY <1>1, <1>2, <1>3, ScanGoesOn
<1>6. (ScanShape /\ RecordedOnce)'
  BY <1>1, <1>2, <1>3 DEF IInv, Bookkeeping, ScanShape, RecordedOnce
<1>7. AlertedIsPersisted'
  BY <1>1, <1>2, <1>3 DEF IInv, Bookkeeping, ScanShape, AlertedIsPersisted
<1>8. QED BY <1>4, <1>5, <1>6, <1>7 DEF IInv, Bookkeeping

LEMMA RemediateInv == ASSUME IInv, NEW a \in Agent, Remediate(a) PROVE IInv'
<1>1. /\ scan[a].at = "remediate"
      /\ scan' = [scan EXCEPT ![a].at = "next", ![a].current = {},
                              ![a].acts = @ \cup scan[a].current]
      /\ UNCHANGED <<now, stage, created, shows, lastCheck, failures, settled, alerted,
                     examined, errors, selected, dropped, undone, outdated>>
  BY DEF Remediate, traces
<1>2. scan \in [Agent -> Scan] /\ scan[a] \in Scan /\ \A b \in Agent \ {a} : scan'[b] = scan[b]
  BY <1>1 DEF IInv, TypeOK
<1>3. scan'[a] = [at |-> "next", todo |-> scan[a].todo, seen |-> scan[a].seen,
                  found |-> scan[a].found, current |-> {}, rows |-> scan[a].rows,
                  acts |-> scan[a].acts \cup scan[a].current]
  BY <1>1, <1>2 DEF Scan
<1>4. scan'[a] \in Scan
  BY <1>2, <1>3 DEF Scan
<1>5. /\ scan'[a].at = "next" /\ scan'[a].todo = scan[a].todo /\ scan'[a].seen = scan[a].seen
      /\ scan'[a].found = scan[a].found /\ scan'[a].current = {} /\ scan'[a].rows = scan[a].rows
      /\ scan'[a].acts = scan[a].acts \cup scan[a].current
  BY <1>3
<1>6. TypeOK'
  BY <1>1, <1>2, <1>4, <1>5 DEF IInv, TypeOK
<1>7. (RowsBounded /\ SelectedInScan /\ EachFailureRemedied /\ RolledBackIsReselected)'
  BY <1>1, <1>2, <1>5, ScanGoesOn
<1>8. (ScanShape /\ RecordedOnce)'
  BY <1>1, <1>2, <1>5 DEF IInv, Bookkeeping, ScanShape, RecordedOnce
<1>9. AlertedIsPersisted'
  BY <1>1, <1>2, <1>5 DEF IInv, AlertedIsPersisted
<1>10. QED BY <1>6, <1>7, <1>8, <1>9 DEF IInv, Bookkeeping

-----------------------------------------------------------------------------
(* The ends of a scan. *)

\* A sleeping agent holds nothing and has nothing left to select.
LEMMA Sleeps ==
  ASSUME IInv, NEW a \in Agent, scan' = [scan EXCEPT ![a] = Asleep]
  PROVE  /\ scan' \in [Agent -> Scan]
         /\ \A b \in Agent \ {a} : scan'[b] = scan[b]
         /\ scan'[a] = Asleep /\ scan'[a].at = "asleep" /\ scan'[a].found = {}
         /\ scan'[a].current = {} /\ scan'[a].rows = {} /\ scan'[a].acts = {}
         /\ ScanShape' /\ RecordedOnce'
<1>1. /\ \A b \in Agent \ {a} : scan'[b] = scan[b]
      /\ scan'[a] = Asleep
  BY DEF IInv, TypeOK
<1>2. Asleep \in Scan
  BY DEF Asleep, Scan
<1>3. scan' \in [Agent -> Scan]
  BY <1>2 DEF IInv, TypeOK
<1>4. /\ scan'[a].at = "asleep" /\ scan'[a].found = {} /\ scan'[a].current = {}
      /\ scan'[a].rows = {} /\ scan'[a].acts = {} /\ scan'[a].todo = {}
  BY <1>1 DEF Asleep
<1>5. ScanShape' /\ RecordedOnce'
  BY <1>1, <1>4 DEF IInv, Bookkeeping, ScanShape, RecordedOnce
<1>6. QED BY <1>1, <1>3, <1>4, <1>5

\* The end of a scan without its rows, wherever it leaves _last_check.
LEMMA ScanUndone ==
  ASSUME IInv, NEW a \in Agent, NEW n \in 0..now,
         scan' = [scan EXCEPT ![a] = Asleep],
         lastCheck' = [lastCheck EXCEPT ![a] = n],
         undone' = undone \cup scan[a].rows,
         errors < MaxErrors, errors' = errors + 1,
         dropped \subseteq dropped', dropped' \subseteq Trace,
         outdated \subseteq outdated', outdated' \subseteq Trace,
         \A t \in selected[a] :
           t \in examined \/ t \in dropped' \/ t \in outdated' \/ created[t] >= n,
         UNCHANGED <<now, traces, failures, settled, alerted, examined, selected>>
  PROVE  IInv'
<1>1. /\ scan' \in [Agent -> Scan]
      /\ \A b \in Agent \ {a} : scan'[b] = scan[b]
      /\ scan'[a].at = "asleep" /\ scan'[a].found = {} /\ scan'[a].current = {}
      /\ scan'[a].rows = {} /\ scan'[a].acts = {}
      /\ ScanShape' /\ RecordedOnce'
  BY Sleeps
<1>2. TypeOK'
  <2>1. errors' \in 0..MaxErrors /\ lastCheck' \in [Agent -> 0..now]
    BY WatchdogAssumption DEF IInv, TypeOK
  <2>2. undone' \subseteq Finding
    BY DEF IInv, TypeOK, Scan
  <2>3. \A b \in Agent : /\ scan'[b].current # {} <=> scan'[b].at \in {"dispatch", "remediate"}
                         /\ scan'[b].rows = scan'[b].acts \cup scan'[b].current
    BY <1>1 DEF IInv, TypeOK
  <2>4. QED BY <1>1, <2>1, <2>2, <2>3 DEF IInv, TypeOK, traces
<1>3. RowsBounded'
  BY <1>1, NoMoreHolders DEF Holders
<1>4. SelectedInScan'
  BY <1>1 DEF IInv, Bookkeeping, SelectedInScan, traces
<1>5. EachFailureRemedied'
  BY DEF IInv, EachFailureRemedied
<1>6. RolledBackIsReselected'
  BY DEF IInv, TypeOK, RolledBackIsReselected, traces
<1>7. AlertedIsPersisted'
  BY <1>1 DEF IInv, AlertedIsPersisted
<1>8. QED BY <1>1, <1>2, <1>3, <1>4, <1>5, <1>6, <1>7 DEF IInv, Bookkeeping

\* What the commit leaves behind is examined, and _last_check is now: the traces
\* selected so far are all settled.
LEMMA CommitInv == ASSUME IInv, NEW a \in Agent, Commit(a) PROVE IInv'
<1>1. /\ scan[a].at = "next" /\ scan[a].todo = {} /\ scan[a].found = {}
      /\ lastCheck' = [lastCheck EXCEPT ![a] = now]
      /\ failures' = Count(failures, scan[a].rows)
      /\ settled' = Count(settled, scan[a].acts)
      /\ examined' = examined \cup scan[a].seen
      /\ scan' = [scan EXCEPT ![a] = Asleep]
      /\ UNCHANGED <<now, stage, created, shows, alerted, errors, selected, dropped, undone, outdated>>
  BY DEF Commit, traces
<1>2. /\ scan' \in [Agent -> Scan]
      /\ \A b \in Agent \ {a} : scan'[b] = scan[b]
      /\ scan'[a].at = "asleep" /\ scan'[a].found = {} /\ scan'[a].current = {}
      /\ scan'[a].rows = {} /\ scan'[a].acts = {}
      /\ ScanShape' /\ RecordedOnce'
  BY <1>1, Sleeps
<1>3. scan[a] \in Scan /\ scan[a].rows = scan[a].acts
  BY <1>1 DEF IInv, TypeOK
<1>4. \A x \in Finding : /\ failures'[x] = failures[x] + (IF x \in scan[a].rows THEN 1 ELSE 0)
                         /\ settled'[x] = settled[x] + (IF x \in scan[a].rows THEN 1 ELSE 0)
                         /\ failures[x] \in Nat
  BY <1>1, <1>3 DEF Count, IInv, TypeOK
<1>5. TypeOK'
  <2>1. failures' \in [Finding -> Nat] /\ settled' \in [Finding -> Nat]
    BY <1>1 DEF Count, IInv, TypeOK
  <2>2. lastCheck' \in [Agent -> 0..now] /\ examined' \subseteq Trace
    BY <1>1, <1>3 DEF IInv, TypeOK, Scan
  <2>3. \A b \in Agent : /\ scan'[b].current # {} <=> scan'[b].at \in {"dispatch", "remediate"}
                         /\ scan'[b].rows = scan'[b].acts \cup scan'[b].current
    BY <1>2 DEF IInv, TypeOK
  <2>4. QED BY <1>1, <1>2, <2>1, <2>2, <2>3 DEF IInv, TypeOK
<1>6. RowsBounded'
  <2> SUFFICES ASSUME NEW x \in Finding
               PROVE  failures'[x] + Cardinality(Holders(x)') <= Cardinality(Agent)
    BY DEF RowsBounded
  <2>1. failures[x] + Cardinality(Holders(x)) <= Cardinality(Agent)
    BY DEF IInv, RowsBounded
  <2>2. Holders(x)' \in SUBSET (Holders(x) \ {a})
    BY <1>2 DEF Holders
  <2>3. CASE x \in scan[a].rows
    <3>1. a \in Holders(x)
      BY <2>3 DEF Holders
    <3>2. Cardinality(Holders(x)') + 1 <= Cardinality(Holders(x))
      BY <2>2, <3>1, HoldersAreAgents, OneHolderLess
    <3>3. Cardinality(Holders(x)') \in Nat /\ Cardinality(Holders(x)) \in Nat
      BY <2>2, HoldersAreAgents, FewerAgents
    <3>4. QED BY <1>4, <2>1, <2>3, <3>2, <3>3, AgentCount
  <2>4. CASE x \notin scan[a].rows
    <3>1. /\ Cardinality(Holders(x)') <= Cardinality(Holders(x))
          /\ Cardinality(Holders(x)') \in Nat /\ Cardinality(Holders(x)) \in Nat
      BY <2>2, HoldersAreAgents, FewerAgents
    <3>2. QED BY <1>4, <2>1, <2>4, <3>1, AgentCount
  <2>5. QED BY <2>3, <2>4
<1>7. \A t \in selected[a] : t \in examined' \cup dropped \cup outdated
  BY <1>1 DEF IInv, Bookkeeping, SelectedInScan
<1>8. SelectedInScan'
  BY <1>1, <1>2 DEF IInv, Bookkeeping, SelectedInScan
<1>9. EachFailureRemedied'
  BY <1>4 DEF IInv, EachFailureRemedied
<1>10. RolledBackIsReselected'
  BY <1>1, <1>7 DEF IInv, TypeOK, RolledBackIsReselected
<1>11. AlertedIsPersisted'
  <2> SUFFICES ASSUME NEW x \in alerted
               PROVE  failures'[x] > 0 \/ x \in undone \/ \E b \in Agent : x \in scan'[b].rows
    BY <1>1 DEF AlertedIsPersisted
  <2>1. x \in Finding
    BY DEF IInv, TypeOK
  <2>2. failures[x] > 0 \/ x \in undone \/ \E b \in Agent : x \in scan[b].rows
    BY DEF IInv, AlertedIsPersisted
  <2>3. QED BY <1>2, <1>4, <2>1, <2>2
<1>12. QED BY <1>2, <1>5, <1>6, <1>8, <1>9, <1>10, <1>11 DEF IInv, Bookkeeping

LEMMA CommitFailsInv == ASSUME IInv, NEW a \in Agent, CommitFails(a) PROVE IInv'
<1>1. /\ scan[a].at = "next" /\ scan[a].todo = {}
      /\ scan' = [scan EXCEPT ![a] = Asleep]
      /\ lastCheck' = [lastCheck EXCEPT ![a] = now]
      /\ undone' = undone \cup scan[a].rows
      /\ errors < MaxErrors /\ errors' = errors + 1
      /\ dropped' = dropped \cup scan[a].seen /\ outdated' = outdated
      /\ UNCHANGED <<now, traces, failures, settled, alerted, examined, selected>>
  BY DEF CommitFails
<1>2. now \in 0..now /\ dropped' \subseteq Trace /\ outdated' \subseteq Trace
  BY <1>1 DEF IInv, TypeOK, Scan
<1>3. \A t \in selected[a] : t \in examined \/ t \in dropped' \/ t \in outdated'
  BY <1>1 DEF IInv, Bookkeeping, SelectedInScan
<1>4. QED BY <1>1, <1>2, <1>3, ScanUndone

LEMMA ScanFailsInv == ASSUME IInv, NEW a \in Agent, ScanFails(a) PROVE IInv'
<1>1. /\ scan' = [scan EXCEPT ![a] = Asleep]
      /\ undone' = undone \cup scan[a].rows
      /\ errors < MaxErrors /\ errors' = errors + 1
      /\ lastCheck' = lastCheck /\ dropped' = dropped /\ outdated' = outdated
      /\ UNCHANGED <<now, traces, failures, settled, alerted, examined, selected>>
  BY DEF ScanFails
<1>2. /\ lastCheck[a] \in 0..now /\ lastCheck' = [lastCheck EXCEPT ![a] = lastCheck[a]]
      /\ dropped' \subseteq Trace /\ outdated' \subseteq Trace
  BY <1>1 DEF IInv, TypeOK
<1>3. \A t \in selected[a] :
        t \in examined \/ t \in dropped' \/ t \in outdated' \/ created[t] >= lastCheck[a]
  BY <1>1 DEF IInv, RolledBackIsReselected
<1>4. QED BY <1>1, <1>2, <1>3, ScanUndone

\* A new agent begins so far back that it selects again what it had, but for what
\* that leaves behind.
LEMMA RestartInv == ASSUME IInv, NEW a \in Agent, Restart(a) PROVE IInv'
<1> DEFINE start == IF now > LookBack THEN now - LookBack ELSE 0
<1>1. /\ scan' = [scan EXCEPT ![a] = Asleep]
      /\ undone' = undone \cup scan[a].rows
      /\ errors < MaxErrors /\ errors' = errors + 1
      /\ lastCheck' = [lastCheck EXCEPT ![a] = start] /\ dropped' = dropped
      /\ outdated' = outdated \cup {t \in selected[a] : created[t] < start}
      /\ UNCHANGED <<now, traces, failures, settled, alerted, examined, selected>>
  BY DEF Restart
<1>2. start \in 0..now
  BY WatchdogAssumption DEF IInv, TypeOK
<1> HIDE DEF start
<1>3. dropped' \subseteq Trace /\ outdated' \subseteq Trace
  BY <1>1 DEF IInv, TypeOK
<1>4. \A t \in selected[a] : t \in outdated' \/ created[t] >= start
  <2>1. \A t \in selected[a] : created[t] \in 0..now
    BY DEF IInv, TypeOK
  <2>2. now \in Nat
    BY DEF IInv, TypeOK
  <2>3. QED BY <1>1, <1>2, <2>1, <2>2
<1>5. QED BY <1>1, <1>2, <1>3, <1>4, ScanUndone

-----------------------------------------------------------------------------
\* Every step keeps the invariant.
LEMMA NextInv == IInv /\ [Next]_vars => IInv'
<1> SUFFICES ASSUME IInv, [Next]_vars PROVE IInv'
  OBVIOUS
<1>1. CASE Tick
  BY <1>1, TickInv
<1>2. CASE \E t \in Trace : CommitTrace(t) \/ \E fs \in SUBSET Failure : BeginTrace(t, fs) \/ LateSpans(t, fs)
  BY <1>2, TracesInv
<1>3. CASE \E a \in Agent : Step(a)
  BY <1>3, SelectInv, DispatchInv, RemediateInv, ExamineInv, RecordInv, CommitInv,
     CommitFailsInv, ScanFailsInv DEF Step
<1>4. CASE \E a \in Agent : Restart(a)
  BY <1>4, RestartInv
<1>5. CASE UNCHANGED vars
  <2>1. UNCHANGED <<now, stage, created, shows, lastCheck, scan, failures, settled, alerted,
                    examined, selected, dropped, outdated, undone, errors>>
    BY <1>5 DEF vars, traces
  <2>2. TypeOK'
    BY <2>1 DEF IInv, TypeOK
  <2>3. RowsBounded'
    BY <2>1, NoMoreHolders DEF Holders
  <2>4. Bookkeeping'
    BY <2>1 DEF IInv, Bookkeeping, ScanShape, RecordedOnce, SelectedInScan
  <2>5. (EachFailureRemedied /\ RolledBackIsReselected /\ AlertedIsPersisted)'
    BY <2>1 DEF IInv, EachFailureRemedied, RolledBackIsReselected, AlertedIsPersisted
  <2>6. QED BY <2>2, <2>3, <2>4, <2>5 DEF IInv
<1>6. QED BY <1>1, <1>2, <1>3, <1>4, <1>5 DEF Next

\* The invariant holds in every state.
THEOREM WatchdogInvariant == Spec => []IInv
BY InitInv, NextInv, PTL DEF Spec

\* Whatever scans overlap, fail or are cut off (WatchdogAgent._scan_traces): at most
\* one row of a failure for each watchdog, and as many remediations as rows.
THEOREM WatchdogClassificationsAreSafe == Spec => []ClassificationsAreSafe
<1>1. IInv => ClassifiedOnce
  <2> SUFFICES ASSUME IInv, NEW x \in Finding PROVE failures[x] <= Cardinality(Agent)
    BY DEF ClassifiedOnce
  <2>1. failures[x] \in Nat /\ failures[x] + Cardinality(Holders(x)) <= Cardinality(Agent)
    BY DEF IInv, TypeOK, RowsBounded
  <2>2. QED BY <2>1, HoldersAreAgents, FewerAgents, AgentCount
<1>2. IInv => ClassificationsAreSafe
  BY <1>1 DEF IInv, ClassificationsAreSafe
<1>3. QED BY <1>2, WatchdogInvariant, PTL

\* A rollback hides no trace from the next scan, a restart none that is not older than
\* the look-back of watchdog_agent.py:26, and rows are taken back from alerts only as
\* `undone` says (get_session(), start()).
THEOREM WatchdogRollbackLosesNothing == Spec => []RollbackLosesNothing
<1>1. IInv => RollbackLosesNothing
  BY DEF IInv, RollbackLosesNothing
<1>2. QED BY <1>1, WatchdogInvariant, PTL

=============================================================================
