------------------------------ MODULE Watchdog ------------------------------
(***************************************************************************)
(* otelmind/watchdog/watchdog_agent.py and remediation_engine.py: every 30 *)
(* seconds a watchdog selects the traces created since its last check, and *)
(* in one transaction records a classification for each failure it finds,  *)
(* dispatches alerts and carries out a remediation.                        *)
(*                                                                         *)
(* The API's lifespan, otelmind.main and the watchdog service each start a *)
(* watchdog of their own.  Transactions are READ COMMITTED, and created_at *)
(* is the time at which the transaction that inserts the trace began.      *)
(* Detection is abstracted to the failures that the stored spans show.     *)
(***************************************************************************)
EXTENDS Naturals, FiniteSets

CONSTANTS
  Agent,        \* the watchdogs
  Trace,
  Failure,      \* the failures that the detectors can find in a trace
  LookBack,     \* how far a new agent looks back: the hour of watchdog_agent.py:26
  MaxTime,      \* bound: how far the clock goes
  MaxErrors     \* bound: how many scans end in an exception

ASSUME WatchdogAssumption ==
  /\ IsFiniteSet(Agent)
  /\ MaxTime \in Nat \ {0}
  /\ MaxErrors \in Nat
  /\ LookBack \in Nat

VARIABLES
  now,          \* the clock
  stage,        \* of each trace: not there, its insert is open, or stored
  created,      \* created_at of each trace
  shows,        \* the failures that its stored spans show
  lastCheck,    \* _last_check of each agent
  scan,         \* what each agent's scan does
  failures,     \* database: rows of failure_classifications
  settled,      \* database: rows of remediation_actions that are not pending
  alerted,      \* outside: the failures that were dispatched to the channels
  examined,     \* history: the traces that a committed scan has examined
  selected,     \* history: the traces that each agent has ever selected
  dropped,      \* history: the traces of scans whose commit failed
  outdated,     \* history: the selected traces that were older than LookBack
                \* when their agent was restarted
  undone,       \* history: the failures whose rows were rolled back
  errors        \* how many scans ended in an exception

traces == <<stage, created, shows>>
vars == <<now, stage, created, shows, lastCheck, scan, failures, settled,
          alerted, examined, selected, dropped, outdated, undone, errors>>

Finding == Trace \X Failure

\* at: asleep; between traces; a failure is recorded but not dispatched; it
\* is not remedied.  `todo` are the selected traces that are left, `seen` those
\* that are not, `found` the failures of the current trace; `rows` and `acts`
\* are what the open transaction holds.
Scan == [at : {"asleep", "next", "dispatch", "remediate"}, todo : SUBSET Trace,
         seen : SUBSET Trace, found : SUBSET Finding, current : SUBSET Finding,
         rows : SUBSET Finding, acts : SUBSET Finding]

Asleep == [at |-> "asleep", todo |-> {}, seen |-> {}, found |-> {}, current |-> {},
           rows |-> {}, acts |-> {}]

Init ==
  /\ now = 1
  /\ stage = [t \in Trace |-> "none"]
  /\ created = [t \in Trace |-> 0]
  /\ shows = [t \in Trace |-> {}]
  /\ lastCheck = [a \in Agent |-> 0]
  /\ scan = [a \in Agent |-> Asleep]
  /\ failures = [x \in Finding |-> 0]
  /\ settled = [x \in Finding |-> 0]
  /\ alerted = {}
  /\ examined = {}
  /\ selected = [a \in Agent |-> {}]
  /\ dropped = {}
  /\ outdated = {}
  /\ undone = {}
  /\ errors = 0

-----------------------------------------------------------------------------
(* The rest of the system. *)

Tick ==
  /\ now < MaxTime
  /\ now' = now + 1
  /\ UNCHANGED <<traces, lastCheck, scan, failures, settled, alerted,
                 examined, errors, selected, dropped, undone, outdated>>

\* A collector begins the transaction that stores a new trace and its spans.
BeginTrace(t, fs) ==
  /\ stage[t] = "none"
  /\ stage' = [stage EXCEPT ![t] = "open"]
  /\ created' = [created EXCEPT ![t] = now]
  /\ shows' = [shows EXCEPT ![t] = fs]
  /\ UNCHANGED <<now, lastCheck, scan, failures, settled, alerted, examined,
                 errors, selected, dropped, undone, outdated>>

CommitTrace(t) ==
  /\ stage[t] = "open"
  /\ stage' = [stage EXCEPT ![t] = "stored"]
  /\ UNCHANGED <<now, created, shows, lastCheck, scan, failures, settled,
                 alerted, examined, errors, selected, dropped, undone, outdated>>

\* More spans of a stored trace are stored.
LateSpans(t, fs) ==
  /\ stage[t] = "stored"
  /\ ~(fs \subseteq shows[t])
  /\ shows' = [shows EXCEPT ![t] = @ \cup fs]
  /\ UNCHANGED <<now, stage, created, lastCheck, scan, failures, settled,
                 alerted, examined, errors, selected, dropped, undone, outdated>>

-----------------------------------------------------------------------------
(* _scan_traces() *)

\* The SELECT.  Without a new trace the scan returns at once.
Select(a) ==
  LET new == {t \in Trace : stage[t] = "stored" /\ created[t] >= lastCheck[a]}
  IN  /\ scan[a].at = "asleep"
      /\ new # {}
      /\ scan' = [scan EXCEPT ![a] = [Asleep EXCEPT !.at = "next", !.todo = new]]
      /\ selected' = [selected EXCEPT ![a] = @ \cup new]
      /\ UNCHANGED <<now, traces, lastCheck, failures, settled, alerted,
                 examined, errors, dropped, undone, outdated>>

Classified(a, t) ==
  \E f \in Failure : failures[<<t, f>>] > 0 \/ <<t, f>> \in scan[a].rows

\* Mutant of Examine: it does not look for an earlier classification.
ExamineAgain(a, t) ==
  /\ scan[a].at = "next"
  /\ scan[a].found = {}
  /\ t \in scan[a].todo
  /\ scan' = [scan EXCEPT ![a].todo = @ \ {t}, ![a].seen = @ \cup {t},
                          ![a].found = {t} \X shows[t]]
  /\ UNCHANGED <<now, traces, lastCheck, failures, settled, alerted,
                 examined, errors, selected, dropped, undone, outdated>>

\* The next trace: unless it has a classification, its spans are analysed.
Examine(a, t) ==
  /\ scan[a].at = "next"
  /\ scan[a].found = {}
  /\ t \in scan[a].todo
  /\ scan' = [scan EXCEPT ![a].todo = @ \ {t}, ![a].seen = @ \cup {t},
                          ![a].found = IF Classified(a, t) THEN {} ELSE {t} \X shows[t]]
  /\ UNCHANGED <<now, traces, lastCheck, failures, settled, alerted,
                 examined, errors, selected, dropped, undone, outdated>>

\* record_failure()
Record(a, x) ==
  /\ scan[a].at = "next"
  /\ x \in scan[a].found
  /\ scan' = [scan EXCEPT ![a].found = @ \ {x}, ![a].current = {x},
                          ![a].rows = @ \cup {x}, ![a].at = "dispatch"]
  /\ UNCHANGED <<now, traces, lastCheck, failures, settled, alerted,
                 examined, errors, selected, dropped, undone, outdated>>

\* AlertRouter.dispatch() notifies the channels, or raises, which is logged.
Dispatch(a) ==
  /\ scan[a].at = "dispatch"
  /\ scan' = [scan EXCEPT ![a].at = "remediate"]
  /\ alerted' = alerted \cup scan[a].current \/ UNCHANGED alerted
  /\ UNCHANGED <<now, traces, lastCheck, failures, settled, examined, errors,
                 selected, dropped, undone, outdated>>

\* RemediationEngine.remediate(): the action is recorded as pending, carried
\* out, and marked "success", or "failed" if its handler raises.
Remediate(a) ==
  /\ scan[a].at = "remediate"
  /\ scan' = [scan EXCEPT ![a].at = "next", ![a].current = {}, ![a].acts = @ \cup scan[a].current]
  /\ UNCHANGED <<now, traces, lastCheck, failures, settled, alerted,
                 examined, errors, selected, dropped, undone, outdated>>

Count(f, s) == [x \in Finding |-> f[x] + (IF x \in s THEN 1 ELSE 0)]

\* Mutant of Commit: the session is left without commit().
CommitForgets(a) ==
  /\ scan[a].at = "next"
  /\ scan[a].todo = {} /\ scan[a].found = {}
  /\ lastCheck' = [lastCheck EXCEPT ![a] = now]
  /\ scan' = [scan EXCEPT ![a] = Asleep]
  /\ UNCHANGED <<now, traces, failures, settled, alerted, examined, selected,
                 dropped, undone, errors, outdated>>

\* _last_check is set just before the transaction is committed.
Commit(a) ==
  /\ scan[a].at = "next"
  /\ scan[a].todo = {} /\ scan[a].found = {}
  /\ lastCheck' = [lastCheck EXCEPT ![a] = now]
  /\ failures' = Count(failures, scan[a].rows)
  /\ settled' = Count(settled, scan[a].acts)
  /\ examined' = examined \cup scan[a].seen
  /\ scan' = [scan EXCEPT ![a] = Asleep]
  /\ UNCHANGED <<now, traces, alerted, errors, selected, dropped, undone, outdated>>

\* The commit fails: the rows are gone, _last_check stays advanced.
CommitFails(a) ==
  /\ scan[a].at = "next"
  /\ scan[a].todo = {} /\ scan[a].found = {}
  /\ errors < MaxErrors
  /\ errors' = errors + 1
  /\ lastCheck' = [lastCheck EXCEPT ![a] = now]
  /\ dropped' = dropped \cup scan[a].seen
  /\ undone' = undone \cup scan[a].rows
  /\ scan' = [scan EXCEPT ![a] = Asleep]
  /\ UNCHANGED <<now, traces, failures, settled, alerted, examined, selected, outdated>>

\* Mutant of ScanFails: _last_check is set in a finally clause.
ScanFailsAdvances(a) ==
  /\ scan[a].at # "asleep"
  /\ errors < MaxErrors
  /\ errors' = errors + 1
  /\ scan' = [scan EXCEPT ![a] = Asleep]
  /\ lastCheck' = [lastCheck EXCEPT ![a] = now]
  /\ undone' = undone \cup scan[a].rows
  /\ UNCHANGED <<now, traces, failures, settled, alerted, examined, selected,
                 dropped, outdated>>

\* A statement raises: get_session() rolls everything back, start() logs it.
ScanFails(a) ==
  /\ scan[a].at # "asleep"
  /\ errors < MaxErrors
  /\ errors' = errors + 1
  /\ scan' = [scan EXCEPT ![a] = Asleep]
  /\ undone' = undone \cup scan[a].rows
  /\ UNCHANGED <<now, traces, lastCheck, failures, settled, alerted,
                 examined, selected, dropped, outdated>>

\* The process restarts: a new agent looks back for LookBack, and no further.
Restart(a) ==
  LET start == IF now > LookBack THEN now - LookBack ELSE 0
  IN  /\ errors < MaxErrors
      /\ errors' = errors + 1
      /\ scan' = [scan EXCEPT ![a] = Asleep]
      /\ lastCheck' = [lastCheck EXCEPT ![a] = start]
      /\ undone' = undone \cup scan[a].rows
      /\ outdated' = outdated \cup {t \in selected[a] : created[t] < start}
      /\ UNCHANGED <<now, traces, failures, settled, alerted, examined, selected,
                     dropped>>

Step(a) ==
  \/ Select(a) \/ Dispatch(a) \/ Remediate(a)
  \/ \E t \in Trace : Examine(a, t)
  \/ \E x \in Finding : Record(a, x)
  \/ Commit(a) \/ CommitFails(a) \/ ScanFails(a)

Next ==
  \/ Tick
  \/ \E t \in Trace : CommitTrace(t) \/ \E fs \in SUBSET Failure : BeginTrace(t, fs) \/ LateSpans(t, fs)
  \/ \E a \in Agent : Step(a) \/ Restart(a)

Spec == Init /\ [][Next]_vars

\* The loop of start() wakes, and the statements of a scan return.
Fairness == \A a \in Agent : WF_vars(Step(a))

FairSpec == Spec /\ Fairness

-----------------------------------------------------------------------------
TypeOK ==
  /\ now \in 1..MaxTime
  /\ stage \in [Trace -> {"none", "open", "stored"}]
  /\ created \in [Trace -> 0..now]
  /\ shows \in [Trace -> SUBSET Failure]
  /\ lastCheck \in [Agent -> 0..now]
  /\ scan \in [Agent -> Scan]
  /\ \A a \in Agent :
       /\ scan[a].current # {} <=> scan[a].at \in {"dispatch", "remediate"}
       /\ scan[a].rows = scan[a].acts \cup scan[a].current
  /\ failures \in [Finding -> Nat]
  /\ settled \in [Finding -> Nat]
  /\ alerted \subseteq Finding
  /\ examined \subseteq Trace
  /\ selected \in [Agent -> SUBSET Trace]
  /\ dropped \subseteq Trace
  /\ outdated \subseteq Trace
  /\ undone \subseteq Finding
  /\ errors \in 0..MaxErrors

\* Every classification has exactly one remediation, and it is not pending: an
\* exception at any point takes back both.
EachFailureRemedied == \A x \in Finding : failures[x] = settled[x]

\* A scan that is rolled back passes over no trace: what an agent has selected it
\* selects again, until a scan with it is committed or fails in the commit itself.
\* A restart passes over those alone that are older than the look-back.
RolledBackIsReselected ==
  \A a \in Agent : \A t \in selected[a] :
    t \in examined \cup dropped \cup outdated \/ created[t] >= lastCheck[a]

\* Over rollbacks, repeated selects of the same trace and restarts a watchdog
\* classifies a failure at most once; two may both do (watchdog_agent.py:67,
\* "Check if already classified").
ClassifiedOnce == \A x \in Finding : failures[x] <= Cardinality(Agent)

\* What alert_router.py:4-5 says comes first, "FailureClassification is persisted
\* by the watchdog", holds unless a rollback took the row back after the alert.
AlertedIsPersisted ==
  \A x \in alerted : failures[x] > 0 \/ x \in undone \/ \E a \in Agent : x \in scan[a].rows

\* Scans that overlap, fail, or are cut off by a restart leave at most one
\* classification for each agent, and each of them with its remediation.
ClassificationsAreSafe == TypeOK /\ ClassifiedOnce /\ EachFailureRemedied

\* A rollback neither hides a trace from the next scan, nor a restart one that is
\* not older than the look-back; nor is an alert left without its classification,
\* but for the rows that were taken back.
RollbackLosesNothing == RolledBackIsReselected /\ AlertedIsPersisted

\* Every failure that a selected trace shows is classified in the end, unless
\* the trace was classified before, the commit of its scan failed, or the agent was
\* restarted when the trace was older than the look-back.
SelectedIsClassified ==
  \A x \in Finding :
    (\E a \in Agent : x[1] \in scan[a].todo /\ x[2] \in shows[x[1]])
      ~> (x[1] \in dropped \cup outdated \/ \E f \in Failure : failures[<<x[1], f>>] > 0)

=============================================================================
