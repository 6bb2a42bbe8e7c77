------------------------------ MODULE GoldenRuns ------------------------------
(***************************************************************************)
(* otelmind/eval/worker.py: daily_golden_regression_loop().  Once a day a  *)
(* process executes the golden dataset for every tenant, and compares the  *)
(* run with the one before.  ProtocolChoice has the daily snapshot.        *)
(* Every API process runs the loop; they share eval_runs.                  *)
(*                                                                         *)
(* The target hour is the first of a day.  A score is high or low, and a   *)
(* drop is more than eval_regression_threshold.  An alert is the row of    *)
(* failure_classifications.                                                *)
(***************************************************************************)
EXTENDS Naturals, Sequences, FiniteSets, FiniteSetsExt

CONSTANTS
  Process,
  Tenants,      \* the active tenants, in the order of the SELECT
  Outcomes(_, _), \* bound: how a tenant's run of a day may end
  MaxDay,       \* bound: the days are 1, 2, ...
  MaxErrors     \* bound: transactions that fail, and processes that end

\* Assumed by the module that instantiates this one.  Without tenants a tick does nothing.
GoldenRunsAssumption == Tenants \in Seq(STRING) \ {<<>>} /\ MaxDay \in Nat /\ MaxErrors \in Nat

VARIABLES
  day,
  loop,         \* what each process does
  last,         \* last_run_date of each process, 0 for None
  rows,         \* database: the golden runs, in the order of created_at
  alerts,       \* database: failure_classifications, a row and its previous
  compared,     \* history: the rows that were compared with what was before them
  overlap,      \* history: the tenants on which two processes worked at a time
  stranded,     \* history: the rows whose tick failed, or whose process ended, before
                \* they were executed and compared
  errors

history == <<compared, overlap, stranded, errors>>
vars == <<day, loop, last, rows, alerts, compared, overlap, stranded, errors>>

\* The run that a process executes is `row`, the one it compares it with `prior`.
Idle == [at |-> "idle", tick |-> 0, left |-> <<>>, name |-> 0, row |-> 0, prior |-> 0]

Init ==
  /\ day = 1
  /\ loop = [p \in Process |-> Idle]
  /\ last = [p \in Process |-> 0]
  /\ rows = <<>>
  /\ alerts = {}
  /\ compared = {}
  /\ overlap = {}
  /\ stranded = {}
  /\ errors = 0

NextDay ==
  /\ day < MaxDay
  /\ day' = day + 1
  /\ UNCHANGED <<loop, last, rows, alerts, history>>

TenantOf(p) == Head(loop[p].left)

\* A tick finds that the day is not done.
Begin(p) ==
  /\ loop[p].at = "idle"
  /\ last[p] # day
  /\ loop' = [loop EXCEPT ![p] = [Idle EXCEPT !.at = "look", !.tick = day, !.left = Tenants]]
  /\ UNCHANGED <<day, last, rows, alerts, history>>

-----------------------------------------------------------------------------
(* _run_daily_golden_for_tenant() *)

\* The snapshot of the benchmark's health is written, or its exception logged;
\* then the next tenant, or the end of the tick.
NextTenant(p) ==
  IF Len(loop[p].left) > 1
  THEN /\ loop' = [loop EXCEPT ![p] = [Idle EXCEPT !.at = "look", !.tick = loop[p].tick,
                                                   !.left = Tail(loop[p].left)]]
       /\ UNCHANGED last
  ELSE /\ loop' = [loop EXCEPT ![p] = Idle]
       /\ last' = [last EXCEPT ![p] = loop[p].tick]

RowOf(t, d) == {i \in DOMAIN rows : rows[i].tenant = t /\ rows[i].day = d}

\* The steps after the execution: the run is read, then the previous one, then the
\* alert is inserted.
Judging == {"compare", "previous", "alert"}

Busy(t) == {p \in Process : loop[p].at \in {"insert", "execute"} \cup Judging /\ TenantOf(p) = t}

\* Mutant of Missing: only completed rows count.
MissingCompleted(t) == \A i \in RowOf(t, day) : rows[i].status # "completed"

Missing(t) == RowOf(t, day) = {}

\* The run is named after the day on which it is looked for.
Look(p) ==
  /\ loop[p].at = "look"
  /\ Missing(TenantOf(p))
  /\ loop' = [loop EXCEPT ![p].at = "insert", ![p].name = day]
  /\ overlap' = IF Busy(TenantOf(p)) # {} THEN overlap \cup {TenantOf(p)} ELSE overlap
  /\ UNCHANGED <<day, last, rows, alerts, compared, stranded, errors>>

\* Mutant of Found: a run that exists ends the tick, not only its tenant.
FoundEndsTick(p) ==
  /\ loop[p].at = "look"
  /\ ~Missing(TenantOf(p))
  /\ loop' = [loop EXCEPT ![p] = Idle]
  /\ last' = [last EXCEPT ![p] = loop[p].tick]
  /\ UNCHANGED <<day, rows, alerts, history>>

\* The day's run exists, whatever has become of it.
Found(p) ==
  /\ loop[p].at = "look"
  /\ ~Missing(TenantOf(p))
  /\ NextTenant(p)
  /\ UNCHANGED <<day, rows, alerts, history>>

Insert(p) ==
  /\ loop[p].at = "insert"
  /\ rows' = Append(rows, [tenant |-> TenantOf(p), day |-> loop[p].name, status |-> "running", high |-> FALSE])
  /\ loop' = [loop EXCEPT ![p].at = "execute", ![p].row = Len(rows) + 1]
  /\ UNCHANGED <<day, last, alerts, history>>

\* _execute_eval_run() completes the run, or marks it as failed.
Execute(p) ==
  /\ loop[p].at = "execute"
  /\ \E outcome \in Outcomes(TenantOf(p), loop[p].name) :
       rows' = [rows EXCEPT ![loop[p].row].status = IF outcome = "failed" THEN "failed" ELSE "completed",
                            ![loop[p].row].high = outcome = "high"]
  /\ loop' = [loop EXCEPT ![p].at = "compare"]
  /\ UNCHANGED <<day, last, alerts, history>>

Completed(t) == {i \in DOMAIN rows : rows[i].tenant = t /\ rows[i].status = "completed"}

\* Mutant of Previous: the run itself is not excluded.
PreviousOrSelf(i) ==
  LET done == Completed(rows[i].tenant) IN IF done = {} THEN {} ELSE {Max(done)}

\* _get_previous_golden_run(): the newest that is not the run itself.
Previous(i) ==
  LET others == Completed(rows[i].tenant) \ {i} IN IF others = {} THEN {} ELSE {Max(others)}

\* The run is not judged when its execution has failed.
Compare(p) ==
  /\ loop[p].at = "compare"
  /\ IF rows[loop[p].row].status = "completed"
     THEN loop' = [loop EXCEPT ![p].at = "previous"] /\ UNCHANGED last
     ELSE NextTenant(p)
  /\ UNCHANGED <<day, rows, alerts, history>>

\* What the run is worse than, of the previous one.
Worse(i) == {j \in Previous(i) : rows[j].high /\ ~rows[i].high}

FindPrevious(p) ==
  LET i == loop[p].row
  IN  /\ loop[p].at = "previous"
      /\ IF Worse(i) = {}
         THEN NextTenant(p) /\ compared' = compared \cup {i}
         ELSE /\ loop' = [loop EXCEPT ![p].at = "alert", ![p].prior = Max(Worse(i))]
              /\ UNCHANGED <<last, compared>>
      /\ UNCHANGED <<day, rows, alerts, overlap, stranded, errors>>

\* _fire_regression_alert()
Alert(p) ==
  LET i == loop[p].row
  IN  /\ loop[p].at = "alert"
      /\ NextTenant(p)
      /\ alerts' = alerts \cup {<<i, loop[p].prior>>}
      /\ compared' = compared \cup {i}
      /\ UNCHANGED <<day, rows, overlap, stranded, errors>>

-----------------------------------------------------------------------------

Stop(p) ==
  /\ errors < MaxErrors
  /\ errors' = errors + 1
  /\ loop' = [loop EXCEPT ![p] = Idle]
  /\ stranded' = IF loop[p].at \in {"execute"} \cup Judging THEN stranded \cup {loop[p].row} ELSE stranded
  /\ UNCHANGED <<day, rows, alerts, compared, overlap>>

\* An exception ends the tick; the loop sleeps on.
TickFails(p) ==
  /\ loop[p].at # "idle"
  /\ Stop(p)
  /\ UNCHANGED last

\* The process ends; the platform starts it again.
Restart(p) ==
  /\ loop[p].at # "idle" \/ last[p] # 0
  /\ Stop(p)
  /\ last' = [last EXCEPT ![p] = 0]

Step(p) ==
  \/ Begin(p) \/ Look(p) \/ Found(p) \/ Insert(p) \/ Execute(p)
  \/ Compare(p) \/ FindPrevious(p) \/ Alert(p)

Next == NextDay \/ \E p \in Process : Step(p) \/ TickFails(p) \/ Restart(p)

Spec == Init /\ [][Next]_vars

\* Every process wakes up every ten minutes, and the judge and the database answer.
FairSpec == Spec /\ WF_vars(NextDay) /\ \A p \in Process : WF_vars(Step(p))

-----------------------------------------------------------------------------
\* The completed runs of earlier days, and whether a run is worse than the last of them.
Earlier(i) == {j \in Completed(rows[i].tenant) : rows[j].day < rows[i].day}
Dropped(i) == Earlier(i) # {} /\ rows[Max(Earlier(i))].high /\ ~rows[i].high

\* A comparison alerts if and only if the run is worse than the last completed run
\* of an earlier day, unless two processes worked on the tenant at the same time.
RegressionIsAlerted ==
  \A i \in compared : rows[i].tenant \in overlap \/ (Dropped(i) <=> \E j \in Earlier(i) : <<i, j>> \in alerts)

\* A completed run is compared, unless the tick failed, or the process ended, in
\* between: then its row exists, and no later tick compares it,
\* worse or not (worker.py:573-574).
JudgedOrStranded ==
  \A i \in DOMAIN rows :
    rows[i].status = "completed" =>
      i \in compared \cup stranded \/ \E p \in Process : loop[p].at \in Judging /\ loop[p].row = i

\* A row that is marked as running is executed by a process, unless its process
\* stopped with it: no other tick takes such a row up.
RunningIsExecuted(i) ==
  rows[i].status = "running" => i \in stranded \/ \E p \in Process : loop[p].at = "execute" /\ loop[p].row = i

\* A tenant has one golden run a day, failures and restarts included, unless two
\* processes looked for it at the same time (worker.py:567, "if today's run
\* already exists (e.g. the loop wakes up twice in the same day), reuse it"), and
\* a run that is left behind was left by the process that executed it.
OneRunPerDay ==
  \A i \in DOMAIN rows :
    /\ RunningIsExecuted(i)
    /\ \A j \in DOMAIN rows : rows[i].tenant = rows[j].tenant /\ rows[i].day = rows[j].day /\ i # j
                               => rows[i].tenant \in overlap

\* A tenant has one run a day, which is judged once and by what was before it, unless
\* two processes worked on the tenant at a time or a tick stopped with the run.
DaysAreJudgedOnce == OneRunPerDay /\ RegressionIsAlerted /\ JudgedOrStranded

\* Failures end, so every tenant has its run of the last day, also those behind a
\* tenant whose run failed: the tick is repeated until it has passed all tenants.
EveryTenantIsRun == <>(\A i \in DOMAIN Tenants : RowOf(Tenants[i], MaxDay) # {})

=============================================================================
