------------------------------ MODULE GroupRuns ------------------------------
(***************************************************************************)
(* api/multiagent_routes.py and the recovery of api/main.py:               *)
(* POST /runs counts the tenant's runs of the last hour, inserts a row and *)
(* starts a task that solves the problem and writes its outcome; a process *)
(* that starts selects the rows that it takes for orphans, and marks them  *)
(* as failed when it commits.                                              *)
(*                                                                         *)
(* The API may have several processes, which share the database.  The runs *)
(* are those of one tenant.                                                *)
(***************************************************************************)
EXTENDS Naturals, FiniteSets

CONSTANTS
  Process,      \* the API processes
  Run,
  Limit,        \* the plan's runs per hour
  Hour,         \* an hour, in ticks
  StuckAfter,   \* stuck_after_minutes, in ticks
  MaxTime,      \* bound: how far the clock goes
  MaxCrashes    \* bound: how many processes end

GroupRunsAssumption ==
  /\ Limit \in Nat
  /\ Hour \in Nat
  /\ StuckAfter \in Nat
  /\ MaxTime \in Nat
  /\ MaxCrashes \in Nat

VARIABLES
  now,
  up,           \* the processes that handle requests
  starting,     \* the processes that have selected the rows they sweep
  sweep,        \* the rows that each has selected
  request,      \* where the request for each run is
  server,       \* the process that handles the request, and then the task
  status,       \* database: status of each run's row
  createdAt,    \* database: created_at
  task,         \* the task that executes the run
  orphaned,     \* history: the runs whose task ended without an outcome
  swept,        \* history: which process has marked which run as failed
  overlap,      \* history: two requests were allowed before either had its row
  crashes

vars == <<now, up, starting, sweep, request, server, status, createdAt, task, orphaned, swept, overlap, crashes>>

\* The statuses that AgentGroup.solve() returns are "completed" here.
Settled == {"completed", "failed"}

Init ==
  /\ now = 0
  /\ up = Process
  /\ starting = {}
  /\ sweep = [p \in Process |-> {}]
  /\ request = [r \in Run |-> "none"]
  /\ server \in [Run -> Process]
  /\ status = [r \in Run |-> "none"]
  /\ createdAt = [r \in Run |-> 0]
  /\ task = [r \in Run |-> "none"]
  /\ orphaned = {}
  /\ swept = {}
  /\ overlap = FALSE
  /\ crashes = 0

Tick ==
  /\ now < MaxTime
  /\ now' = now + 1
  /\ UNCHANGED <<up, starting, sweep, request, server, status, createdAt, task, orphaned, swept, overlap, crashes>>

-----------------------------------------------------------------------------
(* create_group_run() *)

Recent == {r \in Run : status[r] # "none" /\ createdAt[r] + Hour >= now}

Allow(r) ==
  /\ request[r] = "none"
  /\ server[r] \in up
  /\ request' = [request EXCEPT ![r] = "allowed"]
  /\ overlap' = (overlap \/ \E q \in Run : request[q] = "allowed")
  /\ UNCHANGED <<now, up, starting, sweep, server, status, createdAt, task, orphaned, swept, crashes>>

\* Mutant of CheckLimit: the limit itself is let pass.
CheckLimitIncluded(r) == Cardinality(Recent) <= Limit /\ Allow(r)

\* _check_multiagent_rate_limit(), which answers 429 otherwise.
CheckLimit(r) == Cardinality(Recent) < Limit /\ Allow(r)

\* The row is committed and the task created.
Create(r) ==
  /\ request[r] = "allowed"
  /\ request' = [request EXCEPT ![r] = "answered"]
  /\ status' = [status EXCEPT ![r] = "pending"]
  /\ createdAt' = [createdAt EXCEPT ![r] = now]
  /\ task' = [task EXCEPT ![r] = "started"]
  /\ UNCHANGED <<now, up, starting, sweep, server, orphaned, swept, overlap, crashes>>

-----------------------------------------------------------------------------
(* _execute_group_run() *)

\* A role that does not parse: the task ends before its try statement.
BadRole(r) ==
  /\ task[r] = "started"
  /\ task' = [task EXCEPT ![r] = "ended"]
  /\ orphaned' = orphaned \cup {r}
  /\ UNCHANGED <<now, up, starting, sweep, request, server, status, createdAt, swept, overlap, crashes>>

\* solve() and evaluate_group() return, or raise.
Solve(r) ==
  /\ task[r] = "started"
  /\ \E outcome \in Settled : task' = [task EXCEPT ![r] = outcome]
  /\ UNCHANGED <<now, up, starting, sweep, request, server, status, createdAt, orphaned, swept, overlap, crashes>>

\* Mutant of Write: an exception of solve() is logged but not written.
WriteOnlyResults(r) ==
  /\ task[r] \in Settled
  /\ status' = IF task[r] = "completed" THEN [status EXCEPT ![r] = "completed"] ELSE status
  /\ task' = [task EXCEPT ![r] = "ended"]
  /\ UNCHANGED <<now, up, starting, sweep, request, server, createdAt, orphaned, swept, overlap, crashes>>

\* The outcome is written, whatever the row says by now.
Write(r) ==
  /\ task[r] \in Settled
  /\ status' = [status EXCEPT ![r] = task[r]]
  /\ task' = [task EXCEPT ![r] = "ended"]
  /\ UNCHANGED <<now, up, starting, sweep, request, server, createdAt, orphaned, swept, overlap, crashes>>

\* The database fails the transaction that writes the outcome.
WriteFails(r) ==
  /\ task[r] \in Settled
  /\ task' = [task EXCEPT ![r] = "ended"]
  /\ orphaned' = orphaned \cup {r}
  /\ UNCHANGED <<now, up, starting, sweep, request, server, status, createdAt, swept, overlap, crashes>>

-----------------------------------------------------------------------------

Live(r) == task[r] \in {"started"} \cup Settled

\* What a process holds ends with it, the sweep of one that starts too.
Crash(p) ==
  LET dead == {r \in Run : server[r] = p /\ Live(r)}
  IN  /\ p \in up \cup starting
      /\ crashes < MaxCrashes
      /\ crashes' = crashes + 1
      /\ up' = up \ {p}
      /\ starting' = starting \ {p}
      /\ task' = [r \in Run |-> IF r \in dead THEN "ended" ELSE task[r]]
      /\ request' = [r \in Run |->
           IF server[r] = p /\ request[r] = "allowed" THEN "answered" ELSE request[r]]
      /\ orphaned' = orphaned \cup dead
      /\ UNCHANGED <<now, sweep, server, status, createdAt, swept, overlap>>

Start(p, selected) ==
  /\ p \notin up \cup starting
  /\ starting' = starting \cup {p}
  /\ sweep' = [sweep EXCEPT ![p] = selected]
  /\ UNCHANGED <<now, up, request, server, status, createdAt, task, orphaned, swept, overlap, crashes>>

\* Mutant of Restart: the sweep does not look at the status of a row.
RestartSweepsSettled(p) ==
  Start(p, {r \in Run : status[r] # "none" /\ createdAt[r] + StuckAfter < now})

\* The process starts again; _recover_stuck_group_runs() selects the old pending rows.
Restart(p) ==
  Start(p, {r \in Run : status[r] = "pending" /\ createdAt[r] + StuckAfter < now})

SweepEnds(p) ==
  /\ p \in starting
  /\ starting' = starting \ {p}
  /\ up' = up \cup {p}
  /\ UNCHANGED <<now, sweep, request, server, createdAt, task, orphaned, overlap, crashes>>

\* The selected rows are failed, whatever they say by now; then requests are handled.
SweepCommits(p) ==
  /\ SweepEnds(p)
  /\ status' = [r \in Run |-> IF r \in sweep[p] THEN "failed" ELSE status[r]]
  /\ swept' = swept \cup {<<p, r>> : r \in sweep[p]}

\* An error of the sweep is logged; the process goes on all the same.
SweepFails(p) == SweepEnds(p) /\ UNCHANGED <<status, swept>>

TaskStep(r) == BadRole(r) \/ Solve(r) \/ Write(r) \/ WriteFails(r)

Next ==
  \/ Tick
  \/ \E r \in Run : CheckLimit(r) \/ Create(r) \/ TaskStep(r)
  \/ \E p \in Process : Crash(p) \/ Restart(p) \/ SweepCommits(p) \/ SweepFails(p)

Spec == Init /\ [][Next]_vars

\* Requests, tasks and sweeps progress, the platform restarts a process, time passes.
Fairness ==
  /\ WF_vars(Tick)
  /\ \A r \in Run : WF_vars(Create(r)) /\ WF_vars(TaskStep(r))
  /\ \A p \in Process : WF_vars(Restart(p)) /\ WF_vars(SweepCommits(p) \/ SweepFails(p))

FairSpec == Spec /\ Fairness

-----------------------------------------------------------------------------
TypeOK ==
  /\ now \in 0..MaxTime
  /\ up \subseteq Process
  /\ starting \subseteq Process \ up
  /\ sweep \in [Process -> SUBSET Run]
  /\ request \in [Run -> {"none", "allowed", "answered"}]
  /\ server \in [Run -> Process]
  /\ status \in [Run -> {"none", "pending"} \cup Settled]
  /\ createdAt \in [Run -> 0..now]
  /\ task \in [Run -> {"none", "started", "ended"} \cup Settled]
  /\ \A r \in Run : Live(r) \/ request[r] = "allowed" => server[r] \in up
  /\ orphaned \subseteq Run
  /\ swept \subseteq Process \X Run
  /\ overlap \in BOOLEAN
  /\ crashes \in 0..MaxCrashes

\* A process sweeps no run that it executes itself (main.py:34, "Reset group
\* runs orphaned by a previous process crash"); it does sweep old runs that
\* another process executes.
OnlyOrphansSwept == \A x \in swept : server[x[2]] = x[1] => ~Live(x[2])

\* A run that is reported as settled stays as it was reported, but for the sweep of a
\* process other than its own: one that has failed it before, so that its task now
\* writes over that, or one that selected it and now fails it.
SettledIsFinal ==
  [][\A r \in Run : status[r] \in Settled =>
       \/ status'[r] = status[r]
       \/ status[r] = "failed" /\ \E p \in Process \ {server[r]} : <<p, r>> \in swept
       \/ status'[r] = "failed" /\ \E p \in starting \ {server[r]} : r \in sweep[p]]_vars

\* Every accepted run is settled, unless its task ended without an outcome or
\* its process before the row was there.
AcceptedIsSettled ==
  \A r \in Run : (request[r] = "allowed") ~>
    (status[r] \in Settled \/ r \in orphaned \/ (request[r] = "answered" /\ status[r] = "none"))

\* What api/multiagent_routes.py:71 says of the limit, "Enforce per-tenant hourly
\* limit on multi-agent runs", holds of requests that come one after the other.
LimitEnforced == ~overlap => Cardinality(Recent) <= Limit

\* Requests, crashes and sweeps of several processes keep the limit, and fail no run
\* that the sweeping process executes.
RunsAreSafe == TypeOK /\ LimitEnforced /\ OnlyOrphansSwept

=============================================================================
