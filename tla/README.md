# TLA+ models of OtelMind

OtelMind collects the spans of LLM agents, stores them in PostgreSQL, looks
for failures in them, raises alerts, remedies what it can, and evaluates runs
and groups of agents. This directory holds TLA+ models of the parts whose
correctness depends on the order in which things happen, the TLC
configurations that check them, and proofs of the central invariants.
`PROJECT.json` lists, for every definition that models code, the lines it
stands for; paths below are relative to the root of the repository.

To repeat a check: `tlc -config BatchWriter.cfg BatchWriter` (the table in
section 4 pairs modules and configurations), `tlapm BatchWriterProofs.tla`.

## 1. The system

### 1.1 Parts, state and interactions

| Part | Code | State | Operations | Talks to |
|---|---|---|---|---|
| JavaScript SDK: span queue | `sdk-js/src/span-queue.ts` | queue, `flushing`, timer, `closed` | enqueue, flush, sendWithRetry, shutdown | ingest endpoint (HTTP, retries) |
| JavaScript SDK: tracing | `sdk-js/src/{client,tracer}.ts`, `instrumentation/` | AsyncLocalStorage context, open spans | startSpan, endSpan, trace, wrapped clients and streams | span queue |
| OTLP receiver and batch writer | `otelmind/collector/{server,processor,writer}.py` | four buffers, a flush task | write, _flush, start, stop | PostgreSQL |
| API collector and span processor | `otelmind/collector/{collector,span_processor}.py`, loop in `otelmind/main.py` | one buffer and a lock per process | ingest, _flush, process_spans, collector loop | PostgreSQL (one transaction per flush) |
| Redis span queue | `otelmind/collector/queue.py` | stream, consumer group, dead letters | publish, consume, ack, move_to_dlq | Redis |
| Watchdog and remediation | `otelmind/watchdog/watchdog_agent.py`, `otelmind/remediation/` | `_last_check`; rows of failures and actions | scan, record, dispatch, remediate | PostgreSQL, alert router, webhooks |
| Detectors | `otelmind/watchdog/failure_detection.py`, `heuristics.py`, `detectors/`, `llm_judge.py` | none | analyse the spans of a trace | LLM |
| Alert router | `otelmind/alerting/` | deduplication keys in Redis | dispatch | Redis, Slack, PagerDuty, SMTP |
| Multi-agent runs | `otelmind/api/multiagent_routes.py`, `api/main.py` | rows of group_runs; background tasks | POST /runs, execute, recovery at startup | PostgreSQL, collaboration |
| Multi-agent collaboration | `otelmind/multiagent/` | messages, blackboard, round, status | solve, five protocols, budget | LLM |
| Evaluation worker | `otelmind/eval/worker.py` | rows of eval_runs | claim, execute, audit | PostgreSQL, LLM judge |
| Auto-scorer, golden regression | `otelmind/eval/worker.py`, `batch_scorer.py` | trace scores, daily rows of eval_runs | tick | PostgreSQL, LLM judge |
| Evaluation algorithms | `otelmind/eval/*.py` | none | regression, gate, statistics, calibration, protocol choice | - |
| REST API: limits, lists, rules | `otelmind/api/{routes,rate_limit,schemas}.py` | sorted sets in Redis, rules and channels | endpoints, failure stream, pages | PostgreSQL, Redis |
| REST API: members | `otelmind/api/{auth,rbac_routes}.py` | users, roles, memberships, keys | invite, change, remove | PostgreSQL |
| Python instrumentation | `otelmind/instrumentation/` | patched functions, by node name | instrument, uninstrument, invoke | OpenTelemetry SDK |
| Partitions | `otelmind/storage/partitioning.py`, migration 003 | monthly partitions | ensure, drop | PostgreSQL |

Data flows from the SDKs through one of two buffers (the writer or the
collector) into PostgreSQL, from there through the watchdog to alerts and
remediation, and to the evaluation loops. Nothing but the database, Redis and
HTTP connects two processes. Inside a process everything is asyncio on one
thread: code between two awaits is atomic, and so is JavaScript's.

The deployment matters: `docker-compose` runs an `api` and a `watchdog`
container, and the API's lifespan starts a watchdog too, so two watchdogs are
normal; the production image runs `uvicorn` on `api.main`, where no collector
loop runs. Models that depend on this have a CONSTANT for it (`Looping` of
Collector, `Agent` of Watchdog, `Process` of GroupRuns, `Worker` of EvalRuns).

### 1.2 What is hard, and what makes each part correct

* **Buffers** (SDK queue, writer, collector): overlapping flushes, a flush that
  fails or whose outcome is unknown, a shutdown or a crash while a flush is in
  the air. Correct: nothing is lost but by a shutdown or a crash, nothing is
  stored twice but for a reply that was lost, order is kept (SDK), and what
  was accepted arrives in the end.
* **Check-then-insert** (traces, classifications, alert keys, the hourly limit,
  golden runs, trace scores): two processes both see nothing and both insert.
* **One long transaction beside other effects** (watchdog): alerts and webhooks
  are not rolled back with the rows; `_last_check` is compared with clocks of
  other transactions.
* **Claimed work** (evaluation runs, group runs): a worker that stops with what
  it claimed, a recovery that takes work from a live owner, an outcome that is
  written over something newer.
* **Time windows** (alert deduplication, hourly limit, orphan age).

* **Readers of a growing table** (failure stream, pages, auto-scorer): a row gets
  its time when its transaction begins and is seen when it commits; a page is a
  COUNT and a SELECT.
* **Requests that read first and write later** (members, rules): two of them
  about one row, and an error between their two transactions.
* **Patches and handles** (both SDKs): who puts a patched function back, and who
  ends a span, when calls overlap or a stream is left early.
* **Calendars** (partitions): the month of a cutoff, an upper bound, a window.
* **Rounds of agents** (collaboration): counters of rounds and streaks in two
  places, a budget that is looked at between rounds, calls that fail.
* **Decisions** (detectors, verdicts, recommendation): the same rule written
  three times, means with weights of zero, thresholds at their boundary.

`PROJECT.json` lists the most important of these as hazards, each at its line, with the properties
that cover it.

## 2. Modules

```
SpanLedger  <--implements--  BatchWriter   <- BatchWriterProofs
            <--implements--  SdkSpanQueue  <- SdkSpanQueueProofs
                             Collector     <- CollectorProofs, MCCollector
                             Watchdog      <- WatchdogProofs
                             AlertRouter   <- AlertRouterProofs, MCAlertRouter
                             EvalRuns      <- MCEvalRuns, EvaluationProofs
                             GroupSolve    <- MCGroupSolve, GroupProofs
MCGroupRuns --INSTANCE-->    GroupRuns     <- GroupProofs
MCServices  --EXTENDS-->     MCApi  --INSTANCE-->  FailureFeed, RateLimit, Membership, AlertRules
            --INSTANCE-->    GoldenRuns, AutoScorer, Partitions, SdkTracing, Instrumentor
            <-               ServicesProofs
MCDecisions --INSTANCE-->    Detection, ProtocolChoice, EvalVerdict
            <-               EvaluationProofs
MCPartitions --EXTENDS-->    Partitions
```

Each module has CONSTANTS, their assumptions in a named ASSUME (of a module that is
used through INSTANCE, in the module that makes the instance), one action per
step between two awaits, and its properties. A definition headed "Mutant of"
is not part of a specification: it is the plausible bug that shows that a
property can fail. History variables, marked as such, are read by no guard.

**SpanLedger** says what a telemetry buffer promises: a record is absent,
pending, durable or lost; only a buffer that is shutting down loses a pending
record, and it accepts nothing more.

**BatchWriter** (`collector/writer.py`). `running`, `loop`, `buffer` are the
fields of the class; `flight[t]` is the batch that the flush of task `t` has
swapped out. The four buffers move together and are one set of records; `Counted` are the
records with a usage row, `Refused` those whose INSERT fails whenever it is tried.
Actions: `Start`, `Write` (append, and at the threshold the caller's own flush),
`Tick` (the loop), the three outcomes of a transaction (`Committed`, which needs
that the database `Accepts` the batch, `RolledBack`, `CommitReplyLost`: committed,
but the client sees an error), `StopCalled`, `LoopCancelled` and `StopFlush`. The
lock guards sections without an await, so it never interleaves. The batch of a
cancelled loop survives only if its COMMIT had gone through or its ROLLBACK raises.

**SdkSpanQueue** (`sdk-js/src/span-queue.ts`). `Enqueue`, `TimerFlush`,
`AppFlush` (flush() of the client, at any time), `Shutdown` (at any time and again),
and the answers to an attempt: `Ok`, `Failed` (5xx or a network
error: retry up to MaxRetries, then back in front), `Thrown` (4xx, or an
unrecognised error: no retry, but the batch is put back), `ReplyLost`. Back-off sleeps are folded into
the attempt they precede. Spans are numbered as they are enqueued, so the order
of the queue is the order of numbers.

**Collector** (`collector/collector.py`, `span_processor.py`, the loop of
`main.py`). A record is a request body. `Post` and `Ingest` separate the
arrival of a request from getting the lock; `LoopFlush` is the loop, which does
not take the lock; a flight goes through the traces of its batch one at a time
(`StoreTrace` sees or does not see the row of the trace: READ COMMITTED), and
ends in `Commit`, `CommitUnseen`, `DatabaseError` or `BadTrace`; a failed batch
goes back into the buffer (`Rebuffer`). `ProcessEnds` is a kill or a cancel.

**Watchdog** (`watchdog_agent.py`, `remediation_engine.py`). A scan selects
(`Select`), examines a trace (`Examine`), and for each failure found records
it, dispatches alerts and remedies it; rows stay in the open transaction until
`Commit`. `_last_check` is set before the commit (`CommitFails` keeps it), and by `Restart`
to the time of the restart less `LookBack`, the hour of `watchdog_agent.py:26`.
`BeginTrace`/`CommitTrace` separate a trace's created_at from its visibility;
`LateSpans` adds spans to a stored trace. What the detectors compute is
abstracted to the set of failures that the stored spans show, and a remediation
to its returning or raising: either way its row is no longer pending.

**AlertRouter** (`alert_router.py`). A dispatch goes through its matching rules
in any order, with EXISTS (`Check`), the channel (`Fired`, `NotFired`) and
SETEX (`Mark`) as separate steps; `Raises` ends it at any of them. Time is a
tick that runs down the keys, and `owed`, what remains of the window of the
last alert.

**GroupRuns** (`multiagent_routes.py`, recovery in `api/main.py`). The count of
the last hour (`CheckLimit`) and the insert (`Create`) are two transactions;
the task solves and writes, or ends without an outcome (`BadRole`: before its
try statement; `WriteFails`); `Crash`; `Restart` selects the old pending rows, and `SweepCommits` fails them,
whatever they say by then, before the process handles requests (`SweepFails` logs).
The statuses with which a collaboration may end are "completed".

**EvalRuns** (`eval/worker.py:48-241, 802-851`). `Claim` locks the oldest
pending row that nobody has locked; `Claimed` commits; `CompleteEmpty` or
`LoadCases`, `Judge` or `JudgeRaises`, the write of the report or of the error,
the audit; failures of each transaction and crashes; `Retry` is the statement
the docstring at `worker.py:66-68` gives to operators.

**GroupSolve** (`multiagent/group.py`, `protocols.py`, `eval/group_metrics.py`).
A collaboration is a list of calls per round (`StartRound`), each answered
(`Say`), repeated (`CallRetried`: a time-out, at most twice) or failed
(`CallFails` ends the run). `EndRound` applies the protocol's own test of the
answers (`Verdict`, `Streak`, `Literal`, `Semantic`, `Answered`), then the
budget; `Return` and `Evaluate` produce the result. A text is what a protocol
can tell of it: a verdict, an update, an empty update, its `Key` (the first 200
characters in lower case, by which `Literal` compares), similar to another one.

**FailureFeed** (`routes.py`: stream, pages). `Write` fixes created_at, `Commit`
makes the row visible; `Poll` is the stream, `Count` and `Select` a page.
**RateLimit** (`rate_limit.py`): the sorted set per bucket, with its expiry, and
the request that passes because Redis does not answer. **Membership**
(`rbac_routes.py`, `auth.py`): an invitation is two transactions, a change two
statements. **AlertRules** (`routes.py`): `Create` and `Change` look for a
channel, `Save` writes the rule and, if there was none, a placeholder.

**GoldenRuns** (`worker.py:451-680`). Every process walks over the tenants once a
day: it looks for a row of the day, inserts it, executes it, reads it (`Compare`), reads
the run before (`FindPrevious`) and inserts the alert (`Alert`), in a transaction
each; a failure between any two ends the tick, which is repeated.
**AutoScorer** (`worker.py:244-448`, `batch_scorer.py`): `Pick` samples traces
without scores, `Load` reads their answers, `Score` and `Persist` judge and write,
while spans arrive.

**Partitions** (`partitioning.py`, migration 003, the daily loop of
`api/main.py`). Days are numbered and a month has `Days` of them; `Upgrade` moves
the legacy rows, `Ensure` and `Drop` are the two SQL functions, `Insert` finds a
partition or is refused. The cutoff follows the longest retention, which is
30 days when no tenant has one (`Longest`).

**SdkTracing** (`client.ts`, `tracer.ts`, `instrumentation/*.ts`): a call's kind
says who ends its span; streams are read by any number of loops, each of which
may be left. **Instrumentor** (`instrumentor.py`): invocations that overlap patch
and unpatch the nodes of their graphs through one dictionary.

**Detection** (`failure_detection.py`, `heuristics.py`, `llm_judge.py`,
`cost_spike.py`, the MCP classifier). Each report of an agent grows a trace in three
forms: the rows of the API (`RowOf`), the records of the collector, whose tokens are
elsewhere (`RecordOf`), and the dictionaries that a client gives to the tool (`DictOf`), where a
key may be missing or None. The rules of the watchdog (`Analyze`), of heuristics.py
(`RunAll`, which raises on None tokens) and of the tool (`RunTool`, with its own
names) are separate operators.
**ProtocolChoice** (`protocol_selector.py`, the snapshot of `worker.py`) and
**EvalVerdict** (`judge.py`, `regression.py`, `statistics.py`, `benchmark.py`,
`gate.py`): arithmetic over small integers: means are compared as fractions. Where the code
compares floats that are equal as fractions, or differ by less than the rounding of
the report to four decimals (`Below`, `Near`), the comparison of a verdict goes either way.

**MCServices** and **MCDecisions** put modules that share no state into one run:
the variable `service` (or `subject`) says which of them takes steps, the others
keep their initial states. What is checked is each module by itself.
**MCGroupRuns** gives GroupRuns names that it does not share with GroupSolve.

## 3. Properties

Each module's comments state its properties; these are the ones to read first.

* `OnlyCancelLoses`, `UsageCountedOnce` (writer): before stop() returns nothing
  is forgotten but the batch of the loop that stop() cancelled; token rows are
  one per record plus one per lost COMMIT reply, and a record that has usage has its
  span row exactly with one. `EventuallyStored` promises nothing while the writer
  holds a record that the database refuses.
* `LedgerSpec` (writer, SDK): the refinement of SpanLedger, with `FateOf` as
  the mapping.
* `DeliveryIsSafe` (SDK): the server never has a span before all that were
  finished earlier, through every retry and put-back, and twice only after a
  lost answer.
* `AcknowledgedStored`, `SpansHaveTrace`, `OnlyProcessEndLoses`,
  `DuplicatesExplained` (collector): an answered 200 means stored; no spans
  without their trace although no foreign key exists; nothing lost but by the
  end of a process; no copy that is not a client's or an unseen commit's.
* `ClassificationsAreSafe`, `RollbackLosesNothing`, `SelectedIsClassified`
  (watchdog): a classification and its finished action appear together, at most
  once per watchdog; a rolled-back scan passes over nothing, a restart only over
  what is older than the look-back (`outdated`); what is selected is classified.
* `WindowsAreSafe`, `NoDuplicateInWindow` (alerts).
* `RunsAreSafe`, `SettledIsFinal`, `AcceptedIsSettled` (group runs): a settled run
  is changed by nothing but the sweep of another process, which may have selected
  it before it settled, and by the task that writes over such a sweep.
* `ClaimsAreSafe`, `PassedIsApproved`, `PostedIsSettled` (evaluation runs).
* `ConvergedIsAgreed`, `RoundsStayInBudget`, `ResultFitsStatus`, `SolveEnds`
  (collaboration): a run converges in the first round whose answers agree, and in
  no other; no round begins with the budget spent; what the result says fits the
  status; solve() ends whatever its calls do.
* `ReadersMissOnlyLate`, `RefusedIsBusy`, `LatestAnswerHolds`,
  `RulesShareChannels` (API): the races under which a reader misses a row, a
  member's role is not the acknowledged one or two placeholders exist are named
  in the property, and there are no others.
* `DaysAreJudgedOnce` (golden runs): one run a day; a run that was compared alerted
  exactly when it is worse than the last earlier one; and a completed run was compared
  unless a tick stopped with it (`stranded`). `EveryTenantIsRun`, `ScoredOnce`
  (auto-scorer), `RowsKept` (partitions), `SpanSentOnce` (SDK tracing),
  `NodesRestored` (instrumentor).
* `DetectorsAgree`: what heuristics.py finds in the records the watchdog finds in
  the rows, the tool and heuristics.py answer alike but for the names of spans and
  None tokens; a verdict of the tool outlives the growth of the trace.
  `ChoiceFollowsHistory`: a recommendation is dominated by no other protocol.
  `VerdictsHold`: the test of significance passes nothing that the comparison fails,
  and fails what it passes only at a fall which is the threshold up to rounding; a
  better answer fails no run, and the gate counts errors.

`TypeOK` is one conjunct of the invariants whose name ends in Safe (or of
`ResultFitsStatus`, `DetectorsAgree`, `ChoiceFollowsHistory`, `VerdictsHold`); section 6
says of which modules it is proved.

## 4. Runs

| Run | Module, configuration | Distinct states | Question |
|---|---|---|---|
| writer | BatchWriter, BatchWriter | 2,051 | safety, liveness and refinement of the writer |
| sdk_queue | SdkSpanQueue, SdkSpanQueue | 4,982 | order, duplicates, delivery and refinement of the SDK queue |
| collector | MCCollector, Collector | 21,675 | the collector with two processes, errors and crashes |
| watchdog | Watchdog, Watchdog | 291,055 | two watchdogs, rollbacks, failed commits, restarts |
| alerts | MCAlertRouter, AlertRouter | 393,390 | two dispatchers, three rules, two channels |
| group_runs | MCGroupRuns, GroupRuns | 124,392 | two processes that crash, restart and sweep, the limit |
| eval_runs | MCEvalRuns, EvalRuns | 16,550 | two workers, three runs, a failure, a retry |
| eval_retry | MCEvalRuns, EvalRunsRetry | violation | may the retry statement meet a live worker? |
| group_solve | MCGroupSolve, GroupSolve | 356,467 | five protocols, three teams, two budgets |
| services | MCServices, Services | 1,273,055 | nine services, one at a time |
| partitions_expired | MCPartitions, PartitionsExpired | violation | are expired partitions dropped? |
| decisions | MCDecisions, Decisions | 327,033 | detectors, protocol choice and verdicts |

**Bounds.** Each is a CONSTANT with a comment, and only guards of the
environment read it.
Writer: three records with a threshold of two make two flushes overlap with a
third record arriving; two callers, the loop and stop() make every pair of
flushes possible; one record has no usage, and one is refused; MaxCopies 2 lets the reply of a retried commit be lost again.
SDK: six spans with batches of two give three generations of batches, one of
which waits behind a retried one; the sixth is refused by the server, so
refusal meets the retries of earlier spans.
Collector: two processes (one with the loop), two records (one does not parse),
each sent twice, two database errors: a record that is sent again brings its
trace into a second flush.
Watchdog: two agents, one trace with up to two failures, two instants, one
failed scan, commit or restart, a look-back of less than an instant, so that a
restart may leave traces behind; one trace suffices because a scan treats traces
one by one and only `seen`, `dropped` and `selected` join them.
Alerts: two rules of different windows on one channel, a third rule on another
channel, two failure types, three failures; dispatchers are symmetric.
Group runs: two runs against a limit of one, a clock of three ticks with an
hour and an orphan age of one tick, two crashes, of a sweep too.
Evaluation: three runs (one without cases), one failure and one retry.
Collaboration: teams of two and three agents, three rounds, budgets that are
spent in the second round and never; two texts with one key and not similar.
Services: three rows of which two may share an instant, pages of one row; two
buckets with different limits and a window of two seconds; two addresses, three
requests, two roles and one that does not exist; three rules (so that two have
a placeholder while a third is created), two channels; two
processes, two tenants and two days with one failure (a second day needs the
comparison, a second tenant the order); two traces with two spans; seven days of
months of two, so that four months pass and retentions of one tenant end before
those of the other; two calls with two readers and one chunk; three graphs, of
which two share the name of a node, and four invocations, two at a time.
Decisions: traces of four spans with thresholds of three, three group runs, three
cases of two dimensions with a threshold of a twelfth, so that the falls of three cases
in quarters meet it exactly, 21 scenarios (20 make one failure exactly 5%).
The runs that expect a violation are smaller: one run without failures for eval_retry,
one tenant and three days for partitions_expired.
CHECK_DEADLOCK is FALSE where the model ends: the program stops
after stop() or shutdown(), or its clock, requests and runs are used up; in
GroupSolve it is checked, with the step `Done` of a finished run.

**Fairness.** Writer: the loop wakes and cancellation is delivered (weak: the
event loop runs ready tasks); strong fairness of `Committed` says that a
database that is asked again and again sometimes commits a batch without a refused
record, which a permanent outage would falsify, and then nothing can be stored. SDK: the timer fires and
attempts are answered (fetch has a timeout); strong fairness of `Ok` as above; the
application is not fair.
Collector: weak fairness of getting the asyncio lock, of the loop (it sleeps
5 s) and of the statements of a transaction; errors are bounded, crashes and
clients are not fair. Watchdog, GroupRuns, EvalRuns: loops wake, statements and
tasks return, a platform restarts a process, whose sweep ends; failures, requests and operators
are not fair. GroupSolve: weak fairness of the
event loop, since the client's calls have a time-out. Services: only GoldenRuns
promises anything in the end; its loops wake, its failures are bounded.

## 5. Where the code and its documents differ

Two runs exhibit these; `PROJECT.json` has each as a finding:

* `worker.py:66-68`, the retry statement: run while a worker still executes the
  run it hands the run to a second one, which finds the report instead of the
  cases and lets it pass (eval_retry, `PassedIsApproved`).
* `partitioning.py:86` "Drop monthly partitions": the pattern of migration 003:215
  does not match the bound of a timestamptz column, so that nothing is dropped
  (partitions_expired, `ExpiredIsDropped`).

These are behaviours of the models too. The formula in brackets says what the
document says; it is no property of a run, and TLC refutes it where it is added to
one:

* `writer.py:25` "regardless of batch size": the statements of the writer do not fit
  the tables of the migrations (columns, and the key of ON CONFLICT), so that every
  batch is put back for ever; one refused record suffices (BatchWriter, with
  `Refused = Record`: `r \in accepted ~> r \in stored \/ stopping # "no"`).
* `client.ts:156-159` on shutdown: during a flush it returns at once, and what
  was queued meanwhile is sent only if flush() is called again (SdkSpanQueue, under a
  server that answers every request: `closed ~> queue = {} /\ flights = {}`).
* `client.ts:95-96` "all chat completion calls": a stream that is left early has
  no span (SdkTracing: a call that was read and has no reader has its record in `sent`).
* `span_processor.py:48` "Create trace record if it doesn't already exist": two
  flushes insert two rows, and from then on the lookup raises (Collector:
  `traceRows[t] <= 1`).
* `watchdog_agent.py:52` "traces created since last check": a trace whose
  transaction began before the end of a scan and committed after its SELECT is
  never selected (Watchdog: a stored trace is examined, or `created[t] >= lastCheck[a]`
  for an agent).
* `watchdog_agent.py:67` "Check if already classified": two watchdogs may both
  classify and alert (Watchdog: `failures[x] <= 1`).
* `multiagent_routes.py:71`: overlapping requests exceed the limit (GroupRuns:
  `Cardinality(Recent) <= Limit`).
* `multiagent_routes.py:125` "Errors are caught and recorded": a role that does not
  parse leaves the row pending (GroupRuns, without crashes: a run whose task has ended
  is settled).
* `protocols.py:186-188`: prose is to be a plain contribution, and counts as an empty
  update (GroupSolve: in the last two rounds of a converged blackboard every text is
  in `Empty`).
* `worker.py:567` "Upsert": two processes insert two golden runs of a day (GoldenRuns:
  no two rows have one tenant and one day).
* `worker.py:612` "fire alert on regression": the run of a tick that failed after the
  execution is compared by nobody, however often the tick is repeated (GoldenRuns:
  in the end every completed run that is `Dropped` has an alert).
* `rate_limit.py:18`: the members of the limiter's set are seconds, so that the default
  limits of 10,000 and 500 a minute (`config.py:128-129`) never refuse (RateLimit: two
  `Request` steps of a second against a limit of one both pass).
* `instrumentor.py:230`: invocations that overlap leave wrappers behind, and give
  a graph the function of another one (Instrumentor: without an active invocation
  every node has its own function and no wrapper).
* `heuristics.py:7` says "> 5 times" and counts 5 (Detection: `CheckLoop` finds names
  with more than LoopThreshold spans only).
* `classifier.py:3` "Mirrors": explicit None tokens raise in heuristics.py:60 and
  are zero in the tool, and the tool has more keys for a name (Detection:
  `RunAll(trace) = RunTool(trace)`).
* `statistics.py:107` "> threshold": the difference of two means in floating point
  is beyond the threshold where the mean of the differences meets it (0.95 - 1.0 is
  -0.05000000000000004), so that `worker.py:187` fails a run that the comparison
  passed (EvalVerdict: a run that the test fails has a dimension whose `TotalDelta` is
  below the threshold).
* `gate.py:44` "failure rate <= 5%": 1.0 - 0.95 > 0.05 in floating point, so
  exactly 95% is refused (EvalVerdict: a benchmark with one error in twenty and enough
  remedies passes).
* `writer.py:58` "flush any remaining data": stop() cancels the loop inside its
  transaction, and CancelledError is no Exception, so the batch is not put back
  (BatchWriter: `cut = {}`).

These are in the models and show in how a passing property is worded:

* `span-queue.ts:125` calls 4xx "not retriable", but the batch is put back and
  blocks the queue (the excuse of `EventuallyDelivered`).
* `alert_router.py:4-5`: an alert may be sent for a row that is then rolled back
  (`undone` in `AlertedIsPersisted`).
* `models.py:240`: two dispatchers that look the key up before either sets it
  both alert (`raced` in `NoDuplicateInWindow`), and the later SETEX may set
  the shorter window (`WindowGuarded`).
* `api/main.py:34` "orphaned by a previous process crash": the sweep also fails the
  old runs of another live process, and one that has completed since it was selected
  (`SettledIsFinal`, `OnlyOrphansSwept`), and a quick restart sweeps no young orphan.
* In `worker.py` an exception outside the try statement leaves a row unfinished
  (`stranded`).
* `watchdog_agent.py:26`: an agent that restarts after more than an hour passes over
  what it had not committed (`outdated`).
* `_last_check` advances before a commit that may fail (`dropped`).
* `routes.py:330`: rows that commit late, or share the instant of a batch's last
  row, never reach the stream; a row committed between COUNT and SELECT shifts a
  page (`late`, `between`, `Tied` in `ReadersMissOnlyLate`).
* `routes.py:581`: two overlapping requests create two placeholders, and so does
  a channel that was switched off (`excused` in `RulesShareChannels`).
* `rbac_routes.py:207`: an invitation with an unknown role leaves a user without
  a membership; its password is answered to nobody (`LatestAnswerHolds`).
* `worker.py:570`: the row of a process that stopped stays running (`stranded`).
* `worker.py:250`: traces that two processes pick are scored twice, and spans that
  arrive after the answer was read are not judged (`overlap`, `late`).
* `openai.ts:143`: a stream that is read twice has two records (`RecordPerEnd`), and
  a thrown empty string is no error (`tracer.ts:93`).
* `instrumentor.py`: an invocation that runs across uninstrument() calls the global
  that uninstrument() has cleared.
* The SDK sends "error" where the rules count "ERROR"; the watchdog looks at the total
  of one span where the heuristics add up prompts and completions, and the records
  that the collector makes have no tokens to add (`RulesAgree`).
* `protocols.py:267` "case-insensitive, normalized": texts match by their first 200
  characters (`Key`).
* `protocols.py`: the clusters of the consensus are greedy, so that with four or
  more agents a majority around one answer may be missed.
* `group_metrics.py:215`: the factor 0.8 applies to no run, since only a run that
  used up its rounds is completed (`RateShowsEarlyAgreement`); the model's
  objections are overruled by the regular expressions (229-231).
* `statistics.py:91`: without variance the effect size is 0, and the test fails no
  run that the threshold passes, however far it falls.
* A benchmark without any remedy never passes the gate.

Not visible in a model: `completed_at` of a compared evaluation run is assigned
after its session is closed (`worker.py:215`); the SDK's payload does not have
the fields that POST /ingest requires; `alert_router.py:56` fires rules of channels that were switched off;
the requests that write rules use `channels[0]` only; `worker.py:503-505` says
that the watchdog routes the row of failure_classifications that a regression
writes, but the watchdog reads traces only; the upgrade of migration 003 fails for
rows older than its first partition; `protocol_selector.py:140` divides by the sum
of the weights, which is zero when min_similarity is 0 and no problem is similar;
regressions of a snapshot are logged although `worker.py:687` says alert;
run_regression() passes when the runs have no case in common; process_span() drops
the completion tokens of a span without prompt tokens.

## 6. Proofs

TLAPS proves, for every value of the constants that satisfies the ASSUME of
the module (`Services` is the safety part of the run of that name):

| Theorem | Statement |
|---|---|
| BatchWriterTypeOK | `Spec => [](TypeOK /\ HeldOnce)` |
| BatchWriterOnlyCancelLoses | `Spec => []OnlyCancelLoses` |
| BatchWriterUsageCountedOnce | `Spec => []UsageCountedOnce` |
| BatchWriterImplementsLedger | `Spec => LedgerSpec` |
| CollectorAcknowledgedStored | `Spec => []AcknowledgedStored` |
| CollectorSpansHaveTrace | `Spec => []SpansHaveTrace` |
| CollectorOnlyProcessEndLoses | `Spec => []OnlyProcessEndLoses` |
| CollectorDuplicatesExplained | `Spec => []DuplicatesExplained` |
| SdkSpanQueueDelivers | `Spec => []DeliveryIsSafe` |
| SdkSpanQueueImplementsLedger | `Spec => LedgerSpec` |
| WatchdogClassificationsAreSafe | `Spec => []ClassificationsAreSafe` |
| WatchdogRollbackLosesNothing | `Spec => []RollbackLosesNothing` |
| AlertRouterWindowsAreSafe | `Spec => []WindowsAreSafe` |
| AlertRouterNoDuplicate | `Spec => NoDuplicateInWindow` |
| GroupRunsAreSafe | `Spec => []RunsAreSafe` |
| GroupRunsSettledIsFinal | `Spec => SettledIsFinal` |
| GroupsConvergeByAgreement | `Spec => []ConvergedIsAgreed` |
| GroupsStayInBudget | `Spec => []RoundsStayInBudget` |
| GroupsReportWhatHappened | `Spec => []ResultFitsStatus` |
| EvalRunsClaimsAreSafe | `CarefulSpec => []ClaimsAreSafe` |
| EvalRunsPassedIsApproved | `CarefulSpec => []PassedIsApproved` |
| VerdictsAreSound | `Spec => []VerdictsHold` (EvalVerdict) |
| DetectorsDoAgree | `Spec => []DetectorsAgree` (Detection) |
| ChoicesFollowHistory | `Spec => []ChoiceFollowsHistory` (ProtocolChoice) |
| DecisionsAreSound | `DecisionSpec =>` the three properties |
| ServicesReadersMissOnlyLate | `Services => []ReadersMissOnlyLate` |
| ServicesShareChannels | `Services => []RulesShareChannels` |
| ServicesLatestAnswerHolds | `Services => []LatestAnswerHolds` |
| ServicesRefuseBusy | `Services => RefusedIsBusy` |
| ServicesJudgeDaysOnce | `Services => []DaysAreJudgedOnce` |
| ServicesScoreOnce | `Services => []ScoredOnce` |
| ServicesKeepRows | `Services => RowsKept` |
| ServicesSendSpansOnce | `Services => []SpanSentOnce` |
| ServicesRestoreNodes | `Services => []NodesRestored` |

*BatchWriter.* None of the properties is inductive alone. `IInv` adds to TypeOK
and HeldOnce: `Phases` (which of running, loop and stopping go together, and
that callers have no batch once stop() runs: this is what makes stop()'s flush
the last); `Sources` (everything buffered, in a transaction or stored was accepted, and
`cut` is the loop's batch while stop() waits for it); `Rows` (a record that is
held has exactly as many token rows as lost replies, so committing it adds the
one that is allowed); and `Placed` (every accepted record is buffered, stored,
cut or in a transaction). Each action has a lemma. The refinement shows that
Write is the ledger's Accept, Committed and CommitReplyLost are Settle, the steps
of stop() are GiveUp, and the others leave the ledger as it is.

*Collector.* `IInv` adds `OwnBatch` (the flight of an ingest holds the record
of that ingest, so a commit that answers 200 has stored it) and `TracesReady`
(a trace of a flight's batch that is no longer to do has a row or is made by
the flight, so a commit leaves no span without its trace), and the three safety
properties themselves. The assumptions used are those of the module: TraceOf is
a function from records to traces, and the names Loop and Nobody are no records.
DuplicatesExplained is about the number of copies in the database, and a step
moves copies between requests, buffers, flights and rows; `CopiesCounted` therefore
bounds their sum. Since buffers and flights are sets, the sum is written as the
cardinality of the set of pairs of a holder and a number up to its copies, whose
changes the theorems about finite sets describe without an induction.

*SdkSpanQueue.* `OneFlight` (`flushing` is set exactly while a flush is under way,
of which there is one), `HeldOrTaken` (what was enqueued is in the queue, in the
flush, or was taken by the server), `InOrder` (what is held is the latest, and a flush
has earlier spans than the queue: a batch that is put back in front keeps this)
and `TakenUnseen` (what is held was taken only by requests whose answer was
lost) make the order of delivery inductive. In the refinement Enqueue is Accept,
`Ok` and `ReplyLost` are Settle, Shutdown is a GiveUp that gives nothing up, and the
other steps stutter: a span that the queue holds after shutdown() may still be sent by a
later flush(), so that it is pending as long as the process is there.

*Watchdog.* ClassifiedOnce counts committed rows, which says nothing of open
transactions. `RowsBounded` counts with them the watchdogs that hold the failure
in an open scan: rows and holders of a failure are no more than there are
watchdogs. `RecordedOnce` (a scan examines a trace once) keeps a watchdog from
being two holders, `ScanShape` says that a sleeping scan holds nothing, and
`SelectedInScan` follows what was selected to the commit, which is what
RolledBackIsReselected needs; a restart adds what it leaves behind to `outdated`.
Assumed: there are finitely many watchdogs.

*AlertRouter.* The window starts when the channel answers, and the key is set one
call later. `FiresAfterWindow` and `MarksItsWindow` say what a dispatcher between
these calls may rely on, `RacesAreSeen` that two dispatchers which fire for one
key are in `raced`. Without the last, neither survives the step of the other.

*GroupRuns.* `RowComesFirst` and `LiveIsPending` say what the row of a run shows
while its task is alive, so that a task that ends writes over nothing but a pending
row or one that another process has swept; `OwnSweepIsDead` that what a process selects
for its own sweep has not been executed by it since; `RoomForAllowed` counts the request
that was let through with the rows that the limit counts, as long as no two
requests overlap.

*GroupSolve.* The properties speak of what was said in the last round; what keeps
them is how a round is spent. `Settling` says which statuses a phase may have
(within a round only a debate's verdict ends the run, and only the last round
completes it), `TurnTaking` that the calls to come are exactly those of the agents
that have not spoken, in the order of the team, `Delegating` that a round of a
delegation is plan, reports and summary, and `Streaks` that the counter of a
blackboard counts the rounds without an update, in JSON or in prose, up to the two
that matter.
With `VerdictEnds` (the judge's verdict is the last thing said) and `Agreement`
(no earlier round had agreed, a converged run's last round has) the end of a
round decides rightly; `Outputs` has an output for every end, `Paid` keeps the cost
of the earlier rounds below the budget, `Reported` fixes the rate in the report.
The proof needs sums over the messages and least and greatest elements of finite
sets; both come from the well-foundedness of the naturals.

*EvalRuns.* ClaimsAreSafe does not say what a worker finds in the row that it is
about to write, so `IInv` adds what it may expect of it: `OneEach` (an idle worker
has no run, any other has one), `RowOfRun` (the row is pending while its claim is
not committed, running until the outcome, completed during the audit),
`HeldByOne` (no two workers are between the claim and the outcome of one row) and
`VerdictIsApproved` (a report that passes has the comparator's verdict).
RowOfRun is where the retry matters: it resets running rows to pending, and it is
an invariant only because CarefulSpec has no retry while a worker executes. With
the retry of Spec it fails, and PassedIsApproved with it: that is run eval_retry.

*The decisions* (EvalVerdict, Detection, ProtocolChoice). Their totals are folds over
finite sets, of which the library proves nothing. `Adding` shows that a total
satisfies the equation of a sum on every subset, by `Peeling`, an induction over the
subsets of a finite set that rests on the well-foundedness of the naturals; from it
follow that sums are monotone, additive, no less than each of their summands, and
independent of the order (`SumMonotone`, `SumOfDifferences`, `SumAtLeast`, `AnyFirst`).
*EvalVerdict:* what the test of significance sees is beyond the threshold of
run_regression(), or near it (`ThresholdIsDimRegresses`), and a run that the comparison
passed is not beyond it, so only the second is left (`SignificantIsNear`). Nothing is
assumed of how a float comes out within that distance. `Counted` (a scenario is correct
or an error, and none is both kinds of error) is what the gate's inequality needs.
*Detection:* `Corresponding` relates the three forms of the trace span by span
(`SpansAgree`), so that what two rules see alike is proved once (`RulesSeeTheSame`);
the token counts are any numbers, missing or None, and the total is independent of them.
`StillFound` keeps the witness of the tool's answer, which every report that arrives
leaves in place.
*ProtocolChoice:* a weighted mean lies between the least and the greatest of what
it is the mean of (`WeightedMean`), so that two protocols of which one is nowhere
worse have their fractions in that order (`CriteriaOrder`, `Apart`), and the weighted
criteria keep it (`CombinedOrder`). Being outdone is a strict order of the candidates,
so that exactly one is outdone by none (`OneUnbeaten`, `SomeRecommended`).
`ChoiceInv` says of a snapshot that its scores are the means of the runs that it saw,
whatever was appended since (`Shown`), that the snapshots are in the order of their
days (`Dated`), and that each was compared with the one before (`Compared`).
The `ConstantsOK` of a module says only that scores, costs and thresholds are
numbers, that costs, weights and similarities are not negative, and the like;
`DecisionConstants` assumes all three, and TLC evaluates it for the constants of the
run. A step of the run's own specification is a step of one module and leaves the
others alone, so the theorems hold of it as well (`DecisionsAreSound`).

*ServicesProofs* has one section for each of nine services; `OneService` says that a
step of one leaves the variables of the others alone.
FailureFeed: the stream is never behind what it has sent (`StreamGoesOn`), so a row
that it passes over was not visible when a newer one was sent; of a client's pages,
a row that was there at the beginning and was not yet seen is on a page to come,
because the newer rows are no fewer than the offset (`PageToCome`), unless a commit
came between COUNT and SELECT or two rows share an instant.
AlertRules: a request that has found no channel will make one, so `NoneFoundTwice`
says that two such requests of a type are excused, `NoneFoundIsExcused` that a
placeholder which exists meanwhile is, `OffIsExcused` that one switched off is.
Membership: the answer to the latest request rests on what that request, if alone,
has found and done (`LatestIsUndisturbed`), and on no other having begun before it
ended or after it (`AloneIsLatest`); who has the stored password follows from
`InvitedHasUser`, `UserWasInvited`, `MakerWasFirst` and `FirstIsMaker`, since an
invitation before the one that made the user must have crashed.
RateLimit: the members of the sorted set are seconds in which requests came.
GoldenRuns: two processes at work on a tenant are in `overlap` (`WorkOverlaps`);
without it a process works on the latest run of its tenant, which is new
(`WorksOnLatest`), holds its row alone (`HeldByOneProcess`), and no run older than
one that was compared is still at work (`ComparedIsSettled`): so the run that was
compared with stays the last one of an earlier day. A completed run that is not
compared is in the hands of a process or `stranded`. That a finite set of rows has
a latest one is proved by a smallest counterexample (`Greatest`).
AutoScorer: what a process has read is the whole answer or late
(`AnswersAreWhole`), and what it holds no other holds and has no score, unless
shared (`HeldOnce`, `HeldByOne`, `HeldIsUnscored`).
Partitions: stored rows have a partition, and so have the months that the last
maintenance looked after (`RowsHavePartitions`, `EnsuredAreThere`); the rest is
the arithmetic of months. The proof of the retention uses the bound of `Expired`
only, so it would hold also if the pattern of the SQL function matched.
SdkTracing: the records of a call are counted by the loops that ended (`Recorded`),
and what one loop read alone is all that was received (`ReadAlone`, `Whole`).
Instrumentor: a remembered function was wrapped by an invocation that is at work
(`RememberedByWorking`), and one that is alone remembers all of its nodes
(`AloneRemembersAll`), so that its end unwraps each of them.
The modules assume what the code gives them: finitely many tenants and readers,
requests about known addresses, a window of at least a second, at least one tenant
in the list of a tick (with none it does nothing).

Every invariant and action property of a passing run, and both refinements, are
proved. Only model-checked: everything under fairness (EventuallyStored,
EventuallyDelivered, SelectedIsClassified, AcceptedIsSettled, PostedIsSettled,
SolveEnds, EveryTenantIsRun), since neither liveness nor ENABLED is in reach of the
prover. The two runs that expect a violation are TLC's alone as well.

## 7. Not modelled, and the plan

Still to be done, the most important first:

1. Watchdog composed with AlertRouter, one scan's dispatch being the router's.
2. GoldenRuns composed with EvalRuns through the shared table: the retry
   statement resets golden rows too.
3. Two tenants in AutoScorer, two processes in Partitions.

Abstracted, where it matters: the scores of a recommendation and the means of a snapshot
are exact fractions (the code rounds them to four decimals before it compares, so that
protocols which differ by less may change places); what a stream of a vendor throws is
an Error, never an empty string; which record the database refuses is fixed.

Left out, and why:

* `collector/queue.py` (Redis Streams): nothing in the repository publishes to it
  or consumes from it; entries that were delivered and not acknowledged would
  never be read again.
* The remediation handlers `retry.py`, `swap_tool.py` and `escalate.py`: calls of
  other services, one step of Watchdog.
* `prompt_injection.py`, `semantic_drift.py` (regular expressions, TF-IDF),
  `calibration.py`, `meta_eval.py` (reports of correlations), prices and costs
  (a table and sums), OTLP parsing, schemas, keys and scopes (single queries).
* `langgraph_instrumentor.py`, `internal_tracing.py`: wrappers of the OpenTelemetry
  SDK, which does the buffering.
* The dashboard, the MCP server but for its classifier, the example agent and the
  scripts: clients without state that others depend on.
* Migrations but for 003.
