------------------------------ MODULE MCServices ------------------------------
(* The small services of the system, one at a time: they share no state, and   *)
(* `service` names the one whose steps are taken.                              *)
EXTENDS MCApi, Sequences

CONSTANTS Process, Tenants, Outcomes(_, _), MaxDay, MaxErrors
CONSTANTS MaxTraces, MaxSpans, BatchSize, Overfetch
CONSTANTS Tenant, Retention, Days, LegacyRows, FirstDay, LastDay, MaxRows, MaxFailures
CONSTANTS Call, Reader, Kind, MaxChunks
CONSTANTS Graph, Node, Invocation, NodesOf, MaxInvocations

VARIABLES day, loop, lastRun, rows, alerts, compared, overlap, stranded, errors
VARIABLES spans, traceAnswer, recent, scores, tick, shared, lateTraces, failed
VARIABLES today, legacy, partitions, stored, maintenance, made, refused, ensured, expired, failures
VARIABLES call, stream, reader, sentSpans, closed, dropped
VARIABLES installed, nodes, patched, running, started, overlapped

Golden == INSTANCE GoldenRuns WITH last <- lastRun
Scorer == INSTANCE AutoScorer WITH
  answer <- traceAnswer, overlap <- shared, late <- lateTraces, errors <- failed
Storage == INSTANCE Partitions WITH loop <- maintenance
Tracing == INSTANCE SdkTracing WITH sent <- sentSpans
Patching == INSTANCE Instrumentor

ASSUME ServicesAssumption ==
  /\ Golden!GoldenRunsAssumption /\ Scorer!AutoScorerAssumption /\ Storage!PartitionsAssumption
  /\ Tracing!SdkTracingAssumption /\ Patching!InstrumentorAssumption

goldenVars == <<day, loop, lastRun, rows, alerts, compared, overlap, stranded, errors>>
scorerVars == <<spans, traceAnswer, recent, scores, tick, shared, lateTraces, failed>>
storageVars == <<today, legacy, partitions, stored, maintenance, made, refused, ensured, expired, failures>>
tracingVars == <<call, stream, reader, sentSpans, closed, dropped>>
patchingVars == <<installed, nodes, patched, running, started, overlapped>>
vars == <<service, apiVars, goldenVars, scorerVars, storageVars, tracingVars, patchingVars>>

\* Two tenants, two days; the run of the second day may be worse, or fail.
MCTenants == <<"t1", "t2">>
MCOutcomes(t, d) == IF t = "t1" /\ d = 2 THEN {"low", "failed"} ELSE {"high"}
MCRetention == [t \in {"t1", "t2"} |-> IF t = "t1" THEN 1 ELSE 3]
\* One row that the partitions of the migration take, and one that is too old.
MCLegacyRows == {[tenant |-> "t1", day |-> 1], [tenant |-> "t1", day |-> 3]}
\* Two graphs with a node of one name, and a third.
MCNodesOf == [g \in {"g", "h", "k"} |-> IF g = "k" THEN {"b"} ELSE {"a"}]

\* The services that are not at work keep one state.
Init ==
  /\ ApiInit /\ Golden!Init /\ Scorer!Init /\ Patching!Init
  /\ \/ /\ service \in {"feed", "limit", "members", "alerts", "golden", "scorer", "patching"}
        /\ Storage!Init /\ legacy = {}
        /\ Tracing!Init /\ call = [c \in Call |-> [kind |-> "manual", at |-> "new", trace |-> c, ended |-> FALSE]]
        /\ \A c \in Call : stream[c].left = 0
     \/ /\ service = "storage" /\ Storage!Init
        /\ Tracing!Init /\ call = [c \in Call |-> [kind |-> "manual", at |-> "new", trace |-> c, ended |-> FALSE]]
        /\ \A c \in Call : stream[c].left = 0
     \/ /\ service = "tracing" /\ Tracing!Init
        /\ Storage!Init /\ legacy = {}

OthersRest == UNCHANGED <<service, apiVars, scorerVars, storageVars, tracingVars, patchingVars>>

GoldenNextDay == service = "golden" /\ Golden!NextDay /\ OthersRest
GoldenStep(p) == service = "golden" /\ Golden!Step(p) /\ OthersRest

Next ==
  \/ ApiNext /\ UNCHANGED <<service, goldenVars, scorerVars, storageVars, tracingVars, patchingVars>>
  \/ service = "golden" /\ Golden!Next /\ OthersRest
  \/ /\ service = "scorer" /\ Scorer!Next
     /\ UNCHANGED <<service, apiVars, goldenVars, storageVars, tracingVars, patchingVars>>
  \/ /\ service = "storage" /\ Storage!Next
     /\ UNCHANGED <<service, apiVars, goldenVars, scorerVars, tracingVars, patchingVars>>
  \/ /\ service = "tracing" /\ Tracing!Next
     /\ UNCHANGED <<service, apiVars, goldenVars, scorerVars, storageVars, patchingVars>>
  \/ /\ service = "patching" /\ Patching!Next
     /\ UNCHANGED <<service, apiVars, goldenVars, scorerVars, storageVars, tracingVars>>

\* The fairness of GoldenRuns; the others promise nothing.
FairSpec ==
  /\ Init /\ [][Next]_vars
  /\ WF_vars(GoldenNextDay) /\ \A p \in Process : WF_vars(GoldenStep(p))

\* worker.py:567: a tenant has one golden run a day unless two processes looked for
\* it together, and a run that is left behind was left by its process.
\* (worker.py:620) A worse run alerts, compared with the last one before its day.
DaysAreJudgedOnce == Golden!DaysAreJudgedOnce
\* worker.py:657: also the tenants behind one that failed get their run of the day.
EveryTenantIsRun == service = "golden" => <>(\A i \in DOMAIN Tenants : Golden!RowOf(Tenants[i], MaxDay) # {})
\* worker.py:250: a trace is judged once, on its whole answer.
ScoredOnce == Scorer!ScoredOnce
\* partitioning.py:11: rows find a partition and stay for their retention.
RowsKept == Storage!RowsKept
\* openai.ts:143: each call that ended has one record, with the whole answer.
SpanSentOnce == Tracing!SpanSentOnce
\* instrumentor.py:230: invocations put the functions of the nodes back.
NodesRestored == Patching!NodesRestored

=============================================================================
