------------------------------ MODULE Detection ------------------------------
(* The rules that find the failures of a trace. They exist three times:         *)
(* FailureDetector reads the rows that the API stored, heuristics.py reads       *)
(* spans as the collector's process_span() makes them, and the classifier tool   *)
(* "mirrors" the heuristics before it asks a model, as does llm_judge.py.        *)
(* A report is what an agent says of one operation, which arrives on the three   *)
(* paths: a total of tokens is the attribute the API path reads, whatever the    *)
(* agent puts there; prompt and completion are what a client of the tool sends.  *)
EXTENDS Integers, Sequences, FiniteSets, FiniteSetsExt, Functions

CONSTANTS
  Reports,          \* [key, name, llm, ms, status, prompt, completion, total, output]
  Replies,          \* [type, confidence in tenths, reasoned] of a model's call, see Failed
  TimeoutMs, LoopThreshold, ContextTokens, RunawayTokens,
  MaxSpans,         \* bound on the spans of the trace
  Absent,           \* a field that the report does not have
  Null              \* a count that is there, and None

FailureTypes == {"tool_timeout", "infinite_loop", "context_overflow", "tool_misuse", "hallucination"}

\* The runaway threshold is 80,000 tokens, that of the context 120,000.
ConstantsOK ==
  /\ {TimeoutMs, LoopThreshold, ContextTokens, RunawayTokens, MaxSpans} \subseteq Nat
  /\ 0 < RunawayTokens /\ RunawayTokens < ContextTokens
  /\ Absent \notin {Null, "ERROR", "span_name"}
  /\ \A r \in Reports : {r.ms, r.prompt, r.completion, r.total} \subseteq Nat \cup {Absent, Null}

VARIABLES
  rows, records,    \* the spans of one trace, as the two paths store them, in the order of arrival
  trace,            \* the same spans, as a client sends them to the tool
  verdict           \* the last answer of the classifier tool: [type, by]

vars == <<rows, records, trace, verdict>>

OrZero(x) == IF x \in {Absent, Null} THEN 0 ELSE x
Capped(n, d) == IF n >= d THEN <<1, 1>> ELSE <<n, d>>
Positions(s) == 1..Len(s)
\* `of` is the span that is named, 0 for the whole trace.
Found(type, of, confidence) == [type |-> type, of |-> of, confidence |-> confidence]

RowOf(r) == [name |-> r.name, llm |-> r.llm, ms |-> OrZero(r.ms), total |-> OrZero(r.total),
             status |-> IF r.status = Absent THEN "OK" ELSE r.status, output |-> r.output]

\* process_span(): the counts are not in the span, they are a record of their own.
RecordOf(r) == [key |-> "span_name", name |-> r.name, ms |-> r.ms, prompt |-> Absent, completion |-> Absent,
                status |-> IF r.status = Absent THEN "UNSET" ELSE r.status]

\* A span as a client sends it: it is named by one of several keys, or by none.
DictOf(r) == [key |-> r.key, name |-> r.name, ms |-> r.ms, prompt |-> r.prompt, completion |-> r.completion,
              status |-> r.status]

Named(s, n) == {i \in Positions(s) : s[i].name = n}
Errors(s) == {i \in Positions(s) : s[i].status = "ERROR"}
TokensOf(span) == OrZero(span.prompt) + OrZero(span.completion)
Tokens(s) == SumFunction([i \in Positions(s) |-> TokensOf(s[i])])

\* --- failure_detection.py -----------------------------------------------------
Timeouts(s) ==
  {Found("tool_timeout", i, Capped(s[i].ms, 2 * TimeoutMs)) : i \in {j \in Positions(s) : s[j].ms > TimeoutMs}}

Loops(s) ==
  {Found("infinite_loop", Min(Named(s, n)), Capped(Cardinality(Named(s, n)), 2 * LoopThreshold)) :
     n \in {m \in {s[i].name : i \in Positions(s)} : Cardinality(Named(s, m)) >= LoopThreshold}}

Overflows(s) ==
  {Found("context_overflow", i, Capped(2 * s[i].total, 3 * ContextTokens)) :
     i \in {j \in Positions(s) : s[j].total > ContextTokens}}

Misuses(s) ==
  IF Cardinality(Errors(s)) < 2 THEN {}
  ELSE {Found("tool_misuse", 0, Capped(Cardinality(Errors(s)), 5))}

Hallucinations(s) ==
  LET called == {i \in Positions(s) : s[i].llm}
      empty  == {i \in called : ~s[i].output}
  IN  IF Cardinality(called) < 2 \/ 2 * Cardinality(empty) < Cardinality(called) THEN {}
      ELSE {Found("hallucination", 0, <<7 * Cardinality(empty), 10 * Cardinality(called)>>)}

Analyze(s) == Timeouts(s) \union Loops(s) \union Overflows(s) \union Misuses(s) \union Hallucinations(s)

\* --- heuristics.py: each check answers with one finding or with none ------------
CheckTimeout(s) ==
  LET slow == {i \in Positions(s) : OrZero(s[i].ms) > TimeoutMs}
  IN  IF slow = {} THEN {} ELSE {Found("tool_timeout", Min(slow), Capped(s[Min(slow)].ms, 2 * TimeoutMs))}

\* The first name that occurs so often.
FirstLoop(s, least) ==
  LET repeated == {i \in Positions(s) : Cardinality(Named(s, s[i].name)) >= least}
  IN  IF repeated = {} THEN {}
      ELSE LET n == s[Min(repeated)].name
           IN  {Found("infinite_loop", Min(Named(s, n)), Capped(Cardinality(Named(s, n)), 2 * LoopThreshold))}

\* A name is what is under "span_name".
SpanNames(s) == [i \in Positions(s) |-> [s[i] EXCEPT !.name = IF s[i].key = "span_name" THEN @ ELSE "unknown"]]

\* Mutant of CheckLoop: as heuristics.py:7 has it, more than so many spans of one node.
CheckLoopMore(s) == FirstLoop(SpanNames(s), LoopThreshold + 1)

CheckLoop(s) == FirstLoop(SpanNames(s), LoopThreshold)

\* get() has a default for a count that is absent, None cannot be added.
CheckOverflow(s) ==
  IF \E i \in Positions(s) : Null \in {s[i].prompt, s[i].completion} THEN {Found("TypeError", 0, <<0, 1>>)}
  ELSE IF Tokens(s) <= ContextTokens THEN {}
  ELSE {Found("context_overflow", 0, Capped(2 * Tokens(s), 3 * ContextTokens))}

CheckMisuse(s) ==
  IF Cardinality(Errors(s)) < 2 THEN {}
  ELSE {Found("tool_misuse", 0, Capped(Cardinality(Errors(s)), 5))}

\* The first check that answers.
FirstOf(checks) ==
  LET hits == {k \in 1..4 : checks[k] # {}}
  IN  IF hits = {} THEN {} ELSE checks[Min(hits)]

RunAll(s) == FirstOf(<<CheckTimeout(s), CheckLoop(s), CheckOverflow(s), CheckMisuse(s)>>)

\* --- classifier.py repeats them, but for the names and the counts ------------------
\* _normalize_span(): a name may be under another key.
Normalized(s) == [i \in Positions(s) |-> [s[i] EXCEPT !.name = IF s[i].key = Absent THEN "unknown" ELSE @]]

ToolLoop(s) == FirstLoop(Normalized(s), LoopThreshold)

ToolOverflow(s) ==
  IF Tokens(s) <= ContextTokens THEN {}
  ELSE {Found("context_overflow", 0, Capped(2 * Tokens(s), 3 * ContextTokens))}

RunTool(s) == FirstOf(<<CheckTimeout(s), ToolLoop(s), ToolOverflow(s), CheckMisuse(s)>>)

\* cost_spike.py: all of the tokens, or a span with seven tenths of them.
CostSpike(s) ==
  LET heavy == {i \in Positions(s) : TokensOf(s[i]) > 0 /\ 10 * TokensOf(s[i]) >= 7 * Tokens(s)}
  IN  IF Tokens(s) > RunawayTokens THEN {Found("cost_spike", 0, Capped(Tokens(s), 2 * RunawayTokens))}
      ELSE {Found("cost_spike", i, <<TokensOf(s[i]), Tokens(s)>>) :
              i \in {j \in heavy : j = Min(heavy)}}

\* --- The two judges ---------------------------------------------------------------
\* A call that raises, for a reason to retry or another, or whose text is no JSON.
Failed == {"retryable", "error", "garbled"}
IsAnswer(reply) == reply.type \notin Failed

\* _classify_with_llm of the tool: one call; any type, if it is confident.
ToolJudge(reply) ==
  IF ~IsAnswer(reply) \/ reply.confidence < 7 \/ reply.type = "no_failure" THEN {} ELSE {reply.type}

\* llm_judge.py tries three times when the error is one to retry, and checks the answer.
Attempted(calls) ==
  LET ended == {k \in 1..3 : calls[k].type # "retryable"}
  IN  IF ended = {} THEN calls[3] ELSE calls[Min(ended)]

Valid(reply) ==
  /\ reply.type \in FailureTypes \union {"no_failure"}
  /\ reply.confidence \in 0..10
  /\ reply.reasoned

LlmJudge(calls) ==
  LET reply == Attempted(calls)
  IN  IF ~IsAnswer(reply) THEN {}
      ELSE IF ~Valid(reply) \/ reply.confidence < 7 \/ reply.type = "no_failure" THEN {}
      ELSE {reply.type}

-------------------------------------------------------------------------------
Init ==
  /\ rows = <<>> /\ records = <<>> /\ trace = <<>>
  /\ verdict = [type |-> "no_failure", by |-> "nobody"]

\* A span arrives on the three paths.
Report(r) ==
  /\ Len(rows) < MaxSpans
  /\ rows' = Append(rows, RowOf(r))
  /\ records' = Append(records, RecordOf(r))
  /\ trace' = Append(trace, DictOf(r))
  /\ UNCHANGED verdict

\* classify_agent_failure(): the heuristics, then the model, then no failure.
Classify(reply) ==
  /\ trace # <<>>
  /\ LET found  == {f.type : f \in RunTool(trace)}
         judged == IF found = {} THEN ToolJudge(reply) ELSE found
     IN  \E type \in IF judged = {} THEN {"no_failure"} ELSE judged :
           verdict' = [type |-> type, by |-> IF found # {} THEN "heuristic" ELSE "model"]
  /\ UNCHANGED <<rows, records, trace>>

Next == (\E r \in Reports : Report(r)) \/ (\E reply \in Replies : Classify(reply))

Spec == Init /\ [][Next]_vars

-------------------------------------------------------------------------------
Types(findings) == {f.type : f \in findings}

TypeOK ==
  /\ Len(rows) = Len(records) /\ Len(rows) = Len(trace) /\ Len(rows) <= MaxSpans
  /\ verdict.by \in {"nobody", "heuristic", "model"}

\* heuristics.py:88 and failure_detection.py:33: what the first answers of the
\* collector's spans, the second finds in the rows, with the same confidence; and when
\* it answers nothing, the second finds at most what only the rows have, the outputs
\* and the totals.
RulesAgree ==
  /\ RunAll(records) \subseteq Analyze(rows)
  /\ RunAll(records) = {} => Types(Analyze(rows)) \subseteq {"hallucination", "context_overflow"}

\* heuristics.py:88 and classifier.py:126: the two answer alike of a trace whose spans
\* are named by "span_name" or not at all, unless the tokens are reached and are None.
CopiesAgree ==
  \/ \E i \in Positions(trace) : trace[i].key \notin {"span_name", Absent}
  \/ RunAll(trace) = {Found("TypeError", 0, <<0, 1>>)}
  \/ RunAll(trace) = RunTool(trace)

\* A trace that overflows the context is also a spike of its cost.
OverflowIsASpike == ToolOverflow(trace) # {} => CostSpike(trace) # {}

\* classifier.py:200: what the tool found by a rule is still found when the trace has
\* grown: by the watchdog, if the spans are named, or, for the tokens, by the sum.
VerdictOutlivesGrowth ==
  verdict.by = "heuristic" =>
    IF verdict.type = "context_overflow" THEN ToolOverflow(trace) # {}
    ELSE verdict.type \in Types(Analyze(rows)) \/ \E i \in Positions(trace) : trace[i].key = Absent

\* llm_judge.py is the stricter judge: the tool accepts whatever it accepts. (The
\* judges do not look at the spans: traces of one span show it.)
JudgesAgree ==
  Len(trace) = 1 =>
    \A a, b, c \in Replies : LlmJudge(<<a, b, c>>) \subseteq ToolJudge(Attempted(<<a, b, c>>))

\* The implementations of the rules agree on every trace, at every moment of it.
DetectorsAgree == TypeOK /\ RulesAgree /\ CopiesAgree /\ OverflowIsASpike /\ VerdictOutlivesGrowth /\ JudgesAgree

=============================================================================
