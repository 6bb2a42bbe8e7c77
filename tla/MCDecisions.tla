----------------------------- MODULE MCDecisions -----------------------------
(* The algorithms that decide, one at a time: they share no state, and           *)
(* `subject` names the one whose inputs grow.                                    *)
EXTENDS Naturals

CONSTANTS Reports, Replies, TimeoutMs, LoopThreshold, ContextTokens, RunawayTokens, MaxSpans, Absent, Null
CONSTANTS Runs, ProtocolOrder, Problems, Similarity(_, _), MinSimilarities, TopKs, Threshold
CONSTANTS Window, MaxRuns, MaxDay, NoScore
CONSTANTS Dims, Weight, Steps, Raw, OneIn, MaxCases, Scenarios, MaxScenarios

VARIABLES subject, rows, records, trace, verdict
VARIABLES runHistory, today, snapshots
VARIABLES judged, report, significant, rigorous, results

Detect == INSTANCE Detection
Choice == INSTANCE ProtocolChoice WITH history <- runHistory
Verdict == INSTANCE EvalVerdict

ASSUME DecisionConstants == Detect!ConstantsOK /\ Choice!ConstantsOK /\ Verdict!ConstantsOK

\* A span: the key of its name, the name and whether that names a model, milliseconds,
\* status, tokens, output.
Span(k, n, l, ms, st, p, c, t, o) ==
  [key |-> k, name |-> n, llm |-> l, ms |-> ms, status |-> st, prompt |-> p, completion |-> c, total |-> t, output |-> o]

\* "error" is the status that the JavaScript SDK sends; the rules count "ERROR".
MCReports == {
  Span("span_name", "a", FALSE, 1, "OK", Absent, Absent, Absent, FALSE),
  Span("name", "a", FALSE, Null, "ERROR", Absent, Absent, Absent, FALSE),
  Span("span_name", "b", FALSE, 7, Absent, Absent, Absent, Absent, FALSE),
  Span("span_name", "llm", TRUE, 4, "error", 3, 2, 9, TRUE),
  Span("span_name", "llm", TRUE, 1, "ERROR", 2, Null, 2, FALSE),
  Span(Absent, "llm", TRUE, Absent, "OK", 3, 1, 7, FALSE)}

Reply(t, c, r) == [type |-> t, confidence |-> c, reasoned |-> r]
MCReplies == {
  Reply("retryable", 0, FALSE), Reply("error", 0, FALSE), Reply("garbled", 0, FALSE),
  Reply("tool_misuse", 9, TRUE), Reply("tool_misuse", 5, TRUE), Reply("hallucination", 8, FALSE),
  Reply("no_failure", 9, TRUE), Reply("other", 8, TRUE)}

GroupRun(p, st, score, cost, problem) ==
  [protocol |-> p, status |-> st, score |-> score, cost |-> cost, problem |-> problem]
MCRuns == {
  GroupRun("debate", "completed", 9, 3, "p"), GroupRun("debate", "failed", NoScore, 0, "q"),
  GroupRun("debate", "converged", 7, 1, "q"), GroupRun("round_robin", "completed", 4, 1, "r"),
  GroupRun("round_robin", "completed", 7, 3, "q")}
MCProtocolOrder == <<"round_robin", "debate">>
MCSimilarity(a, b) == IF a = b THEN 2 ELSE IF {a, b} = {"p", "q"} THEN 1 ELSE 0

MCWeight == [d \in Dims |-> IF d = "faithfulness" THEN 22 ELSE 18]
MCScenarios ==
  {[bad |-> TRUE, outcome |-> o] : o \in {"remedied", "remedy_fails", "missed", "raises"}}
    \union {[bad |-> FALSE, outcome |-> o] : o \in {"missed", "remedied"}}

traceVars == <<rows, records, trace, verdict>>
choiceVars == <<runHistory, today, snapshots>>
verdictVars == <<judged, report, significant, rigorous, results>>
decisionVars == <<subject, traceVars, choiceVars, verdictVars>>

DecisionInit ==
  /\ subject \in {"trace", "history", "scores"}
  /\ Detect!Init /\ Choice!Init /\ Verdict!Init

DecisionNext ==
  /\ UNCHANGED subject
  /\ \/ subject = "trace" /\ Detect!Next /\ UNCHANGED <<choiceVars, verdictVars>>
     \/ subject = "history" /\ Choice!Next /\ UNCHANGED <<traceVars, verdictVars>>
     \/ subject = "scores" /\ Verdict!Next /\ UNCHANGED <<traceVars, choiceVars>>

DecisionSpec == DecisionInit /\ [][DecisionNext]_decisionVars

\* failure_detection.py:33, heuristics.py:88, classifier.py:200 and llm_judge.py: the
\* implementations of the rules agree on every trace, at every moment of it.
DetectorsAgree == Detect!DetectorsAgree
\* protocol_selector.py:229 and worker.py:767: no better protocol is passed over, and a
\* protocol whose scores have fallen is named, once they have.
ChoiceFollowsHistory == Choice!ChoiceFollowsHistory
\* worker.py:187 and gate.py:92: a run is passed for its scores alone, a better answer
\* does not fail it, and the gate counts the errors.
VerdictsHold == Verdict!VerdictsHold

=============================================================================
