----------------------------- MODULE EvalVerdict -----------------------------
(* How an evaluation decides: the judge scores the answers of the baseline and   *)
(* of the candidate, run_regression() compares them, the worker adds a test of   *)
(* significance; and the benchmark of the analyzer, which a quality gate passes.  *)
(* A score is a number of steps out of Steps: the judge's (raw - 1) / 4, where a  *)
(* call that fails counts as 2 of 4, or the fraction of words that the heuristics *)
(* count without a key, which weigh all dimensions alike. Scores are floats: what *)
(* a comparison of two sums that are equal gives depends on their rounding.       *)
EXTENDS Integers, Sequences, FiniteSets, Functions

CONSTANTS
  Dims, Weight,     \* the dimensions and _DIMENSION_WEIGHTS, in hundredths
  Steps, Raw,       \* the steps of a score, and the scores that the judge may give
  OneIn,            \* eval_regression_threshold is one in so many: 0.05 is one in 20
  MaxCases,         \* bound on the common cases
  Scenarios,        \* [bad, outcome]: a benchmark scenario and what its callables do
  MaxScenarios      \* bound on the scenarios

VARIABLES
  judged,           \* the cases, each [b, c]: the scores by dimension of both answers
  report,           \* what run_regression() says: "none", "passed" or "failed"
  significant,      \* the dimensions that regress significantly
  rigorous,         \* the worker's verdict: "none", "passed" or "failed"
  results           \* the benchmark's counts

vars == <<judged, report, significant, rigorous, results>>

Cases == DOMAIN judged

AllWeights == SumFunction(Weight)

\* What the scores and the weights are; judge.py divides by the sum of the weights.
ConstantsOK ==
  /\ IsFiniteSet(Dims) /\ Dims # {} /\ Weight \in [Dims -> Nat] /\ AllWeights > 0
  /\ Steps \in Nat \ {0} /\ OneIn \in Nat \ {0} /\ Raw \subseteq 0..Steps /\ MaxCases \in Nat
  /\ Scenarios \subseteq [bad : BOOLEAN, outcome : {"detected", "missed", "raises", "remedied", "remedy_fails"}]

\* --- judge.py and regression.py -------------------------------------------------
\* Steps times the sum of the weights, times the weighted average of the scores.
Overall(scores) == SumFunction([d \in Dims |-> scores[d] * Weight[d]])

\* delta / unit < -threshold, as floats compare: either, when they are equal.
Below(delta, unit) == {out \in BOOLEAN : OneIn * delta = -unit \/ (out <=> OneIn * delta < -unit)}

CaseRegresses(case) == Below(Overall(case.c) - Overall(case.b), Steps * AllWeights)

Delta(case, d) == case.c[d] - case.b[d]
TotalDelta(cases, d) == SumFunction([i \in DOMAIN cases |-> Delta(cases[i], d)])
DimRegresses(cases, d) ==
  IF cases = <<>> THEN {FALSE} ELSE Below(TotalDelta(cases, d), Steps * Len(cases))

\* The cases alone.
PassesByCase(cases) == {\A i \in DOMAIN cases : CaseRegresses(cases[i]) = {FALSE}}

\* run_regression(): no case and no dimension regresses; so it is without any case.
Passes(cases) ==
  LET compared == {CaseRegresses(cases[i]) : i \in DOMAIN cases} \union {DimRegresses(cases, d) : d \in Dims}
  IN  {passes \in BOOLEAN : IF passes THEN \A out \in compared : FALSE \in out
                                      ELSE \E out \in compared : TRUE \in out}

\* --- statistics.py ----------------------------------------------------------------
\* The report rounds the scores to four decimals, for which the means of both sides
\* are off by half of a ten-thousandth at most; and they are rounded themselves.
Near(delta, unit) == 10000 * (OneIn * delta + unit) \in -(OneIn * unit)..(OneIn * unit)

\* The difference of the means of both sides, compared with the same threshold.
ThresholdHit(cases, d) ==
  LET delta == SumFunction([i \in DOMAIN cases |-> cases[i].c[d]])
                 - SumFunction([i \in DOMAIN cases |-> cases[i].b[d]])
      unit  == Steps * Len(cases)
  IN  {hit \in BOOLEAN : Near(delta, unit) \/ (hit <=> OneIn * delta < -unit)}

\* Whether the 95% interval of the resampled means lies below zero: never when no case
\* falls, else it depends on the samples.
IntervalBelowZero(cases, d) ==
  {below \in BOOLEAN : below => \E i \in DOMAIN cases : Delta(cases[i], d) < 0}

\* n (n - 1) times the variance of the scores of one side.
Spread(cases, score(_)) ==
  LET n == Len(cases)
      scores == [i \in DOMAIN cases |-> score(cases[i])]
      sum == SumFunction(scores)
  IN  n * SumFunction([i \in DOMAIN cases |-> scores[i] * scores[i]]) - sum * sum

\* d <= -1/5. With n cases on each side the pooled variance is half of the sum of both;
\* one that should be zero may come out above it, and d is zero only if it does not.
\* When four decimals do not hold the scores, it is taken to come out either way.
EffectHit(cases, d) ==
  LET n      == Len(cases)
      pooled == Spread(cases, LAMBDA case : case.b[d]) + Spread(cases, LAMBDA case : case.c[d])
      delta  == TotalDelta(cases, d)
      effect == 50 * (n - 1) * delta * delta
  IN  IF delta >= 0 THEN {FALSE}
      ELSE IF pooled = 0 \/ effect = n * pooled \/ 10000 % Steps # 0 THEN BOOLEAN
      ELSE {effect > n * pooled}

\* Looked at from three values on.
Significant(cases, d) ==
  {out \in BOOLEAN :
     \E hit \in ThresholdHit(cases, d), below \in IntervalBelowZero(cases, d), large \in EffectHit(cases, d) :
       out <=> (Len(cases) >= 3 /\ hit /\ below /\ large)}

\* --- benchmark.py and gate.py -------------------------------------------------------
\* An analyzer that raises leaves every flag false; a remediator that raises leaves the
\* scenario attempted.
Detected(s) == s.outcome \in {"detected", "remedied", "remedy_fails"}
Correct(s) == s.outcome # "raises" /\ Detected(s) = s.bad
FalsePositive(s) == Detected(s) /\ ~s.bad
FalseNegative(s) == s.outcome = "missed" /\ s.bad
Attempted(s) == s.outcome \in {"remedied", "remedy_fails"}
Succeeded(s) == s.outcome = "remedied"

One(flag) == IF flag THEN 1 ELSE 0

\* accuracy >= 95%, failure rate <= 5%, remediation >= 90%; a rate over nothing is zero.
\* The failure rate is 1.0 - accuracy, and 1.0 - 0.95 is more than 0.05 in floating
\* point: an accuracy of exactly 95% does not pass.
GatePasses ==
  /\ results.total > 0
  /\ 100 * results.correct >= 95 * results.total
  /\ 100 * (results.total - results.correct) < 5 * results.total
  /\ results.attempted > 0 /\ 100 * results.succeeded >= 90 * results.attempted

-------------------------------------------------------------------------------
\* The evaluation run and the benchmark are independent: a behaviour is about one.
Init ==
  /\ judged = <<>>
  /\ report = "none" /\ significant = {} /\ rigorous = "none"
  /\ results = [total |-> 0, correct |-> 0, fp |-> 0, fn |-> 0, attempted |-> 0, succeeded |-> 0]

\* The judge has scored both answers of one more common case, in any order.
Judge(b, c) ==
  /\ Len(judged) < MaxCases /\ rigorous = "none" /\ results.total = 0
  /\ judged' = Append(judged, [b |-> b, c |-> c])
  /\ UNCHANGED <<report, significant, rigorous, results>>

\* The worker's verdict: the report passes and no dimension regresses significantly.
Decide ==
  /\ rigorous = "none" /\ results.total = 0
  /\ \E passes \in Passes(judged), hit \in SUBSET Dims :
       /\ \A d \in Dims : (d \in hit) \in Significant(judged, d)
       /\ report' = IF passes THEN "passed" ELSE "failed"
       /\ significant' = hit
       /\ rigorous' = IF passes /\ hit = {} THEN "passed" ELSE "failed"
  /\ UNCHANGED <<judged, results>>

\* The benchmark runs one more scenario.
Evaluate(s) ==
  /\ judged = <<>> /\ rigorous = "none" /\ results.total < MaxScenarios
  /\ results' = [total |-> results.total + 1,
                 correct |-> results.correct + One(Correct(s)),
                 fp |-> results.fp + One(FalsePositive(s)), fn |-> results.fn + One(FalseNegative(s)),
                 attempted |-> results.attempted + One(Attempted(s)),
                 succeeded |-> results.succeeded + One(Succeeded(s))]
  /\ UNCHANGED <<judged, report, significant, rigorous>>

Next ==
  \/ \E b, c \in [Dims -> Raw] : Judge(b, c)
  \/ Decide
  \/ \E s \in Scenarios : Evaluate(s)

Spec == Init /\ [][Next]_vars

-------------------------------------------------------------------------------
TypeOK ==
  /\ judged \in Seq([b : [Dims -> Raw], c : [Dims -> Raw]]) /\ Len(judged) <= MaxCases
  /\ report \in {"none", "passed", "failed"} /\ rigorous \in {"none", "passed", "failed"}
  /\ significant \subseteq Dims

\* worker.py:187: the test of significance passes nothing that run_regression() fails,
\* and fails what it passes only when the fall of a dimension is the threshold itself,
\* up to the rounding of the scores, whatever the samples were.
SignificanceIsCovered ==
  /\ rigorous = "passed" => report = "passed"
  /\ report = "passed" /\ rigorous = "failed" =>
       \E d \in significant : Near(TotalDelta(judged, d), Steps * Len(judged))

\* regression.py:113: a candidate whose every answer scores no less than that of the
\* baseline passes, and no run passes whose candidate loses more than the threshold in
\* every case and dimension.
VerdictFollowsScores ==
  /\ rigorous # "none" /\ (\A i \in Cases, d \in Dims : Delta(judged[i], d) >= 0) => rigorous = "passed"
  /\ rigorous = "passed" /\ judged # <<>> =>
       ~\A i \in Cases, d \in Dims : OneIn * Delta(judged[i], d) < -Steps

\* regression.py:97: a better answer of the candidate is never why a comparison that
\* passed would fail.
BetterStillPasses ==
  report = "passed" =>
    \A i \in Cases, d \in Dims, raw \in Raw :
      raw > judged[i].c[d] => TRUE \in Passes([judged EXCEPT ![i].c[d] = raw])

\* gate.py:51: the gate passes no benchmark with one wrong or raising scenario in
\* twenty, and none that never tried a remedy.
GateCountsErrors ==
  GatePasses => /\ results.total > 20 * (results.total - results.correct)
                /\ results.total - results.correct >= results.fp + results.fn
                /\ results.succeeded > 0

\* What is passed deserves to be.
VerdictsHold ==
  TypeOK /\ SignificanceIsCovered /\ VerdictFollowsScores /\ BetterStillPasses /\ GateCountsErrors

=============================================================================
