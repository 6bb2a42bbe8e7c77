------------------------------ MODULE AutoScorer ------------------------------
(***************************************************************************)
(* otelmind/eval/worker.py: trace_autoscorer_loop() samples the traces of  *)
(* the last hour that have no score, lets eval/batch_scorer.py judge them  *)
(* and writes the scores.  Every API process runs the loop; one tenant.    *)
(*                                                                         *)
(* The traces are numbered in the order of created_at.  The answer of a    *)
(* trace is its latest span, by number, or 0 if that has no output.        *)
(***************************************************************************)
EXTENDS Naturals, FiniteSets, FiniteSetsExt

CONSTANTS Process,
  MaxTraces, MaxSpans, MaxErrors, \* bounds
  BatchSize,    \* eval_autoscorer_batch_size
  Overfetch     \* the LIMIT of the SELECT, four times the batch

\* Assumed by the module that instantiates this one.
AutoScorerAssumption == {MaxTraces, MaxSpans, MaxErrors, BatchSize, Overfetch} \subseteq Nat

VARIABLES
  spans,    \* how many spans of each trace are stored
  answer,   \* the answer that they give
  recent,   \* the traces of the last hour that have an end time
  scores,   \* trace_scores: the traces, the answers that were judged, a row for each verdict
  tick,     \* what each process does, the batch it has, the answers that it has read
  overlap,  \* history: the traces that two processes had at a time
  late,     \* history: the traces that got a span after their answer was read
  errors

vars == <<spans, answer, recent, scores, tick, overlap, late, errors>>

Trace == 1..MaxTraces
Idle == [at |-> "idle", batch |-> {}, read |-> {}, verdict |-> {}]

Init ==
  /\ spans = [t \in Trace |-> 0]
  /\ answer = [t \in Trace |-> 0]
  /\ recent = {}
  /\ scores = {}
  /\ tick = [p \in Process |-> Idle]
  /\ overlap = {}
  /\ late = {}
  /\ errors = 0

ReadBy(p, t) == \E r \in tick[p].read \cup tick[p].verdict : r.trace = t

\* The collector stores a span; the first one of a trace makes its row.
Span(t) ==
  /\ spans[t] < MaxSpans
  /\ \A u \in 1..(t - 1) : spans[u] > 0
  /\ spans' = [spans EXCEPT ![t] = @ + 1]
  /\ answer' \in {[answer EXCEPT ![t] = a] : a \in {0, spans[t] + 1}}
  /\ recent' = IF spans[t] = 0 THEN recent \cup {t} ELSE recent
  /\ late' = IF (\E p \in Process : ReadBy(p, t)) \/ (\E s \in scores : s.trace = t)
             THEN late \cup {t} ELSE late
  /\ UNCHANGED <<scores, tick, overlap, errors>>

\* An hour after it was created a trace is not looked at any more.
Age ==
  /\ recent # {}
  /\ recent' = recent \ {Min(recent)}
  /\ UNCHANGED <<spans, answer, scores, tick, overlap, late, errors>>

Scored == {s.trace : s \in scores}

\* Mutant of Unscored: the traces that have scores are not left out.
UnscoredOrNot == recent

Unscored == recent \ Scored

\* _pick_unscored_traces(): the newest ones
Candidates == {t \in Unscored : Cardinality({u \in Unscored : u > t}) < Overfetch}

\* Any sample of the candidates, and of that no more than a batch, may be drawn.
Pick(p) ==
  /\ tick[p].at = "idle"
  /\ \E batch \in SUBSET Candidates :
       /\ batch # {} /\ Cardinality(batch) <= BatchSize
       /\ tick' = [tick EXCEPT ![p] = [Idle EXCEPT !.at = "load", !.batch = batch]]
       /\ overlap' = overlap \cup
            (batch \cap UNION {tick[q].batch \cup {r.trace : r \in tick[q].read \cup tick[q].verdict} : q \in Process})
  /\ UNCHANGED <<spans, answer, recent, scores, late, errors>>

\* _load_question_answer() in a transaction of its own; what has no answer is left.
Load(p) ==
  /\ tick[p].at = "load" /\ tick[p].batch # {}
  /\ LET t == Max(tick[p].batch) IN
       tick' = [tick EXCEPT ![p].batch = @ \ {t},
                            ![p].read = IF answer[t] = 0 THEN @ ELSE @ \cup {[trace |-> t, answer |-> answer[t]]}]
  /\ UNCHANGED <<spans, answer, recent, scores, overlap, late, errors>>

\* score_batch(): the judge answers, or fails, for each case by itself.
Score(p) ==
  /\ tick[p].at = "load" /\ tick[p].batch = {}
  /\ \E verdict \in SUBSET tick[p].read :
       tick' = [tick EXCEPT ![p] = IF verdict = {} THEN Idle
                                   ELSE [Idle EXCEPT !.at = "persist", !.verdict = verdict]]
  /\ UNCHANGED <<spans, answer, recent, scores, overlap, late, errors>>

\* _persist_batch_scores(): one transaction for each trace
Persist(p) ==
  /\ tick[p].at = "persist"
  /\ \E v \in tick[p].verdict :
       /\ scores' = scores \cup {[trace |-> v.trace, answer |-> v.answer, row |-> Cardinality(scores)]}
       /\ tick' = [tick EXCEPT ![p] = IF tick[p].verdict = {v} THEN Idle ELSE [tick[p] EXCEPT !.verdict = @ \ {v}]]
  /\ UNCHANGED <<spans, answer, recent, overlap, late, errors>>

\* An exception ends the tick, or the process ends: nothing is remembered.
Fail(p) ==
  /\ tick[p].at # "idle" /\ errors < MaxErrors
  /\ tick' = [tick EXCEPT ![p] = Idle]
  /\ errors' = errors + 1
  /\ UNCHANGED <<spans, answer, recent, scores, overlap, late>>

Next ==
  \/ Age \/ \E t \in Trace : Span(t)
  \/ \E p \in Process : Pick(p) \/ Load(p) \/ Score(p) \/ Persist(p) \/ Fail(p)

-----------------------------------------------------------------------------
\* A trace has the scores of one verdict, about all of its answer, unless two
\* processes had it at a time, or a span of it came after its answer was read; no
\* later tick judges it again (worker.py:250, "traces that have no rows in
\* trace_scores yet").
ScoredOnce ==
  \A s \in scores :
    /\ s.answer = answer[s.trace] \/ s.trace \in late
    /\ \A r \in scores : r.trace = s.trace /\ r # s => s.trace \in overlap

=============================================================================
