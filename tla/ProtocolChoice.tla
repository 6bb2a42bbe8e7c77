---------------------------- MODULE ProtocolChoice ----------------------------
(* What the group runs of a tenant decide: the protocol that is recommended for  *)
(* a problem, and the daily snapshot that compares the protocols' scores with    *)
(* those of the snapshot before. Scores and similarities are counted in tenths   *)
(* and costs in cents, so that every mean is a fraction; the stored ones are rounded.*)
EXTENDS Integers, Sequences, FiniteSets, SequencesExt, FiniteSetsExt

CONSTANTS
  Runs,             \* [protocol, status, score, cost, problem]: what a group run may be
  ProtocolOrder,    \* _PROTOCOLS
  Problems, Similarity(_, _),
  MinSimilarities, TopKs,
  Threshold,        \* eval_regression_threshold, in tenths
  Window,           \* days that a snapshot looks back: seven
  MaxRuns, MaxDay,  \* bounds
  NoScore           \* the run has no task_completion_score

VARIABLES
  history,          \* the group runs of the tenant: [run, day]
  today,
  snapshots         \* the rows benchmark-snapshot-*: [day, scores, regressed, upTo]

vars == <<history, today, snapshots>>

Successful == {"completed", "converged"}

\* What the runs and the similarities are.
ConstantsOK ==
  /\ \A run \in Runs : run.score \in Int \cup {NoScore} /\ run.cost \in Nat
  /\ NoScore \notin Int
  /\ \A problem \in Problems, run \in Runs : Similarity(problem, run.problem) \in Nat
  /\ ProtocolOrder \in Seq(STRING)
  /\ TopKs \subseteq Nat /\ Threshold \in Int /\ Window \in Int /\ MaxDay \in Nat \ {0}

Init ==
  /\ history = <<>>
  /\ today = 1
  /\ snapshots = <<>>

Finish(run) ==
  /\ Len(history) < MaxRuns
  /\ history' = Append(history, [run |-> run, day |-> today])
  /\ UNCHANGED <<today, snapshots>>

NextDay ==
  /\ today < MaxDay
  /\ today' = today + 1
  /\ UNCHANGED <<history, snapshots>>

\* --- protocol_selector.py -----------------------------------------------------
\* The most similar runs; of runs that are equally similar the first of the history.
Neighbours(problem, min, topK) ==
  LET sim(i)     == Similarity(problem, history[i].run.problem)
      similar    == {i \in DOMAIN history : sim(i) >= min}
      Before(i, j) == sim(i) > sim(j) \/ (sim(i) = sim(j) /\ i < j)
  IN  {i \in similar : Cardinality({j \in similar : Before(j, i)}) < topK}

\* A fraction [n, d] with d > 0.
Ratio(n, d) == [n |-> n, d |-> d]
Less(a, b) == a.n * b.d < b.n * a.d

OfProtocol(near, p) == {i \in near : history[i].run.protocol = p}
Scored(rows) == {i \in rows : history[i].run.score # NoScore}
MaxCost(near) == Max({history[i].run.cost : i \in near})

\* The weighted mean of what each of the rows of a protocol says; the weights are
\* their similarities. A total of weights of zero counts as one.
Weighted(problem, says) ==
  LET weight == [i \in DOMAIN says |-> Similarity(problem, history[i].run.problem)]
      sum    == SumFunction(weight)
  IN  Ratio(SumFunction([i \in DOMAIN says |-> says[i] * weight[i]]), IF sum = 0 THEN 1 ELSE sum)

SuccessRate(problem, rows) ==
  Weighted(problem, [i \in rows |-> IF history[i].run.status \in Successful THEN 1 ELSE 0])

\* In tenths; one half when no row has a score.
TaskScore(problem, rows) ==
  IF Scored(rows) = {} THEN Ratio(5, 1)
  ELSE Weighted(problem, [i \in Scored(rows) |-> history[i].run.score])

AverageCost(problem, rows) == Weighted(problem, [i \in rows |-> history[i].run.cost])

\* The share of the largest cost that is spent.
CostSpent(problem, rows, max) ==
  LET avg == AverageCost(problem, rows)
  IN  IF max = 0 THEN Ratio(1, 2) ELSE Ratio(avg.n, max * avg.d)

\* One less the average cost over the largest of all neighbours; one half when all are free.
CostFit(problem, rows, max) ==
  LET avg == AverageCost(problem, rows)
  IN  IF max = 0 THEN Ratio(1, 2) ELSE Ratio(max * avg.d - avg.n, max * avg.d)

\* Half of the task score, three tenths of the success rate, two of the cost (by a hundred).
Combined(task, success, fit) ==
  Ratio(5 * task.n * success.d * fit.d + 30 * success.n * task.d * fit.d + 20 * fit.n * task.d * success.d,
        task.d * success.d * fit.d)

Score(problem, near, p) ==
  LET rows == OfProtocol(near, p)
  IN  Combined(TaskScore(problem, rows), SuccessRate(problem, rows), CostFit(problem, rows, MaxCost(near)))

Candidates(near) == {k \in DOMAIN ProtocolOrder : OfProtocol(near, ProtocolOrder[k]) # {}}

\* The mean of the task scores has no guard for weights that are all zero.
Raises(problem, near) ==
  \E k \in Candidates(near) :
    LET scored == Scored(OfProtocol(near, ProtocolOrder[k]))
    IN  scored # {} /\ \A i \in scored : Similarity(problem, history[i].run.problem) = 0

\* The best score, and of equals the first of _PROTOCOLS; round_robin without
\* neighbours; nothing, an error, when a mean has no weight.
Recommend(problem, min, topK) ==
  LET near == Neighbours(problem, min, topK)
      Beaten(k) == \E j \in Candidates(near) :
                     LET a == Score(problem, near, ProtocolOrder[j])
                         b == Score(problem, near, ProtocolOrder[k])
                     IN  Less(b, a) \/ (~Less(a, b) /\ j < k)
  IN  IF Candidates(near) = {} THEN {"round_robin"}
      ELSE IF Raises(problem, near) THEN {}
      ELSE {ProtocolOrder[k] : k \in {c \in Candidates(near) : ~Beaten(c)}}

\* --- worker.py: _snapshot_benchmark_health ------------------------------------
Recent == {i \in DOMAIN history : history[i].day > today - Window}

MeanScores ==
  LET rows(p) == Scored(OfProtocol(Recent, p))
  IN  [p \in {q \in ToSet(ProtocolOrder) : rows(q) # {}} |->
         Ratio(SumFunction([i \in rows(p) |-> history[i].run.score]), Cardinality(rows(p)))]

\* A rise is taken for a fall.
RegressedUp(prev, scores, by) ==
  {p \in DOMAIN prev \intersect DOMAIN scores :
     Less(Ratio(1000 * prev[p].n + by * prev[p].d, prev[p].d), Ratio(1000 * scores[p].n, scores[p].d))}

\* The protocols of both snapshots whose mean fell by more than so many ten-thousandths.
Regressed(prev, scores, by) ==
  {p \in DOMAIN prev \intersect DOMAIN scores :
     Less(Ratio(1000 * scores[p].n + by * scores[p].d, scores[p].d), Ratio(1000 * prev[p].n, prev[p].d))}

\* What a snapshot may name: the means are stored with four decimals, and compared as
\* floats, by which a fall may seem larger or smaller by less than two ten-thousandths.
Named(prev, scores) ==
  {named \in SUBSET Regressed(prev, scores, 1000 * Threshold - 2) :
     Regressed(prev, scores, 1000 * Threshold + 2) \subseteq named}

\* One tick: nothing when today has its snapshot, or the window has no run. (Its
\* transactions are one step: two processes that tick together leave two rows, as
\* GoldenRuns shows for the same check.)
Snapshot ==
  /\ \A k \in DOMAIN snapshots : snapshots[k].day # today
  /\ Recent # {}
  /\ LET earlier == {k \in DOMAIN snapshots : snapshots[k].day < today}
     IN  \E named \in IF earlier = {} THEN {{}} ELSE Named(snapshots[Max(earlier)].scores, MeanScores) :
           snapshots' = Append(snapshots, [day |-> today, scores |-> MeanScores, regressed |-> named,
                                           passed |-> named = {}, upTo |-> Len(history)])
  /\ UNCHANGED <<history, today>>

Next == (\E run \in Runs : Finish(run)) \/ NextDay \/ Snapshot

Spec == Init /\ [][Next]_vars

-------------------------------------------------------------------------------
TypeOK ==
  /\ \A i \in DOMAIN history : history[i].run \in Runs /\ history[i].day \in 1..today
  /\ today \in 1..MaxDay
  /\ \A k \in DOMAIN snapshots : snapshots[k].upTo <= Len(history)

\* p is no worse than q for any of its rows, and better in one respect for all of them.
Dominates(near, p, q) ==
  LET P == OfProtocol(near, p)
      Q == OfProtocol(near, q)
      good(i) == IF history[i].run.status \in Successful THEN 1 ELSE 0
      score(i) == IF history[i].run.score = NoScore THEN 5 ELSE history[i].run.score
      cost(i) == history[i].run.cost
  IN  /\ P # {} /\ Q # {}
      /\ \A i \in P, j \in Q : good(i) >= good(j) /\ score(i) >= score(j) /\ cost(i) <= cost(j)
      /\ \/ \A i \in P, j \in Q : good(i) > good(j)
         \/ \A i \in P, j \in Q : cost(i) < cost(j)
         \/ Scored(P) = P /\ Scored(Q) = Q /\ \A i \in P, j \in Q : score(i) > score(j)

\* protocol_selector.py:229: of the protocols that solved similar problems none is
\* better in every respect than the one that is recommended, whatever the positive
\* weights of the rows; and there is one recommendation, or an error that only rows
\* without any similarity can cause.
RecommendationIsUndominated ==
  \A problem \in Problems, min \in MinSimilarities, topK \in TopKs :
    LET near == Neighbours(problem, min, topK)
        best == Recommend(problem, min, topK)
        alike == \A i \in near : Similarity(problem, history[i].run.problem) > 0
    IN  /\ Cardinality(near) <= topK /\ Cardinality(best) <= 1
        /\ alike => /\ best # {}
                    /\ near # {} => \A p \in best, q \in ToSet(ProtocolOrder) \ best : ~Dominates(near, q, p)

\* The scores that a snapshot saw of a protocol.
Seen(k, p) ==
  {history[i].run.score : i \in {j \in 1..snapshots[k].upTo :
     /\ history[j].run.protocol = p /\ history[j].run.score # NoScore
     /\ history[j].day > snapshots[k].day - Window}}

\* worker.py:767: a protocol whose every score lies more than the threshold below every
\* score of the snapshot before is named, and one that is named has a score that lies
\* below one of that snapshot by the threshold, which itself may count for more (floats).
DeclineIsNamed ==
  \A k \in 2..Len(snapshots) : \A p \in ToSet(ProtocolOrder) :
    LET old == Seen(k - 1, p)
        new == Seen(k, p)
    IN  /\ old # {} /\ new # {} /\ (\A a \in old, b \in new : a - b > Threshold) => p \in snapshots[k].regressed
        /\ p \in snapshots[k].regressed => \E a \in old, b \in new : a - b >= Threshold

\* What the history decides.
ChoiceFollowsHistory == TypeOK /\ RecommendationIsUndominated /\ DeclineIsNamed

=============================================================================
