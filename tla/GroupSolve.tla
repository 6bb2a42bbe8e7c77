------------------------------ MODULE GroupSolve ------------------------------
(***************************************************************************)
(* multiagent/group.py, multiagent/protocols.py and eval/group_metrics.py: *)
(* AgentGroup.solve() runs rounds of a protocol until the protocol sets a  *)
(* status, the budget is spent or the rounds are used up; evaluate_group() *)
(* scores the result.                                                      *)
(*                                                                         *)
(* A round is a list of calls to agents; a call is answered with a text or *)
(* fails.  What a text is to a protocol is given by sets of texts: those   *)
(* that announce a verdict, hold updates, agree with each other, and so on.*)
(***************************************************************************)
EXTENDS Naturals, Sequences, FiniteSets, SequencesExt

CONSTANTS
  Protocols,    \* the protocols that are tried
  Teams,        \* the lists of role names that are tried
  Budgets,      \* the budgets that are tried
  MaxRounds,    \* body.max_rounds, of the group and of the protocol
  Text(_),      \* the texts that agents of a protocol answer with
  Signal,       \* the texts that start with VERDICT: or DONE:
  Update,       \* the texts that hold a JSON object with keys
  Empty,        \* the texts that hold a JSON object without keys
  Plan(_),      \* the role names to which the tasks in a text are assigned
  Key(_),       \* a text stripped, in lower case, cut after 200 characters
  Similar,      \* the pairs of texts with a cosine above 0.7
  Corrects,     \* the texts that match a correction pattern
  Terse,        \* the texts of less than 50 characters
  Price(_)      \* what the tokens of a call that a text answers cost

ASSUME GroupSolveAssumption ==
  /\ Protocols \subseteq {"round_robin", "debate", "blackboard", "consensus", "delegation"}
  /\ Teams \subseteq Seq(STRING) \ {<<>>}
  /\ Budgets \subseteq Nat
  /\ MaxRounds \in Nat \ {0}
  /\ \A t \in Text("delegation") : Plan(t) \in Seq(STRING)

VARIABLES
  protocol,
  team,         \* the roles; agent i has role team[i]
  budget,
  phase,        \* "between" rounds, "calling", "returned" or "evaluated"
  round,
  status,
  output,       \* final_output: what it was taken from, and the texts
  messages,
  todo,         \* the calls that are left of the round
  attempts,     \* of the first of them
  streak,       \* blackboard_empty_streak
  report        \* what evaluate_group() returns

choice == <<protocol, team, budget>>
vars == <<protocol, team, budget, phase, round, status, output, messages, todo, attempts,
          streak, report>>

Agents == DOMAIN team
Nothing == [from |-> "nothing", texts |-> {}]
Answer(t) == [from |-> "answer", texts |-> {t}]
Call(a, type) == [agent |-> a, type |-> type]

Init ==
  /\ protocol \in Protocols
  /\ team \in Teams
  /\ budget \in Budgets
  /\ phase = "between"
  /\ round = 0
  /\ status = "in_progress"
  /\ output = Nothing
  /\ messages = <<>>
  /\ todo = <<>>
  /\ attempts = 0
  /\ streak = [a \in Agents |-> 0]
  /\ report = <<>>

\* _estimate_cost()
Cost(ms) == FoldSeq(LAMBDA m, sum : Price(m.text) + sum, 0, ms)

\* The messages of round n, by their places in the transcript.
Said(n) == {i \in DOMAIN messages : messages[i].round = n}

-----------------------------------------------------------------------------
(* execute_round() begins *)

\* The calls with which a round begins.
Opening ==
  IF protocol = "delegation" THEN <<Call(1, "plan")>>
  ELSE [a \in Agents |-> Call(a, IF protocol = "blackboard" THEN "write" ELSE protocol)]

StartRound ==
  /\ phase = "between"
  /\ status = "in_progress"
  /\ round < MaxRounds
  /\ protocol = "debate" => Len(team) = 3
  /\ round' = round + 1
  /\ phase' = "calling"
  /\ todo' = Opening
  /\ UNCHANGED <<choice, status, output, messages, attempts, streak, report>>

\* A debate of other than three agents raises.
RefuseRound ==
  /\ phase = "between"
  /\ status = "in_progress"
  /\ round < MaxRounds
  /\ protocol = "debate" /\ Len(team) # 3
  /\ round' = round + 1
  /\ status' = "failed"
  /\ UNCHANGED <<choice, phase, output, messages, todo, attempts, streak, report>>

-----------------------------------------------------------------------------
(* _call_agent() *)

\* specialists_by_role: of specialists of one role the last is asked; 0 when there
\* is none.
Specialist(name) ==
  LET known == {a \in Agents \ {1} : team[a] = name}
  IN  IF known = {} THEN 0 ELSE Max(known)

\* What the lead's plan adds to the round: reports, and the lead's summary.
Assigned(t) ==
  [i \in DOMAIN Plan(t) |-> Call(Specialist(Plan(t)[i]), "report")] \o <<Call(1, "summary")>>

\* A task for a role that no specialist has is passed over.
SkipTask ==
  /\ phase = "calling"
  /\ todo # <<>>
  /\ Head(todo).agent = 0
  /\ todo' = Tail(todo)
  /\ UNCHANGED <<choice, phase, round, status, output, messages, attempts, streak, report>>

\* An agent is being called.
Calling == phase = "calling" /\ todo # <<>> /\ Head(todo).agent # 0

\* Mutant of Streak: an update does not end the streak of its agent.
StreakGoesOn(a, t) == IF t \in Update THEN streak[a] ELSE streak[a] + 1

\* An answer that is not JSON counts as an empty update.
Streak(a, t) == IF t \in Update THEN 0 ELSE streak[a] + 1

Say(t) ==
  /\ Calling
  /\ t \in Text(protocol)
  /\ messages' = Append(messages, [agent |-> Head(todo).agent, round |-> round,
                                   type |-> Head(todo).type, text |-> t])
  /\ attempts' = 0
  /\ UNCHANGED <<choice, phase, round, report>>

IsVerdict(t) == Head(todo).type = "debate" /\ Head(todo).agent = 3 /\ t \in Signal

\* The judge's verdict ends the round, and the debate.
Verdict(t) ==
  /\ Say(t)
  /\ IsVerdict(t)
  /\ todo' = <<>>
  /\ status' = "converged"
  /\ output' = Answer(t)
  /\ UNCHANGED streak

Answered(t) ==
  /\ Say(t)
  /\ ~IsVerdict(t)
  /\ todo' = IF Head(todo).type = "plan" THEN Assigned(t) ELSE Tail(todo)
  /\ streak' = IF Head(todo).type # "write" THEN streak
               ELSE [streak EXCEPT ![Head(todo).agent] = Streak(Head(todo).agent, t)]
  /\ UNCHANGED <<status, output>>

\* A time-out, a lost connection or a rate limit: the third one is raised.
CallRetried ==
  /\ Calling
  /\ attempts < 2
  /\ attempts' = attempts + 1
  /\ UNCHANGED <<choice, phase, round, status, output, messages, todo, streak, report>>

\* Mutant of CallFails: the last time-out starts over.
CallFailsRetries ==
  /\ Calling
  /\ attempts' = 0
  /\ UNCHANGED <<choice, phase, round, status, output, messages, todo, streak, report>>

\* Any other exception, and the third time-out, fail the run.
CallFails ==
  /\ Calling
  /\ status' = "failed"
  /\ phase' = "between"
  /\ todo' = <<>>
  /\ attempts' = 0
  /\ UNCHANGED <<choice, round, output, messages, streak, report>>

-----------------------------------------------------------------------------
(* execute_round() ends *)

\* The proposals whose key more than half of the agents' proposals have.
Literal ==
  {i \in Said(round) :
     2 * Cardinality({j \in Said(round) : Key(messages[j].text) = Key(messages[i].text)}) > Len(team)}

Like(i, j) == <<messages[i].text, messages[j].text>> \in Similar

\* The proposals that begin a cluster: those that are like no earlier one that does.
Leaders ==
  CHOOSE L \in SUBSET Said(round) :
    \A i \in Said(round) : i \in L <=> ~\E k \in L : k < i /\ Like(k, i)

\* i and the later proposals that are like i, and not in an earlier cluster.
Cluster(i) ==
  {i} \cup {j \in Said(round) : i < j /\ Like(i, j) /\ ~\E k \in Leaders : k < i /\ Like(k, j)}

\* The proposals that begin a cluster of more than half of the agents.
Semantic == {i \in Said(round) : i \in Leaders /\ 2 * Cardinality(Cluster(i)) > Len(team)}

Written == {messages[i].text : i \in DOMAIN messages} \cap Update

\* Mutant of Escalates: the protocol has one round more than the group.
EscalatesLate == round > MaxRounds

Escalates == round >= MaxRounds

\* The status and the output at the end of the round, by protocol.
Outcome ==
  LET last == messages[Len(messages)].text
      open(out) == [status |-> "in_progress", output |-> out]
      agreed(out) == [status |-> "converged", output |-> out]
      majority == IF Literal # {} THEN Literal ELSE Semantic
  IN  CASE protocol \in {"round_robin", "debate"} -> open(Answer(last))
        [] protocol = "delegation" -> IF last \in Signal THEN agreed(Answer(last)) ELSE open(Answer(last))
        [] protocol = "blackboard" ->
             LET board == [from |-> "board", texts |-> Written]
             IN  IF \A a \in Agents : streak[a] >= 2 THEN agreed(board) ELSE open(board)
        [] protocol = "consensus" ->
             IF majority # {} THEN agreed(Answer(messages[Min(majority)].text))
             ELSE IF Escalates THEN [status |-> "deadlocked", output |-> Answer(messages[Min(Said(round))].text)]
             ELSE open(output)

\* Mutant of Budgeted: the budget may be spent to the last cent and beyond.
BudgetedBeyond(s) == IF s = "in_progress" => Cost(messages) <= budget THEN s ELSE "budget_exceeded"

\* The budget is looked at between two rounds only.
Budgeted(s) == IF s = "in_progress" => Cost(messages) < budget THEN s ELSE "budget_exceeded"

EndRound ==
  /\ phase = "calling"
  /\ todo = <<>>
  /\ phase' = "between"
  /\ IF status = "converged" THEN UNCHANGED <<status, output>>
     ELSE status' = Budgeted(Outcome.status) /\ output' = Outcome.output
  /\ UNCHANGED <<choice, round, messages, todo, attempts, streak, report>>

\* Mutant of Return: the rounds are counted from zero.
ReturnEarly ==
  /\ phase = "between"
  /\ status # "in_progress" \/ round + 1 >= MaxRounds
  /\ phase' = "returned"
  /\ status' = IF status = "in_progress" THEN "completed" ELSE status
  /\ UNCHANGED <<choice, round, output, messages, todo, attempts, streak, report>>

\* solve() returns.
Return ==
  /\ phase = "between"
  /\ status # "in_progress" \/ round >= MaxRounds
  /\ phase' = "returned"
  /\ status' = IF status = "in_progress" THEN "completed" ELSE status
  /\ UNCHANGED <<choice, round, output, messages, todo, attempts, streak, report>>

-----------------------------------------------------------------------------
(* evaluate_group(), with rates in tenths of a round *)

Sent(a) == {i \in DOMAIN messages : messages[i].agent = a}

\* The pairs that _detect_corrections_with_llm() asks about, by the later message.
Pairs == {i \in 2..Len(messages) : messages[i - 1].agent # messages[i].agent}

Made(a, flagged) ==
  IF flagged # {} THEN Cardinality(flagged \cap Sent(a))
  ELSE Cardinality({i \in Sent(a) : messages[i].text \in Corrects})

\* By the patterns, a correction corrects everyone else who has spoken.
Received(a, flagged) ==
  IF flagged # {} THEN Cardinality({i \in flagged : messages[i - 1].agent = a})
  ELSE Cardinality({i \in DOMAIN messages \ Sent(a) : /\ messages[i].text \in Corrects
                                                      /\ \E j \in Sent(a) : j < i})

Rate == IF status \notin {"converged", "completed"} THEN 0
        ELSE (MaxRounds - round) * (IF status = "converged" THEN 10 ELSE 8)

\* The longer messages, those that correct, and those of a productive type.
Productive == {i \in DOMAIN messages : \/ messages[i].text \notin Terse
                                       \/ messages[i].text \in Corrects
                                       \/ messages[i].type \in {"write", "report"}}

\* Without an expected output the score, in tenths, follows from the status.
TaskScore == IF output # Nothing /\ status = "converged" THEN 7 ELSE 5

\* The auditor takes some texts for corrections of the message before them; none,
\* when there is no auditor, it fails, or finds nothing.
Evaluate(texts) ==
  LET flagged == {i \in Pairs : messages[i].text \in texts}
  IN
  /\ phase = "returned"
  /\ phase' = "evaluated"
  /\ report' = [rate |-> Rate, score |-> TaskScore, deadlock |-> status \in {"deadlocked", "failed"},
                productive |-> Cardinality(Productive),
                sent |-> [a \in Agents |-> Cardinality(Sent(a))],
                made |-> [a \in Agents |-> Made(a, flagged)],
                received |-> [a \in Agents |-> Received(a, flagged)]]
  /\ UNCHANGED <<choice, round, status, output, messages, todo, attempts, streak>>

Done == phase = "evaluated" /\ UNCHANGED vars

Solving ==
  \/ StartRound \/ RefuseRound \/ SkipTask \/ CallRetried \/ CallFails \/ EndRound \/ Return
  \/ \E t \in Text(protocol) : Verdict(t) \/ Answered(t)
  \/ \E texts \in SUBSET Text(protocol) : Evaluate(texts)

Next == Solving \/ Done

Spec == Init /\ [][Next]_vars

\* The event loop goes on, and a call ends: the client has a time-out of a minute.
FairSpec == Spec /\ WF_vars(Solving)

-----------------------------------------------------------------------------
Statuses == {"in_progress", "converged", "deadlocked", "budget_exceeded", "failed", "completed"}

TypeOK ==
  /\ phase \in {"between", "calling", "returned", "evaluated"}
  /\ round \in 0..MaxRounds
  /\ status \in Statuses
  /\ phase = "calling" /\ todo # <<>> => status = "in_progress"
  /\ phase \in {"returned", "evaluated"} => status # "in_progress"
  /\ output.from \in {"nothing", "answer", "board"} /\ output.texts \subseteq Text(protocol)
  /\ \A i \in DOMAIN messages : messages[i].agent \in Agents /\ messages[i].round \in 1..round
  /\ \A i \in DOMAIN todo : todo[i].agent \in Agents \cup {0}
  /\ attempts \in 0..2
  /\ streak \in [Agents -> 0..round]

\* More than half of the team said, in round n, what has the key of t or is like t.
Backed(n, t, like) ==
  2 * Cardinality({i \in Said(n) : Key(messages[i].text) = Key(t) \/ <<t, messages[i].text>> \in like})
    > Len(team)

\* What it takes to have agreed in round n, from the transcript alone.  A blackboard
\* has when nobody wrote an update in JSON for two rounds: prose counts as nothing
\* (protocols.py:239-243), where the docstring (186-188) calls it a contribution.
AgreedIn(n, like) ==
  CASE protocol = "round_robin" -> FALSE
    [] protocol = "debate" -> \E i \in Said(n) : messages[i].agent = 3 /\ messages[i].text \in Signal
    [] protocol = "delegation" -> \E i \in Said(n) : messages[i].type = "summary" /\ messages[i].text \in Signal
    [] protocol = "blackboard" -> n > 1 /\ \A i \in Said(n - 1) \cup Said(n) : messages[i].text \notin Update
    [] protocol = "consensus" -> \E i \in Said(n) : Backed(n, messages[i].text, like)

\* A run converges only when the transcript of its last round shows the agreement
\* that the protocol asks for, and goes on only after rounds that do not:
\* protocols.py:134 and :363, and :267, "If a majority matches (case-insensitive,
\* normalized), that's the final output", where texts match that begin alike; of the
\* blackboard, that it stays as it is for two rounds.
ConvergedIsAgreed ==
  phase # "calling" =>
    /\ \A n \in 1..round - 1 : ~AgreedIn(n, {})
    /\ status = "converged" => AgreedIn(round, Similar)
    /\ round > 0 /\ status \notin {"converged", "failed"} => ~AgreedIn(round, {})

\* No round begins with the budget spent (group.py:185, "break out before the
\* next one"): what exceeds the budget is at most the cost of the last round.
RoundsStayInBudget ==
  round > 1 => Cost(SubSeq(messages, 1, Cardinality(DOMAIN messages \ Said(round)))) < budget

\* A run that is reported as converged, completed or deadlocked has an output: the
\* consensus that has none before the last round escalates in it.
OutcomeHasOutput ==
  phase = "returned" /\ status \in {"converged", "completed", "deadlocked"} => output # Nothing

\* The convergence rate is positive exactly for runs that converged before their
\* last round: a run is completed only when its rounds are used up, and then the
\* factor of group_metrics.py:215 applies to nothing.
RateShowsEarlyAgreement ==
  phase = "evaluated" => (report.rate > 0 <=> status = "converged" /\ round < MaxRounds)

\* What the result says of a run fits the status that its rounds ended with.
ResultFitsStatus == TypeOK /\ OutcomeHasOutput /\ RateShowsEarlyAgreement

\* solve() returns, and its result is evaluated.
SolveEnds == <>(phase = "evaluated")

=============================================================================
