------------------------------ MODULE GroupProofs ------------------------------
(***************************************************************************)
(* Proofs about the multi-agent runs: GroupSolve, for any protocols, teams,*)
(* texts and prices, and GroupRuns, for any processes, runs, limit and     *)
(* ages.                                                                   *)
(***************************************************************************)
EXTENDS GroupSolve, MCGroupRuns, WellFoundedInduction, FiniteSetTheorems, TLAPS

CallTypes == {"round_robin", "debate", "write", "consensus", "plan", "report", "summary"}

\* The type of the calls of a protocol in which every agent has a turn in a round.
Turn == IF protocol = "blackboard" THEN "write" ELSE protocol

\* The agents that have had their turn in this round.
Spoken == {messages[i].agent : i \in Said(round)}

Typed ==
  /\ protocol \in Protocols /\ team \in Teams
  /\ phase \in {"between", "calling", "returned", "evaluated"}
  /\ round \in 0..MaxRounds
  /\ status \in Statuses
  /\ output.from \in {"nothing", "answer", "board"} /\ output.texts \subseteq Text(protocol)
  /\ messages \in Seq([agent : Agents, round : Nat, type : CallTypes, text : Text(protocol)])
  /\ \A i \in DOMAIN messages : messages[i].round \in 1..round
  /\ todo \in Seq([agent : Agents \cup {0}, type : CallTypes])
  /\ attempts \in 0..2
  /\ streak \in [Agents -> 0..round]

\* Only a verdict ends a debate within a round, and only the last round completes a run.
Settling ==
  /\ phase = "calling" => round > 0
  /\ phase = "calling" /\ status # "in_progress" => status = "converged" /\ protocol = "debate" /\ todo = <<>>
  /\ phase \in {"returned", "evaluated"} => status # "in_progress"
  /\ status = "completed" => phase \in {"returned", "evaluated"} /\ round = MaxRounds

\* Every agent speaks once in a round, in the order of the team.
TurnTaking ==
  protocol # "delegation" =>
    /\ \A i, j \in DOMAIN messages :
         messages[i].round = messages[j].round /\ messages[i].agent = messages[j].agent => i = j
    /\ \A n \in 1..round - 1, a \in Agents : \E i \in Said(n) : messages[i].agent = a
    /\ phase = "calling" /\ status = "in_progress" =>
         /\ Len(todo) <= Len(team)
         /\ \A i \in 1..Len(todo) : todo[i] = Call(Len(team) - Len(todo) + i, Turn)
         /\ Spoken = 1..Len(team) - Len(todo)
    /\ phase = "between" /\ status = "in_progress" /\ round > 0 => Spoken = Agents

\* A round of delegation is the plan, the reports and then the summary.
Delegating ==
  protocol = "delegation" /\ phase = "calling" =>
    \/ todo = <<Call(1, "plan")>> /\ Said(round) = {}
    \/ /\ todo # <<>>
       /\ \A i \in DOMAIN todo : /\ todo[i].type \in {"report", "summary"}
                                 /\ todo[i].type = "summary" <=> i = Len(todo)
                                 /\ todo[i].agent = 0 => todo[i].type = "report"
       /\ \A i \in Said(round) : messages[i].type # "summary"
    \/ /\ todo = <<>>
       /\ Len(messages) \in Said(round) /\ messages[Len(messages)].type = "summary"
       /\ \A i \in Said(round) : messages[i].type = "summary" => i = Len(messages)

\* a had nothing to add in round n.
Silent(a, n) == \E i \in Said(n) : messages[i].agent = a /\ messages[i].text \notin Update

\* The last round in which a has had its turn.
LastTurn(a) == IF a \in Spoken THEN round ELSE round - 1

\* The streak of an agent counts the rounds without an update, up to two.
Streaks ==
  \A a \in Agents :
    IF protocol = "blackboard"
    THEN /\ streak[a] >= 1 <=> Silent(a, LastTurn(a))
         /\ streak[a] >= 2 <=> Silent(a, LastTurn(a)) /\ Silent(a, LastTurn(a) - 1)
         /\ streak[a] # 0 => streak[a] <= LastTurn(a)
    ELSE streak[a] = 0

\* The judge's verdict is the last that is said.
VerdictEnds ==
  protocol = "debate" =>
    \A i \in DOMAIN messages : messages[i].agent = 3 /\ messages[i].text \in Signal =>
      status = "converged" /\ messages[i].round = round

\* Rounds that go on have not agreed.
Agreement ==
  /\ \A n \in 1..round - 1 : ~AgreedIn(n, {})
  /\ status = "converged" => AgreedIn(round, Similar)
  /\ phase # "calling" /\ round > 0 /\ status \notin {"converged", "failed"} => ~AgreedIn(round, {})

\* A round that goes on has an output, or is followed by another one.
Outputs ==
  /\ phase = "between" /\ status = "in_progress" /\ round > 0 =>
       IF protocol = "consensus" THEN round < MaxRounds ELSE output # Nothing
  /\ status \in {"converged", "completed", "deadlocked"} => output # Nothing

\* The messages of the earlier rounds are those before this round, and were paid for.
Paid ==
  /\ \E m \in 0..Len(messages) :
       /\ DOMAIN messages \ Said(round) = 1..m
       /\ round > 1 => Cost(SubSeq(messages, 1, m)) < budget
  /\ phase = "between" /\ status = "in_progress" /\ round > 0 => Cost(messages) < budget

Reported == phase = "evaluated" => report.rate = Rate

IInv ==
  /\ Typed /\ Settling /\ TurnTaking /\ Delegating /\ Streaks /\ VerdictEnds /\ Agreement
  /\ Outputs /\ Paid /\ Reported

-----------------------------------------------------------------------------
(* The least and the greatest of some numbers *)

Below == {ss \in Nat \X Nat : ss[1] < ss[2]}

LEMMA BelowWF == IsWellFoundedOn(Below, Nat)
BY NatLessThanWellFounded DEF OpToRel, Below

LEMMA LeastIn ==
  ASSUME NEW S \in SUBSET Nat, S # {}
  PROVE  Min(S) \in S /\ \A y \in S : Min(S) <= y
<1>1. PICK x \in S : \A y \in S : ~(<<y, x>> \in Below)
  BY BelowWF, WFMin
<1>2. ASSUME NEW y \in S PROVE x <= y
  <2>1. y < x => <<y, x>> \in Below
    BY DEF Below
  <2>2. QED BY <1>1, <2>1
<1>3. QED BY <1>2 DEF Min

LEMMA GreatestIn ==
  ASSUME NEW n \in Nat, NEW S \in SUBSET (1..n), S # {}
  PROVE  Max(S) \in S /\ \A y \in S : Max(S) >= y
<1> DEFINE T == {k \in Nat : \A y \in S : y <= k}
<1>1. n \in T /\ T \subseteq Nat
  OBVIOUS
<1>2. PICK x \in T : \A y \in T : ~(<<y, x>> \in Below)
  <2> HIDE DEF T
  <2>1. QED BY <1>1, BelowWF, WFMin
<1>3. x \in S
  <2> SUFFICES ASSUME x \notin S PROVE FALSE
    OBVIOUS
  <2>1. \A y \in S : y \in 1..n /\ y <= x /\ y # x
    BY <1>2
  <2>2. PICK z \in S : TRUE
    OBVIOUS
  <2>3. x \in Nat /\ x - 1 \in Nat
    BY <1>2, <2>1, <2>2
  <2>4. \A y \in S : y <= x - 1
    BY <2>1, <2>3
  <2>5. <<x - 1, x>> \in Below
    BY <2>3 DEF Below
  <2>6. QED BY <1>2, <2>3, <2>4, <2>5
<1>4. \A y \in S : x >= y
  OBVIOUS
<1>5. QED BY <1>3, <1>4 DEF Max

-----------------------------------------------------------------------------
(* The transcript *)

LEMMA TeamType ==
  ASSUME Typed
  PROVE  Len(team) \in Nat \ {0} /\ Agents = 1..Len(team)
<1>1. team \in Seq(STRING) /\ team # <<>>
  BY GroupSolveAssumption DEF Typed
<1>2. QED BY <1>1 DEF Agents

LEMMA TranscriptType ==
  ASSUME Typed
  PROVE  /\ DOMAIN messages = 1..Len(messages) /\ Len(messages) \in Nat
         /\ \A i \in DOMAIN messages : /\ messages[i].agent \in Agents /\ messages[i].type \in CallTypes
                                      /\ messages[i].text \in Text(protocol)
<1> DEFINE M == [agent : Agents, round : Nat, type : CallTypes, text : Text(protocol)]
<1>1. messages \in Seq(M)
  BY DEF Typed
<1> HIDE DEF M
<1>2. /\ DOMAIN messages = 1..Len(messages) /\ Len(messages) \in Nat
      /\ \A i \in DOMAIN messages : messages[i] \in M
  BY <1>1
<1>3. QED BY <1>2 DEF M

LEMMA SaidStays ==
  ASSUME UNCHANGED messages, NEW n
  PROVE  Said(n)' = Said(n)
BY DEF Said

\* What is said is said in the round.
LEMMA SaidGrows ==
  ASSUME Typed, NEW m, m.round = round, messages' = Append(messages, m), round' = round
  PROVE  /\ messages'[Len(messages) + 1] = m
         /\ Len(messages') = Len(messages) + 1
         /\ \A i \in DOMAIN messages : i # Len(messages) + 1 /\ messages'[i] = messages[i]
         /\ Said(round)' = Said(round) \cup {Len(messages) + 1}
         /\ \A n : n # round => Said(n)' = Said(n)
         /\ \A n : Said(n) \subseteq DOMAIN messages
         /\ DOMAIN messages = 1..Len(messages)
         /\ DOMAIN messages' = 1..Len(messages) + 1
<1>1. /\ messages'[Len(messages) + 1] = m
      /\ Len(messages') = Len(messages) + 1
      /\ \A i \in DOMAIN messages : i # Len(messages) + 1 /\ messages'[i] = messages[i]
      /\ DOMAIN messages = 1..Len(messages)
      /\ DOMAIN messages' = 1..Len(messages) + 1
      /\ Len(messages) \in Nat
  BY DEF Typed
<1>2. \A n : Said(n) \subseteq DOMAIN messages
  BY DEF Said
<1>3. \A n : Said(n)' = {i \in DOMAIN messages' : messages'[i].round = n}
  BY DEF Said
<1>4. Said(round)' = Said(round) \cup {Len(messages) + 1}
  BY <1>1, <1>3 DEF Said
<1>5. ASSUME NEW n, n # round PROVE Said(n)' = Said(n)
  BY <1>1, <1>3, <1>5 DEF Said
<1>6. QED BY <1>1, <1>2, <1>4, <1>5

\* The transcript of a round, and of the one before, says whether it has agreed.
LEMMA AgreedStays ==
  ASSUME UNCHANGED <<protocol, team>>, NEW n, NEW like,
         Said(n)' = Said(n), Said(n - 1)' = Said(n - 1),
         \A i \in Said(n) \cup Said(n - 1) : messages'[i] = messages[i]
  PROVE  AgreedIn(n, like)' <=> AgreedIn(n, like)
<1>1. ASSUME NEW i \in Said(n)
      PROVE  Backed(n, messages[i].text, like)' <=> Backed(n, messages[i].text, like)
  <2>1. {j \in Said(n) : Key(messages[j].text) = Key(messages[i].text) \/ <<messages[i].text, messages[j].text>> \in like}'
          = {j \in Said(n) : Key(messages[j].text) = Key(messages[i].text) \/ <<messages[i].text, messages[j].text>> \in like}
    BY <1>1
  <2>2. QED BY <2>1 DEF Backed
<1>2. (\E i \in Said(n) : Backed(n, messages[i].text, like))'
        <=> \E i \in Said(n) : Backed(n, messages[i].text, like)
  BY <1>1
<1>3. QED BY <1>2 DEF AgreedIn

-----------------------------------------------------------------------------
LEMMA InitInv == Init => IInv
<1> SUFFICES ASSUME Init PROVE IInv
  OBVIOUS
<1>1. /\ messages = <<>> /\ round = 0 /\ todo = <<>> /\ phase = "between" /\ status = "in_progress"
      /\ output = Nothing /\ attempts = 0 /\ streak = [a \in Agents |-> 0]
      /\ protocol \in Protocols /\ team \in Teams
  BY DEF Init
<1>2. /\ Len(messages) = 0 /\ DOMAIN messages = {} /\ \A n : Said(n) = {}
      /\ SubSeq(messages, 1, 0) = <<>>
  BY <1>1 DEF Said
<1>3. Typed
  BY <1>1, <1>2, GroupSolveAssumption DEF Typed, Statuses, Nothing
<1>4. Settling /\ TurnTaking /\ Delegating /\ VerdictEnds /\ Agreement /\ Outputs /\ Reported
  BY <1>1, <1>2 DEF Settling, TurnTaking, Delegating, VerdictEnds, Agreement, Outputs, Reported
<1>5. Streaks
  <2> SUFFICES ASSUME NEW a \in Agents
               PROVE  IF protocol = "blackboard"
                      THEN /\ streak[a] >= 1 <=> Silent(a, LastTurn(a))
                           /\ streak[a] >= 2 <=> Silent(a, LastTurn(a)) /\ Silent(a, LastTurn(a) - 1)
                           /\ streak[a] # 0 => streak[a] <= LastTurn(a)
                      ELSE streak[a] = 0
    BY DEF Streaks
  <2>1. streak[a] = 0 /\ ~Silent(a, LastTurn(a))
    BY <1>1, <1>2 DEF Silent
  <2>2. QED BY <2>1
<1>6. Paid
  <2>1. DOMAIN messages \ Said(round) = 1..0 /\ 0 \in 0..Len(messages)
    BY <1>1, <1>2
  <2>2. QED BY <1>1, <2>1 DEF Paid
<1>7. QED BY <1>3, <1>4, <1>5, <1>6 DEF IInv

-----------------------------------------------------------------------------
(* A round begins *)

\* Nobody was silent before the first round.
LEMMA SilentInRounds ==
  ASSUME Typed, NEW a, NEW n \in Int, n <= 0
  PROVE  ~Silent(a, n)
BY DEF Typed, Silent, Said

LEMMA NewRound ==
  ASSUME IInv, phase = "between", status = "in_progress", round < MaxRounds, round' = round + 1,
         UNCHANGED <<choice, messages, streak>>
  PROVE  /\ \A n : Said(n)' = Said(n)
         /\ Said(round)' = {} /\ Spoken' = {}
         /\ round' \in 1..MaxRounds
         /\ \A i \in DOMAIN messages : messages[i].round \in 1..round'
         /\ protocol # "delegation" =>
              \A n \in 1..round, a \in Agents : \E i \in Said(n) : messages[i].agent = a
         /\ Streaks'
         /\ \A n \in 1..round : ~AgreedIn(n, {})'
         /\ \E m \in 0..Len(messages) :
              /\ DOMAIN messages \ Said(round)' = 1..m
              /\ Cost(SubSeq(messages, 1, m)) < budget \/ round = 0
<1>1. /\ round \in Nat /\ messages \in Seq([agent : Agents, round : Nat, type : CallTypes, text : Text(protocol)])
      /\ \A i \in DOMAIN messages : messages[i].round \in 1..round
  BY GroupSolveAssumption DEF IInv, Typed
<1>2. \A n : Said(n)' = {i \in DOMAIN messages : messages[i].round = n}
  BY DEF Said
<1>3. \A n : Said(n)' = Said(n)
  BY <1>2 DEF Said
<1>4. Said(round)' = {}
  BY <1>1, <1>2
<1>5. Spoken' = {}
  BY <1>4 DEF Spoken
<1>6. round' \in 1..MaxRounds /\ \A i \in DOMAIN messages : messages[i].round \in 1..round'
  BY <1>1, GroupSolveAssumption
<1>7. ASSUME protocol # "delegation", NEW n \in 1..round, NEW a \in Agents
      PROVE  \E i \in Said(n) : messages[i].agent = a
  <2>1. CASE n = round
    <3>1. Spoken = Agents
      BY <1>1, <1>7, <2>1 DEF IInv, TurnTaking
    <3>2. QED BY <2>1, <3>1 DEF Spoken
  <2>2. CASE n # round
    <3>1. n \in 1..round - 1
      BY <1>1, <2>2
    <3>2. QED BY <1>7, <3>1 DEF IInv, TurnTaking
  <2>3. QED BY <2>1, <2>2
<1>8. Streaks'
  <2> SUFFICES ASSUME NEW a \in Agents, protocol = "blackboard"
               PROVE  /\ streak[a] >= 1 <=> Silent(a, LastTurn(a))'
                      /\ streak[a] >= 2 <=> Silent(a, LastTurn(a))' /\ Silent(a, LastTurn(a) - 1)'
                      /\ streak[a] # 0 => streak[a] <= LastTurn(a)'
    BY DEF IInv, Streaks, choice, Agents
  <2>1. LastTurn(a)' = round
    BY <1>1, <1>5 DEF LastTurn
  <2>2. Silent(a, LastTurn(a))' <=> Silent(a, round)
    BY <1>3, <2>1 DEF Silent
  <2>3. Silent(a, LastTurn(a) - 1)' <=> Silent(a, round - 1)
    BY <1>3, <2>1 DEF Silent
  <2>4. streak[a] \in Nat
    BY <1>1 DEF IInv, Typed
  <2>5. CASE round > 0
    <3>1. LastTurn(a) = round
      BY <2>5 DEF IInv, TurnTaking, LastTurn
    <3>2. QED BY <2>1, <2>2, <2>3, <3>1 DEF IInv, Streaks
  <2>6. CASE round = 0
    <3>1. LastTurn(a) \in {0, -1}
      BY <2>6 DEF LastTurn
    <3>2. ~Silent(a, LastTurn(a)) /\ ~Silent(a, round)
      BY <2>6, <3>1, SilentInRounds DEF IInv
    <3>3. streak[a] = 0
      BY <2>4, <3>2 DEF IInv, Streaks
    <3>4. QED BY <2>2, <3>2, <3>3
  <2>7. QED BY <1>1, <2>5, <2>6
<1>9. ASSUME NEW n \in 1..round PROVE ~AgreedIn(n, {})'
  <2>1. ~AgreedIn(n, {})
    <3>1. CASE n = round
      BY <1>1, <3>1 DEF IInv, Agreement
    <3>2. CASE n # round
      <4>1. n \in 1..round - 1
        BY <1>1, <3>2
      <4>2. QED BY <4>1 DEF IInv, Agreement
    <3>3. QED BY <3>1, <3>2
  <2>2. UNCHANGED <<protocol, team>> /\ Said(n)' = Said(n) /\ Said(n - 1)' = Said(n - 1)
        /\ \A i \in Said(n) \cup Said(n - 1) : messages'[i] = messages[i]
    BY <1>3 DEF choice
  <2>3. QED BY <2>1, <2>2, AgreedStays
<1>10. /\ Len(messages) \in 0..Len(messages) /\ DOMAIN messages = 1..Len(messages)
       /\ SubSeq(messages, 1, Len(messages)) = messages
  BY <1>1
<1>11. DOMAIN messages \ Said(round)' = 1..Len(messages)
  BY <1>4, <1>10
<1>12. Cost(messages) < budget \/ round = 0
  BY <1>1 DEF IInv, Paid
<1>13. Cost(SubSeq(messages, 1, Len(messages))) < budget \/ round = 0
  BY <1>10, <1>12
<1>14. QED
  <2>1. \E m \in 0..Len(messages) :
          /\ DOMAIN messages \ Said(round)' = 1..m
          /\ Cost(SubSeq(messages, 1, m)) < budget \/ round = 0
    BY <1>10, <1>11, <1>13
  <2>2. QED BY <1>3, <1>4, <1>5, <1>6, <1>7, <1>8, <1>9, <2>1

LEMMA SeqOfOne ==
  ASSUME NEW S, NEW x \in S
  PROVE  <<x>> \in Seq(S)
OBVIOUS

LEMMA StartRoundInv == IInv /\ StartRound => IInv'
<1> SUFFICES ASSUME IInv, StartRound PROVE IInv'
  OBVIOUS
<1>1. /\ phase = "between" /\ status = "in_progress" /\ round < MaxRounds /\ round' = round + 1
      /\ UNCHANGED <<choice, messages, streak>> /\ phase' = "calling" /\ todo' = Opening
      /\ UNCHANGED <<status, output, attempts, report>>
  BY DEF StartRound
<1>2. UNCHANGED <<protocol, team, budget>> /\ Agents' = Agents /\ round \in Nat /\ round' \in 1..MaxRounds
  BY <1>1, GroupSolveAssumption DEF choice, Agents, IInv, Typed
<1>3. Len(team) \in Nat \ {0} /\ Agents = 1..Len(team)
  BY TeamType DEF IInv
<1>4. protocol = "delegation" => todo' = <<Call(1, "plan")>>
  BY <1>1 DEF Opening
<1>5. protocol # "delegation" =>
        Len(todo') = Len(team) /\ DOMAIN todo' = 1..Len(team) /\ \A i \in 1..Len(team) : todo'[i] = Call(i, Turn)
  BY <1>1, <1>3 DEF Opening, Turn
<1>6. todo' \in Seq([agent : Agents \cup {0}, type : CallTypes])
  <2>1. CASE protocol = "delegation"
    <3>1. Call(1, "plan") \in [agent : Agents \cup {0}, type : CallTypes]
      BY <1>3 DEF Call, CallTypes
    <3>2. <<Call(1, "plan")>> \in Seq([agent : Agents \cup {0}, type : CallTypes])
      BY <3>1, SeqOfOne
    <3>3. QED BY <1>4, <2>1, <3>2
  <2>2. CASE protocol # "delegation"
    <3>1. Turn \in CallTypes
      BY <2>2, GroupSolveAssumption DEF IInv, Typed, Turn, CallTypes
    <3>2. \A a \in 1..Len(team) : Call(a, Turn) \in [agent : Agents \cup {0}, type : CallTypes]
      BY <1>3, <3>1 DEF Call
    <3>3. todo' = [a \in 1..Len(team) |-> Call(a, Turn)]
      BY <1>1, <1>3, <2>2 DEF Opening, Turn
    <3>4. QED BY <1>3, <3>2, <3>3
  <2>3. QED BY <2>1, <2>2
<1>7. Typed'
  BY <1>1, <1>2, <1>6, NewRound DEF IInv, Typed
<1>8. Settling' /\ Outputs' /\ Reported'
  BY <1>1, <1>2 DEF IInv, Settling, Outputs, Reported
<1>9. TurnTaking'
  <2> SUFFICES ASSUME protocol # "delegation" PROVE TurnTaking'
    BY <1>2 DEF TurnTaking
  <2>1. Turn' = Turn
    BY <1>2 DEF Turn
  <2>2. /\ Len(todo') <= Len(team')
        /\ \A i \in 1..Len(todo') : todo'[i] = Call(Len(team') - Len(todo') + i, Turn')
        /\ Spoken' = 1..Len(team') - Len(todo')
    <3>1. Spoken' = {} /\ 1..0 = {}
      BY <1>1, NewRound
    <3>2. Len(todo') = Len(team') /\ Len(team') \in Nat
      BY <1>2, <1>3, <1>5
    <3>3. ASSUME NEW i \in 1..Len(todo') PROVE todo'[i] = Call(Len(team') - Len(todo') + i, Turn')
      <4>1. Len(team') - Len(todo') + i = i /\ i \in 1..Len(team)
        BY <1>2, <3>2
      <4>2. QED BY <1>5, <2>1, <4>1
    <3>4. QED BY <3>1, <3>2, <3>3
  <2>3. \A n \in 1..round' - 1, a \in Agents : \E i \in Said(n)' : messages'[i].agent = a
    BY <1>1, <1>2, NewRound
  <2>4. \A i, j \in DOMAIN messages :
          messages[i].round = messages[j].round /\ messages[i].agent = messages[j].agent => i = j
    BY DEF IInv, TurnTaking
  <2>5. QED BY <1>1, <1>2, <2>2, <2>3, <2>4 DEF TurnTaking
<1>10. Delegating'
  BY <1>1, <1>2, <1>4, NewRound DEF Delegating
<1>11. Streaks'
  BY <1>1, NewRound
<1>12. VerdictEnds'
  BY <1>1, <1>2 DEF IInv, VerdictEnds
<1>13. Agreement'
  BY <1>1, <1>2, NewRound DEF Agreement
<1>14. Paid'
  BY <1>1, <1>2, NewRound DEF Paid
<1>15. QED BY <1>7, <1>8, <1>9, <1>10, <1>11, <1>12, <1>13, <1>14 DEF IInv

LEMMA RefuseRoundInv == IInv /\ RefuseRound => IInv'
<1> SUFFICES ASSUME IInv, RefuseRound PROVE IInv'
  OBVIOUS
<1>1. /\ phase = "between" /\ status = "in_progress" /\ round < MaxRounds /\ round' = round + 1
      /\ UNCHANGED <<choice, messages, streak>> /\ status' = "failed"
      /\ UNCHANGED <<phase, output, todo, attempts, report>>
  BY DEF RefuseRound
<1>2. UNCHANGED <<protocol, team, budget>> /\ Agents' = Agents /\ round \in Nat /\ round' \in 1..MaxRounds
  BY <1>1, GroupSolveAssumption DEF choice, Agents, IInv, Typed
<1>3. Typed'
  BY <1>1, <1>2, NewRound DEF IInv, Typed, Statuses
<1>4. Settling' /\ Outputs' /\ Reported' /\ Delegating'
  BY <1>1, <1>2 DEF IInv, Settling, Outputs, Reported, Delegating
<1>5. TurnTaking'
  BY <1>1, <1>2, NewRound DEF IInv, TurnTaking
<1>6. Streaks'
  BY <1>1, NewRound
<1>7. VerdictEnds'
  BY <1>1, <1>2 DEF IInv, VerdictEnds
<1>8. Agreement'
  BY <1>1, <1>2, NewRound DEF Agreement
<1>9. Paid'
  BY <1>1, <1>2, NewRound DEF Paid
<1>10. QED BY <1>3, <1>4, <1>5, <1>6, <1>7, <1>8, <1>9 DEF IInv

-----------------------------------------------------------------------------
(* The steps at which nothing is said *)

LEMMA SameTranscript ==
  ASSUME IInv, UNCHANGED <<choice, round, messages>>
  PROVE  /\ UNCHANGED <<protocol, team, budget, Agents, Turn, Spoken>>
         /\ \A n : Said(n)' = Said(n)
         /\ \A n, like : AgreedIn(n, like)' <=> AgreedIn(n, like)
         /\ UNCHANGED streak => Streaks'
<1>1. UNCHANGED <<protocol, team, budget, Agents, Turn>>
  BY DEF choice, Agents, Turn
<1>2. \A n : Said(n)' = Said(n)
  BY SaidStays
<1>3. UNCHANGED Spoken
  BY <1>2 DEF Spoken
<1>4. ASSUME NEW n, NEW like PROVE AgreedIn(n, like)' <=> AgreedIn(n, like)
  BY <1>1, <1>2, AgreedStays
<1>5. ASSUME UNCHANGED streak PROVE Streaks'
  <2>1. \A a, n : Silent(a, n)' <=> Silent(a, n)
    BY <1>2 DEF Silent
  <2>2. \A a : LastTurn(a)' = LastTurn(a)
    BY <1>3 DEF LastTurn
  <2>3. QED BY <1>1, <1>5, <2>1, <2>2 DEF IInv, Streaks
<1>6. QED BY <1>1, <1>2, <1>3, <1>4, <1>5

\* While an agent is called nothing is settled, and nobody has given a verdict.
LEMMA WhileCalling ==
  ASSUME IInv, phase = "calling", todo # <<>>
  PROVE  /\ status = "in_progress" /\ round \in 1..MaxRounds
         /\ Head(todo) = todo[1] /\ Len(todo) \in Nat \ {0} /\ DOMAIN todo = 1..Len(todo)
         /\ Head(todo) \in [agent : Agents \cup {0}, type : CallTypes]
         /\ protocol = "debate" =>
              \A i \in DOMAIN messages : ~(messages[i].agent = 3 /\ messages[i].text \in Signal)
<1>1. status = "in_progress" /\ round \in 1..MaxRounds
  BY GroupSolveAssumption DEF IInv, Typed, Settling
<1>2. todo \in Seq([agent : Agents \cup {0}, type : CallTypes])
  BY DEF IInv, Typed
<1>3. /\ Head(todo) = todo[1] /\ Len(todo) \in Nat \ {0} /\ DOMAIN todo = 1..Len(todo)
      /\ Head(todo) \in [agent : Agents \cup {0}, type : CallTypes]
  <2> DEFINE T == [agent : Agents \cup {0}, type : CallTypes]
  <2>1. todo \in Seq(T) /\ todo # <<>>
    BY <1>2
  <2> HIDE DEF T
  <2>2. Head(todo) = todo[1] /\ Len(todo) \in Nat \ {0} /\ DOMAIN todo = 1..Len(todo) /\ Head(todo) \in T
    BY <2>1
  <2>3. QED BY <2>2 DEF T
<1>4. QED BY <1>1, <1>3 DEF IInv, VerdictEnds

\* A call of an agent that is not there is one of a delegation, and not the last.
LEMMA SkipTaskInv == IInv /\ SkipTask => IInv'
<1> SUFFICES ASSUME IInv, SkipTask PROVE IInv'
  OBVIOUS
<1>1. /\ phase = "calling" /\ todo # <<>> /\ Head(todo).agent = 0 /\ todo' = Tail(todo)
      /\ UNCHANGED <<choice, phase, round, status, output, messages, attempts, streak, report>>
  BY DEF SkipTask
<1>2. /\ UNCHANGED <<protocol, team, budget, Agents, Turn, Spoken>>
      /\ \A n : Said(n)' = Said(n)
      /\ \A n, like : AgreedIn(n, like)' <=> AgreedIn(n, like)
      /\ Streaks'
  BY <1>1, SameTranscript
<1>3. /\ status = "in_progress" /\ Head(todo) = todo[1] /\ Len(todo) \in Nat \ {0} /\ DOMAIN todo = 1..Len(todo)
      /\ todo \in Seq([agent : Agents \cup {0}, type : CallTypes])
  BY <1>1, WhileCalling DEF IInv, Typed
<1>4. protocol = "delegation"
  <2> SUFFICES ASSUME protocol # "delegation" PROVE FALSE
    OBVIOUS
  <2>1. todo[1] = Call(Len(team) - Len(todo) + 1, Turn) /\ Len(todo) <= Len(team)
    BY <1>1, <1>3 DEF IInv, TurnTaking
  <2>2. Len(team) \in Nat
    BY TeamType DEF IInv
  <2>3. QED BY <1>1, <1>3, <2>1, <2>2 DEF Call
<1>5. /\ \A i \in DOMAIN todo : /\ todo[i].type \in {"report", "summary"}
                                /\ todo[i].type = "summary" <=> i = Len(todo)
                                /\ todo[i].agent = 0 => todo[i].type = "report"
      /\ \A i \in Said(round) : messages[i].type # "summary"
  <2>1. todo # <<Call(1, "plan")>>
    BY <1>1 DEF Call
  <2>2. QED BY <1>1, <1>4, <2>1 DEF IInv, Delegating
<1>6. Len(todo) > 1
  BY <1>1, <1>3, <1>5
<1>7. /\ todo' \in Seq([agent : Agents \cup {0}, type : CallTypes])
      /\ Len(todo') = Len(todo) - 1 /\ DOMAIN todo' = 1..Len(todo')
      /\ \A i \in DOMAIN todo' : todo'[i] = todo[i + 1] /\ i + 1 \in DOMAIN todo
      /\ todo' # <<>>
  BY <1>1, <1>3, <1>6, SMTT(30)
<1>8. Typed'
  BY <1>1, <1>2, <1>7 DEF IInv, Typed
<1>9. Settling' /\ TurnTaking' /\ VerdictEnds' /\ Agreement' /\ Outputs' /\ Paid' /\ Reported'
  BY <1>1, <1>2, <1>3, <1>4 DEF IInv, Settling, TurnTaking, VerdictEnds, Agreement, Outputs, Paid, Reported, Rate
<1>10. Delegating'
  <2>1. ASSUME NEW i \in DOMAIN todo'
        PROVE  /\ todo'[i].type \in {"report", "summary"}
               /\ todo'[i].type = "summary" <=> i = Len(todo')
               /\ todo'[i].agent = 0 => todo'[i].type = "report"
    <3>1. i + 1 = Len(todo) <=> i = Len(todo')
      BY <1>3, <1>7
    <3>2. QED BY <1>5, <1>7, <3>1
  <2>2. \A i \in Said(round)' : messages'[i].type # "summary"
    BY <1>1, <1>2, <1>5
  <2>3. QED BY <1>1, <1>7, <2>1, <2>2 DEF Delegating
<1>11. QED BY <1>2, <1>8, <1>9, <1>10 DEF IInv

LEMMA CallRetriedInv == IInv /\ CallRetried => IInv'
<1> SUFFICES ASSUME IInv, CallRetried PROVE IInv'
  OBVIOUS
<1>1. /\ attempts < 2 /\ attempts' = attempts + 1
      /\ UNCHANGED <<choice, phase, round, status, output, messages, todo, streak, report>>
  BY DEF CallRetried
<1>2. /\ UNCHANGED <<protocol, team, budget, Agents, Turn, Spoken>>
      /\ \A n : Said(n)' = Said(n)
      /\ \A n, like : AgreedIn(n, like)' <=> AgreedIn(n, like)
      /\ Streaks'
  BY <1>1, SameTranscript
<1>3. Typed'
  BY <1>1, <1>2 DEF IInv, Typed
<1>4. Settling' /\ VerdictEnds' /\ Agreement'
  BY <1>1, <1>2 DEF IInv, Settling, VerdictEnds, Agreement
<1>5. Outputs' /\ Paid' /\ Reported'
  BY <1>1, <1>2 DEF IInv, Outputs, Paid, Reported, Rate
<1>6. TurnTaking' /\ Delegating'
  BY <1>1, <1>2 DEF IInv, TurnTaking, Delegating
<1>7. QED BY <1>2, <1>3, <1>4, <1>5, <1>6 DEF IInv

LEMMA CallFailsInv == IInv /\ CallFails => IInv'
<1> SUFFICES ASSUME IInv, CallFails PROVE IInv'
  OBVIOUS
<1>1. /\ phase = "calling" /\ todo # <<>>
      /\ status' = "failed" /\ phase' = "between" /\ todo' = <<>> /\ attempts' = 0
      /\ UNCHANGED <<choice, round, output, messages, streak, report>>
  BY DEF CallFails, Calling
<1>2. /\ UNCHANGED <<protocol, team, budget, Agents, Turn, Spoken>>
      /\ \A n : Said(n)' = Said(n)
      /\ \A n, like : AgreedIn(n, like)' <=> AgreedIn(n, like)
      /\ Streaks'
  BY <1>1, SameTranscript
<1>3. /\ protocol = "debate" =>
           \A i \in DOMAIN messages : ~(messages[i].agent = 3 /\ messages[i].text \in Signal)
  BY <1>1, WhileCalling
<1>4. <<>> \in Seq([agent : Agents \cup {0}, type : CallTypes])
  OBVIOUS
<1>5. Typed'
  BY <1>1, <1>2, <1>4 DEF IInv, Typed, Statuses
<1>6. Settling' /\ TurnTaking' /\ Delegating' /\ VerdictEnds' /\ Agreement' /\ Outputs' /\ Paid' /\ Reported'
  BY <1>1, <1>2, <1>3 DEF IInv, Settling, TurnTaking, Delegating, VerdictEnds, Agreement, Outputs, Paid, Reported
<1>7. QED BY <1>2, <1>5, <1>6 DEF IInv

LEMMA ReturnInv == IInv /\ Return => IInv'
<1> SUFFICES ASSUME IInv, Return PROVE IInv'
  OBVIOUS
<1>1. /\ phase = "between"
      /\ status # "in_progress" \/ round >= MaxRounds
      /\ phase' = "returned" /\ status' = IF status = "in_progress" THEN "completed" ELSE status
      /\ UNCHANGED <<choice, round, output, messages, todo, attempts, streak, report>>
  BY DEF Return
<1>2. /\ UNCHANGED <<protocol, team, budget, Agents, Turn, Spoken>>
      /\ \A n : Said(n)' = Said(n)
      /\ \A n, like : AgreedIn(n, like)' <=> AgreedIn(n, like)
      /\ Streaks'
  BY <1>1, SameTranscript
<1>3. round \in 0..MaxRounds /\ MaxRounds > 0 /\ MaxRounds \in Nat
  BY GroupSolveAssumption DEF IInv, Typed
<1>4. Typed'
  BY <1>1, <1>2 DEF IInv, Typed, Statuses
<1>5. CASE status = "in_progress"
  <2>1. round = MaxRounds /\ round > 0 /\ status' = "completed"
    BY <1>1, <1>3, <1>5
  <2>2. output # Nothing /\ ~AgreedIn(round, {})
    BY <1>1, <1>3, <1>5, <2>1 DEF IInv, Outputs, Agreement
  <2>3. Settling' /\ TurnTaking' /\ Delegating' /\ VerdictEnds' /\ Agreement' /\ Outputs' /\ Paid' /\ Reported'
    BY <1>1, <1>2, <1>5, <2>1, <2>2 DEF IInv, Settling, TurnTaking, Delegating, VerdictEnds, Agreement, Outputs, Paid, Reported
  <2>4. QED BY <1>2, <1>4, <2>3 DEF IInv
<1>6. CASE status # "in_progress"
  <2>1. status' = status
    BY <1>1, <1>6
  <2>2. Settling' /\ TurnTaking' /\ Delegating' /\ VerdictEnds' /\ Agreement' /\ Outputs' /\ Paid' /\ Reported'
    BY <1>1, <1>2, <1>6, <2>1 DEF IInv, Settling, TurnTaking, Delegating, VerdictEnds, Agreement, Outputs, Paid, Reported
  <2>3. QED BY <1>2, <1>4, <2>2 DEF IInv
<1>7. QED BY <1>5, <1>6

LEMMA EvaluateInv == ASSUME IInv, NEW texts, Evaluate(texts) PROVE IInv'
<1>1. /\ phase = "returned" /\ phase' = "evaluated" /\ report'.rate = Rate
      /\ UNCHANGED <<choice, round, status, output, messages, todo, attempts, streak>>
  BY DEF Evaluate
<1>2. /\ UNCHANGED <<protocol, team, budget, Agents, Turn, Spoken>>
      /\ \A n : Said(n)' = Said(n)
      /\ \A n, like : AgreedIn(n, like)' <=> AgreedIn(n, like)
      /\ Streaks'
  BY <1>1, SameTranscript
<1>3. Typed'
  BY <1>1, <1>2 DEF IInv, Typed
<1>4. Settling' /\ TurnTaking' /\ Delegating' /\ VerdictEnds' /\ Agreement' /\ Outputs' /\ Paid' /\ Reported'
  BY <1>1, <1>2 DEF IInv, Settling, TurnTaking, Delegating, VerdictEnds, Agreement, Outputs, Paid, Reported, Rate
<1>5. QED BY <1>2, <1>3, <1>4 DEF IInv

LEMMA StutterInv == IInv /\ UNCHANGED vars => IInv'
<1> SUFFICES ASSUME IInv, UNCHANGED vars PROVE IInv'
  OBVIOUS
<1>1. UNCHANGED <<choice, phase, round, status, output, messages, todo, attempts, streak, report>>
  BY DEF vars, choice
<1>2. /\ UNCHANGED <<protocol, team, budget, Agents, Turn, Spoken>>
      /\ \A n : Said(n)' = Said(n)
      /\ \A n, like : AgreedIn(n, like)' <=> AgreedIn(n, like)
      /\ Streaks'
  BY <1>1, SameTranscript
<1>3. Typed'
  BY <1>1, <1>2 DEF IInv, Typed
<1>4. Settling' /\ VerdictEnds' /\ Agreement' /\ Outputs' /\ Paid' /\ Reported'
  BY <1>1, <1>2 DEF IInv, Settling, VerdictEnds, Agreement, Outputs, Paid, Reported, Rate
<1>5. TurnTaking' /\ Delegating'
  BY <1>1, <1>2 DEF IInv, TurnTaking, Delegating
<1>6. QED BY <1>2, <1>3, <1>4, <1>5 DEF IInv

-----------------------------------------------------------------------------
(* An agent answers *)

Message(t) == [agent |-> Head(todo).agent, round |-> round, type |-> Head(todo).type, text |-> t]

\* What every answer does.
LEMMA Said1 ==
  ASSUME IInv, NEW t, Say(t)
  PROVE  /\ UNCHANGED <<protocol, team, budget, Agents, Turn, phase, round, report>>
         /\ phase = "calling" /\ status = "in_progress" /\ round \in 1..MaxRounds /\ attempts' = 0
         /\ Message(t).agent \in Agents /\ Message(t).type \in CallTypes
         /\ Message(t).round = round /\ Message(t).text = t
         /\ messages'[Len(messages) + 1] = Message(t)
         /\ Len(messages) \in Nat /\ Len(messages') = Len(messages) + 1
         /\ DOMAIN messages = 1..Len(messages) /\ DOMAIN messages' = 1..Len(messages) + 1
         /\ \A i \in DOMAIN messages : i # Len(messages) + 1 /\ messages'[i] = messages[i]
         /\ Said(round)' = Said(round) \cup {Len(messages) + 1}
         /\ \A n : n # round => Said(n)' = Said(n)
         /\ \A n : Said(n) \subseteq DOMAIN messages
         /\ messages' \in Seq([agent : Agents, round : Nat, type : CallTypes, text : Text(protocol)])
         /\ todo # <<>> /\ Head(todo) = todo[1] /\ Len(todo) \in Nat \ {0} /\ DOMAIN todo = 1..Len(todo)
<1>1. /\ Calling /\ t \in Text(protocol) /\ messages' = Append(messages, Message(t))
      /\ attempts' = 0 /\ UNCHANGED <<choice, phase, round, report>>
  BY DEF Say, Message
<1>2. /\ UNCHANGED <<protocol, team, budget, Agents, Turn, phase, round, report>>
      /\ phase = "calling" /\ todo # <<>> /\ Head(todo).agent # 0
  BY <1>1 DEF Calling, choice, Agents, Turn
<1>3. /\ status = "in_progress" /\ round \in 1..MaxRounds
      /\ Head(todo) = todo[1] /\ Len(todo) \in Nat \ {0} /\ DOMAIN todo = 1..Len(todo)
      /\ Head(todo).agent \in Agents /\ Head(todo).type \in CallTypes
  BY <1>2, WhileCalling
<1>4. Typed /\ round \in Nat
  BY <1>3, GroupSolveAssumption DEF IInv
<1>5. /\ Message(t).agent \in Agents /\ Message(t).type \in CallTypes
      /\ Message(t).round = round /\ Message(t).text = t
      /\ Message(t) \in [agent : Agents, round : Nat, type : CallTypes, text : Text(protocol)]
  BY <1>1, <1>3, <1>4 DEF Message
<1>6. /\ messages'[Len(messages) + 1] = Message(t)
      /\ Len(messages') = Len(messages) + 1
      /\ \A i \in DOMAIN messages : i # Len(messages) + 1 /\ messages'[i] = messages[i]
      /\ Said(round)' = Said(round) \cup {Len(messages) + 1}
      /\ \A n : n # round => Said(n)' = Said(n)
      /\ \A n : Said(n) \subseteq DOMAIN messages
      /\ DOMAIN messages = 1..Len(messages) /\ DOMAIN messages' = 1..Len(messages) + 1
  BY <1>1, <1>2, <1>4, <1>5, SaidGrows
<1>7. /\ messages' \in Seq([agent : Agents, round : Nat, type : CallTypes, text : Text(protocol)])
      /\ Len(messages) \in Nat
  <2> DEFINE M == [agent : Agents, round : Nat, type : CallTypes, text : Text(protocol)]
  <2>1. messages \in Seq(M) /\ Message(t) \in M /\ messages' = Append(messages, Message(t))
    BY <1>1, <1>4, <1>5 DEF Typed
  <2> HIDE DEF M
  <2>2. messages' \in Seq(M) /\ Len(messages) \in Nat
    BY <2>1
  <2>3. QED BY <2>2 DEF M
<1>8. QED BY <1>1, <1>2, <1>3, <1>5, <1>6, <1>7

\* In a round of turns the first call is that of the next agent in the order.
LEMMA NextInTurn ==
  ASSUME IInv, phase = "calling", todo # <<>>, protocol # "delegation"
  PROVE  /\ Head(todo).type = Turn
         /\ Head(todo).agent = Len(team) - Len(todo) + 1
         /\ Head(todo).agent \in Agents \ Spoken
         /\ Spoken = 1..Len(team) - Len(todo)
         /\ Len(team) \in Nat \ {0} /\ Agents = 1..Len(team)
         /\ Len(todo) <= Len(team)
         /\ \A i \in 1..Len(todo) : todo[i] = Call(Len(team) - Len(todo) + i, Turn)
<1>1. status = "in_progress" /\ Head(todo) = todo[1] /\ Len(todo) \in Nat \ {0}
  BY WhileCalling
<1>2. /\ Len(todo) <= Len(team) /\ Spoken = 1..Len(team) - Len(todo)
      /\ \A i \in 1..Len(todo) : todo[i] = Call(Len(team) - Len(todo) + i, Turn)
  BY <1>1 DEF IInv, TurnTaking
<1>3. Len(team) \in Nat \ {0} /\ Agents = 1..Len(team)
  BY TeamType DEF IInv
<1>4. Head(todo) = Call(Len(team) - Len(todo) + 1, Turn)
  BY <1>1, <1>2
<1>5. QED BY <1>1, <1>2, <1>3, <1>4 DEF Call

\* In a round of delegation the first call is the plan, a report or the summary.
LEMMA NextInPlan ==
  ASSUME IInv, phase = "calling", todo # <<>>, protocol = "delegation"
  PROVE  \/ todo = <<Call(1, "plan")>> /\ Said(round) = {} /\ Head(todo).type = "plan"
         \/ /\ Head(todo).type \in {"report", "summary"}
            /\ \A i \in DOMAIN todo : /\ todo[i].type \in {"report", "summary"}
                                      /\ todo[i].type = "summary" <=> i = Len(todo)
                                      /\ todo[i].agent = 0 => todo[i].type = "report"
            /\ \A i \in Said(round) : messages[i].type # "summary"
<1>1. Head(todo) = todo[1] /\ Len(todo) \in Nat \ {0} /\ DOMAIN todo = 1..Len(todo)
  BY WhileCalling
<1>2. CASE todo = <<Call(1, "plan")>> /\ Said(round) = {}
  BY <1>2 DEF Call
<1>3. CASE /\ \A i \in DOMAIN todo : /\ todo[i].type \in {"report", "summary"}
                                     /\ todo[i].type = "summary" <=> i = Len(todo)
                                     /\ todo[i].agent = 0 => todo[i].type = "report"
           /\ \A i \in Said(round) : messages[i].type # "summary"
  BY <1>1, <1>3
<1>4. QED BY <1>2, <1>3 DEF IInv, Delegating

\* What every answer leaves as it was.
LEMMA SayKeeps ==
  ASSUME IInv, NEW t, Say(t)
  PROVE  /\ \A i \in DOMAIN messages' : messages'[i].round \in 1..round'
         /\ protocol # "delegation" =>
              /\ \A i, j \in DOMAIN messages' :
                   messages'[i].round = messages'[j].round /\ messages'[i].agent = messages'[j].agent => i = j
              /\ \A n \in 1..round' - 1, a \in Agents : \E i \in Said(n)' : messages'[i].agent = a
         /\ Spoken' = Spoken \cup {Message(t).agent}
         /\ \A n \in 1..round' - 1 : ~AgreedIn(n, {})'
         /\ \E m \in 0..Len(messages') :
              /\ DOMAIN messages' \ Said(round)' = 1..m
              /\ round' > 1 => Cost(SubSeq(messages', 1, m)) < budget
<1> DEFINE k == Len(messages) + 1
<1>0. /\ UNCHANGED <<protocol, team, budget, Agents, round>>
      /\ phase = "calling" /\ todo # <<>> /\ round \in 1..MaxRounds /\ round \in Nat
      /\ Message(t).round = round /\ messages'[k] = Message(t)
      /\ Len(messages) \in Nat /\ Len(messages') = k
      /\ DOMAIN messages = 1..Len(messages) /\ DOMAIN messages' = DOMAIN messages \cup {k}
      /\ \A i \in DOMAIN messages : i # k /\ messages'[i] = messages[i]
      /\ Said(round)' = Said(round) \cup {k}
      /\ \A n : n # round => Said(n)' = Said(n)
      /\ \A n : Said(n) \subseteq DOMAIN messages
  <2>1. 1..Len(messages) + 1 = (1..Len(messages)) \cup {Len(messages) + 1}
    BY Said1
  <2>2. MaxRounds \in Nat /\ round \in 1..MaxRounds
    BY Said1, GroupSolveAssumption
  <2>3. DOMAIN messages' = DOMAIN messages \cup {k}
    BY Said1, <2>1
  <2>4. QED BY Said1, <2>2, <2>3
<1>1. messages' = Append(messages, Message(t))
  BY DEF Say, Message
<1> HIDE DEF k
<1>2. \A i \in DOMAIN messages' : messages'[i].round \in 1..round'
  BY <1>0 DEF IInv, Typed
<1>3. ASSUME protocol # "delegation"
      PROVE  /\ \A i, j \in DOMAIN messages' :
                  messages'[i].round = messages'[j].round /\ messages'[i].agent = messages'[j].agent => i = j
             /\ \A n \in 1..round' - 1, a \in Agents : \E i \in Said(n)' : messages'[i].agent = a
  <2>1. \A i \in DOMAIN messages : messages[i].round = round => messages[i].agent # Message(t).agent
    BY <1>0, <1>3, NextInTurn DEF Message, Spoken, Said
  <2>2. \A i, j \in DOMAIN messages :
          messages[i].round = messages[j].round /\ messages[i].agent = messages[j].agent => i = j
    BY <1>3 DEF IInv, TurnTaking
  <2>3. \A i, j \in DOMAIN messages' :
          messages'[i].round = messages'[j].round /\ messages'[i].agent = messages'[j].agent => i = j
    BY <1>0, <2>1, <2>2
  <2>4. ASSUME NEW n \in 1..round' - 1, NEW a \in Agents
        PROVE  \E i \in Said(n)' : messages'[i].agent = a
    <3>1. n \in 1..round - 1 /\ n # round
      BY <1>0
    <3>2. PICK i \in Said(n) : messages[i].agent = a
      BY <1>3, <3>1 DEF IInv, TurnTaking
    <3>3. QED BY <1>0, <3>1, <3>2
  <2>5. QED BY <2>3, <2>4
<1>4. Spoken' = Spoken \cup {Message(t).agent}
  <2>1. Spoken' = {messages'[i].agent : i \in Said(round)'}
    BY DEF Spoken
  <2>2. QED BY <1>0, <2>1 DEF Spoken
<1>5. ASSUME NEW n \in 1..round' - 1 PROVE ~AgreedIn(n, {})'
  <2>1. n \in 1..round - 1 /\ n # round /\ n - 1 # round
    BY <1>0
  <2>2. Said(n)' = Said(n) /\ Said(n - 1)' = Said(n - 1)
    BY <1>0, <2>1
  <2>3. \A i \in Said(n) \cup Said(n - 1) : messages'[i] = messages[i]
    BY <1>0
  <2>4. ~AgreedIn(n, {})
    BY <2>1 DEF IInv, Agreement
  <2>5. QED BY <1>0, <2>2, <2>3, <2>4, AgreedStays
<1>6. \E m \in 0..Len(messages') :
        /\ DOMAIN messages' \ Said(round)' = 1..m
        /\ round' > 1 => Cost(SubSeq(messages', 1, m)) < budget
  <2>1. PICK m \in 0..Len(messages) :
          /\ DOMAIN messages \ Said(round) = 1..m
          /\ round > 1 => Cost(SubSeq(messages, 1, m)) < budget
    BY DEF IInv, Paid
  <2>2. DOMAIN messages' \ Said(round)' = 1..m
    BY <1>0, <2>1
  <2>3. SubSeq(messages', 1, m) = SubSeq(messages, 1, m)
    <3> DEFINE M == [agent : Agents, round : Nat, type : CallTypes, text : Text(protocol)]
    <3>1. messages \in Seq(M) /\ Message(t) \in M
      BY Said1 DEF IInv, Typed, Message, Say
    <3> HIDE DEF M
    <3>2. SubSeq(messages, 1, m) = [i \in 1..m |-> messages[i]]
      BY <2>1, <3>1
    <3>3. messages' \in Seq(M)
      BY <1>1, <3>1
    <3>4. SubSeq(messages', 1, m) = [i \in 1..m |-> messages'[i]]
      BY <1>0, <2>1, <3>3
    <3>5. \A i \in 1..m : messages'[i] = messages[i]
      BY <1>0, <2>1
    <3>6. QED BY <3>2, <3>4, <3>5
  <2>4. m \in 0..Len(messages')
    BY <1>0, <2>1 DEF k
  <2>5. QED BY <1>0, <2>1, <2>2, <2>3, <2>4
<1>7. QED BY <1>2, <1>3, <1>4, <1>5, <1>6

\* The judge's verdict ends a debate.
LEMMA VerdictInv == ASSUME IInv, NEW t, Verdict(t) PROVE IInv'
<1> DEFINE k == Len(messages) + 1
<1>1. /\ Say(t) /\ Head(todo).type = "debate" /\ Head(todo).agent = 3 /\ t \in Signal
      /\ todo' = <<>> /\ status' = "converged" /\ output' = Answer(t) /\ UNCHANGED streak
  BY DEF Verdict, IsVerdict
<1>2. /\ UNCHANGED <<protocol, team, budget, Agents, Turn, phase, round, report>>
      /\ phase = "calling" /\ todo # <<>> /\ round \in 1..MaxRounds /\ attempts' = 0
      /\ Message(t).round = round /\ Message(t).text = t /\ messages'[k] = Message(t)
      /\ DOMAIN messages' = 1..Len(messages) + 1 /\ DOMAIN messages = 1..Len(messages)
      /\ \A i \in DOMAIN messages : messages'[i] = messages[i]
      /\ Said(round)' = Said(round) \cup {k}
      /\ Len(messages) \in Nat
      /\ messages' \in Seq([agent : Agents, round : Nat, type : CallTypes, text : Text(protocol)])
  BY <1>1, Said1
<1>3. protocol = "debate"
  <2>1. CASE protocol = "delegation"
    BY <1>1, <1>2, <2>1, NextInPlan
  <2>2. CASE protocol # "delegation"
    <3>1. Turn = "debate"
      BY <1>1, <1>2, <2>2, NextInTurn
    <3>2. QED BY <3>1 DEF Turn
  <2>3. QED BY <2>1, <2>2
<1>4. t \in Text(protocol) /\ Message(t).agent = 3
  BY <1>1 DEF Say, Message
<1>5. Typed'
  <2>1. <<>> \in Seq([agent : Agents \cup {0}, type : CallTypes])
    OBVIOUS
  <2>2. \A i \in DOMAIN messages' : messages'[i].round \in 1..round'
    BY <1>1, SayKeeps
  <2>3. QED BY <1>1, <1>2, <1>4, <2>1, <2>2 DEF IInv, Typed, Statuses, Answer
<1>6. Settling' /\ Delegating' /\ Reported'
  BY <1>1, <1>2, <1>3 DEF Settling, Delegating, Reported
<1>7. TurnTaking'
  BY <1>1, <1>2, SayKeeps DEF TurnTaking
<1>8. Streaks'
  BY <1>1, <1>2, <1>3 DEF IInv, Streaks
<1>9. VerdictEnds'
  <2>1. \A i \in DOMAIN messages : ~(messages[i].agent = 3 /\ messages[i].text \in Signal)
    BY <1>2, <1>3, WhileCalling
  <2>2. \A i \in DOMAIN messages' : i = k \/ i \in DOMAIN messages
    BY <1>2
  <2>3. QED BY <1>1, <1>2, <2>1, <2>2 DEF VerdictEnds
<1>10. AgreedIn(round, Similar)'
  <2>1. k \in Said(round)' /\ messages'[k].agent = 3 /\ messages'[k].text \in Signal
    BY <1>1, <1>2, <1>4
  <2>2. QED BY <1>2, <1>3, <2>1 DEF AgreedIn
<1>11. Agreement'
  BY <1>1, <1>2, <1>10, SayKeeps DEF Agreement
<1>12. Outputs'
  BY <1>1, <1>2 DEF Outputs, Answer, Nothing
<1>13. Paid'
  BY <1>1, <1>2, SayKeeps DEF Paid
<1>14. QED BY <1>5, <1>6, <1>7, <1>8, <1>9, <1>11, <1>12, <1>13 DEF IInv

\* The calls that are left, after an answer that is not a plan.
LEMMA TailOfCalls ==
  ASSUME NEW S, NEW q \in Seq(S), q # <<>>
  PROVE  /\ Tail(q) \in Seq(S) /\ Len(Tail(q)) = Len(q) - 1
         /\ DOMAIN Tail(q) = 1..Len(q) - 1 /\ \A i \in 1..Len(q) - 1 : Tail(q)[i] = q[i + 1]
OBVIOUS

\* A plan's calls are reports, of agents of the team or of nobody, and the summary.
LEMMA AssignedCalls ==
  ASSUME Typed, protocol = "delegation", NEW t \in Text(protocol)
  PROVE  /\ Assigned(t) \in Seq([agent : Agents \cup {0}, type : CallTypes])
         /\ Assigned(t) # <<>>
         /\ \A i \in DOMAIN Assigned(t) : /\ Assigned(t)[i].type \in {"report", "summary"}
                                          /\ Assigned(t)[i].type = "summary" <=> i = Len(Assigned(t))
                                          /\ Assigned(t)[i].agent = 0 => Assigned(t)[i].type = "report"
<1> DEFINE C == [agent : Agents \cup {0}, type : CallTypes]
           n == Len(Plan(t))
           reports == [i \in DOMAIN Plan(t) |-> Call(Specialist(Plan(t)[i]), "report")]
<1>1. Plan(t) \in Seq(STRING) /\ n \in Nat /\ DOMAIN Plan(t) = 1..n
  BY GroupSolveAssumption
<1>2. Len(team) \in Nat \ {0} /\ Agents = 1..Len(team)
  BY TeamType
<1>3. \A name : Specialist(name) \in Agents \cup {0}
  <2> SUFFICES ASSUME NEW name PROVE Specialist(name) \in Agents \cup {0}
    OBVIOUS
  <2> DEFINE known == {a \in Agents \ {1} : team[a] = name}
  <2>1. CASE known = {}
    BY <2>1 DEF Specialist
  <2>2. CASE known # {}
    <3>1. known \in SUBSET (1..Len(team))
      BY <1>2
    <3>2. Max(known) \in known
      <4> HIDE DEF known
      <4>1. QED BY <1>2, <2>2, <3>1, GreatestIn
    <3>3. QED BY <2>2, <3>2 DEF Specialist
  <2>3. QED BY <2>1, <2>2
<1>4. \A i \in 1..n : reports[i] \in C /\ reports[i].type = "report"
  BY <1>1, <1>3 DEF Call, CallTypes
<1>5. Call(1, "summary") \in C /\ Call(1, "summary").agent = 1 /\ Call(1, "summary").type = "summary"
  BY <1>2 DEF Call, CallTypes
<1>6. reports \in Seq(C) /\ Len(reports) = n
  <2>1. reports = [i \in 1..n |-> reports[i]]
    BY <1>1
  <2> HIDE DEF C, reports
  <2>2. QED BY <1>1, <1>4, <2>1
<1>7. Assigned(t) = reports \o <<Call(1, "summary")>>
  BY DEF Assigned
<1> HIDE DEF C, reports
<1>8. /\ Assigned(t) \in Seq(C) /\ Len(Assigned(t)) = n + 1 /\ DOMAIN Assigned(t) = 1..n + 1
      /\ Assigned(t)[n + 1] = Call(1, "summary")
      /\ \A i \in 1..n : Assigned(t)[i] = reports[i]
  BY <1>1, <1>5, <1>6, <1>7
<1>9. ASSUME NEW i \in DOMAIN Assigned(t)
      PROVE  /\ Assigned(t)[i].type \in {"report", "summary"}
             /\ Assigned(t)[i].type = "summary" <=> i = Len(Assigned(t))
             /\ Assigned(t)[i].agent = 0 => Assigned(t)[i].type = "report"
  <2>1. CASE i = n + 1
    BY <1>5, <1>8, <2>1
  <2>2. CASE i # n + 1
    <3>1. i \in 1..n
      BY <1>1, <1>8, <2>2
    <3>2. QED BY <1>4, <1>8, <2>2, <3>1
  <2>3. QED BY <2>1, <2>2
<1>10. Assigned(t) # <<>>
  BY <1>1, <1>8
<1>11. QED BY <1>8, <1>9, <1>10 DEF C

\* An answer settles or breaks the streak of its agent, and of no other.
LEMMA StreaksAfter ==
  ASSUME IInv, NEW t, Answered(t)
  PROVE  Streaks' /\ streak' \in [Agents -> 0..round]
<1> DEFINE k == Len(messages) + 1
           b == Head(todo).agent
<1>1. /\ Say(t)
      /\ streak' = IF Head(todo).type # "write" THEN streak ELSE [streak EXCEPT ![b] = Streak(b, t)]
  BY DEF Answered
<1>2. /\ UNCHANGED <<protocol, team, budget, Agents, Turn, phase, round, report>>
      /\ phase = "calling" /\ todo # <<>> /\ round \in 1..MaxRounds /\ round \in Nat
      /\ messages'[k] = Message(t) /\ Message(t).agent = b /\ Message(t).text = t /\ b \in Agents
      /\ \A i \in DOMAIN messages : messages'[i] = messages[i]
      /\ Said(round)' = Said(round) \cup {k}
      /\ \A n : n # round => Said(n)' = Said(n)
      /\ \A n : Said(n) \subseteq DOMAIN messages
  <2>1. round \in 1..MaxRounds /\ MaxRounds \in Nat
    BY <1>1, Said1, GroupSolveAssumption
  <2>2. QED BY <1>1, <2>1, Said1 DEF Message
<1>3. streak \in [Agents -> 0..round]
  BY DEF IInv, Typed
<1>4. CASE protocol # "blackboard"
  <2>1. Head(todo).type # "write"
    <3>1. CASE protocol = "delegation"
      BY <1>2, <3>1, NextInPlan
    <3>2. CASE protocol # "delegation"
      BY <1>2, <1>4, <3>2, NextInTurn, GroupSolveAssumption DEF Turn, IInv, Typed
    <3>3. QED BY <3>1, <3>2
  <2>2. QED BY <1>1, <1>2, <1>3, <1>4, <2>1 DEF IInv, Streaks
<1>5. CASE protocol = "blackboard"
  <2>1. Head(todo).type = "write" /\ b \notin Spoken
    BY <1>2, <1>5, NextInTurn DEF Turn
  <2>2. streak' = [streak EXCEPT ![b] = Streak(b, t)]
    BY <1>1, <2>1
  <2>3. Spoken' = Spoken \cup {b}
    BY <1>1, <1>2, SayKeeps
  <2>4. \A a, n : n # round => (Silent(a, n)' <=> Silent(a, n))
    BY <1>2 DEF Silent
  <2>5. \A a : Silent(a, round)' <=> Silent(a, round) \/ (a = b /\ t \notin Update)
    BY <1>2 DEF Silent
  <2>6. ~Silent(b, round)
    BY <2>1 DEF Silent, Spoken
  <2>7. ASSUME NEW a \in Agents
        PROVE  /\ streak'[a] \in 0..round
               /\ streak'[a] >= 1 <=> Silent(a, LastTurn(a))'
               /\ streak'[a] >= 2 <=> Silent(a, LastTurn(a))' /\ Silent(a, LastTurn(a) - 1)'
               /\ streak'[a] # 0 => streak'[a] <= LastTurn(a)'
    <3>1. /\ streak[a] >= 1 <=> Silent(a, LastTurn(a))
          /\ streak[a] >= 2 <=> Silent(a, LastTurn(a)) /\ Silent(a, LastTurn(a) - 1)
          /\ streak[a] # 0 => streak[a] <= LastTurn(a)
          /\ streak[a] \in 0..round
      BY <1>3, <1>5 DEF IInv, Streaks
    <3>2. CASE a # b
      <4>1. LastTurn(a)' = LastTurn(a)
        BY <1>2, <2>3, <3>2 DEF LastTurn
      <4>2. \A n : Silent(a, n)' <=> Silent(a, n)
        BY <1>2, <2>4, <2>5, <3>2
      <4>3. Silent(a, LastTurn(a))' <=> Silent(a, LastTurn(a))
        BY <4>1, <4>2 DEF Silent
      <4>4. Silent(a, LastTurn(a) - 1)' <=> Silent(a, LastTurn(a) - 1)
        BY <4>1, <4>2 DEF Silent
      <4>5. streak'[a] = streak[a]
        BY <1>3, <2>2, <3>2
      <4>6. QED BY <3>1, <4>1, <4>3, <4>4, <4>5
    <3>3. CASE a = b
      <4>1. LastTurn(a) = round - 1 /\ LastTurn(a)' = round
        BY <1>2, <2>1, <2>3, <3>3 DEF LastTurn
      <4>2. Silent(a, LastTurn(a))' <=> t \notin Update
        <5>1. Silent(a, LastTurn(a))' <=> Silent(a, round)'
          BY <1>2, <4>1 DEF Silent
        <5>2. QED BY <2>5, <2>6, <3>3, <5>1
      <4>3. Silent(a, LastTurn(a) - 1)' <=> Silent(a, round - 1)
        <5>1. Silent(a, LastTurn(a) - 1)' <=> Silent(a, round - 1)'
          BY <1>2, <4>1 DEF Silent
        <5>2. round - 1 # round
          BY <1>2
        <5>3. Silent(a, round - 1)' <=> Silent(a, round - 1)
          BY <1>2, <2>4, <5>2
        <5>4. QED BY <5>1, <5>3
      <4>4. streak'[a] = IF t \in Update THEN 0 ELSE streak[a] + 1
        BY <1>3, <2>2, <3>3 DEF Streak
      <4>5. streak[a] >= 1 <=> Silent(a, round - 1)
        BY <3>1, <4>1
      <4>6. streak[a] \in Nat /\ streak[a] # 0 => streak[a] <= round - 1
        BY <1>2, <3>1, <4>1
      <4>7. QED BY <1>2, <3>1, <4>1, <4>2, <4>3, <4>4, <4>5, <4>6
    <3>4. QED BY <3>2, <3>3
  <2>8. streak' \in [Agents -> 0..round]
    <3>1. DOMAIN streak' = Agents /\ streak' = [a \in Agents |-> streak'[a]]
      BY <1>3, <2>2
    <3>2. QED BY <2>7, <3>1
  <2>9. QED BY <1>2, <1>5, <2>7, <2>8 DEF Streaks
<1>6. QED BY <1>4, <1>5

LEMMA AnsweredInv == ASSUME IInv, NEW t, Answered(t) PROVE IInv'
<1> DEFINE k == Len(messages) + 1
           C == [agent : Agents \cup {0}, type : CallTypes]
<1>1. /\ Say(t) /\ ~IsVerdict(t)
      /\ todo' = IF Head(todo).type = "plan" THEN Assigned(t) ELSE Tail(todo)
      /\ UNCHANGED <<status, output>>
  BY DEF Answered
<1>2. /\ UNCHANGED <<protocol, team, budget, Agents, Turn, phase, round, report>>
      /\ phase = "calling" /\ status = "in_progress" /\ todo # <<>> /\ round \in 1..MaxRounds
      /\ attempts' = 0
      /\ Message(t).text = t /\ messages'[k] = Message(t) /\ Len(messages') = k
      /\ DOMAIN messages' = 1..Len(messages) + 1 /\ DOMAIN messages = 1..Len(messages)
      /\ \A i \in DOMAIN messages : i # k /\ messages'[i] = messages[i]
      /\ Said(round)' = Said(round) \cup {k}
      /\ \A n : Said(n) \subseteq DOMAIN messages
      /\ Len(messages) \in Nat
      /\ messages' \in Seq([agent : Agents, round : Nat, type : CallTypes, text : Text(protocol)])
      /\ Head(todo) = todo[1] /\ Len(todo) \in Nat \ {0} /\ DOMAIN todo = 1..Len(todo)
  BY <1>1, Said1
<1>3. /\ t \in Text(protocol) /\ Typed /\ todo \in Seq(C)
      /\ Message(t).agent = Head(todo).agent /\ Message(t).type = Head(todo).type
  BY <1>1 DEF Say, Message, IInv, Typed
<1>4. /\ Tail(todo) \in Seq(C) /\ Len(Tail(todo)) = Len(todo) - 1
      /\ DOMAIN Tail(todo) = 1..Len(todo) - 1 /\ \A i \in 1..Len(todo) - 1 : Tail(todo)[i] = todo[i + 1]
  <2> HIDE DEF C
  <2>1. QED BY <1>2, <1>3, TailOfCalls
<1>5. protocol # "delegation" => Head(todo).type # "plan"
  BY <1>2, NextInTurn, GroupSolveAssumption DEF Turn, IInv, Typed
<1>6. todo' \in Seq(C)
  <2>1. CASE Head(todo).type = "plan"
    BY <1>1, <1>3, <1>5, <2>1, AssignedCalls
  <2>2. CASE Head(todo).type # "plan"
    BY <1>1, <1>4, <2>2
  <2>3. QED BY <2>1, <2>2
<1>7. Typed'
  <2>1. \A i \in DOMAIN messages' : messages'[i].round \in 1..round'
    BY <1>1, SayKeeps
  <2>2. streak' \in [Agents -> 0..round]
    BY StreaksAfter
  <2>3. QED BY <1>1, <1>2, <1>6, <2>1, <2>2 DEF IInv, Typed
<1>8. Settling' /\ Outputs' /\ Reported'
  BY <1>1, <1>2 DEF IInv, Settling, Outputs, Reported
<1>9. TurnTaking'
  <2> SUFFICES ASSUME protocol # "delegation" PROVE TurnTaking'
    BY <1>2 DEF TurnTaking
  <2>1. todo' = Tail(todo)
    BY <1>1, <1>5
  <2>2. /\ Message(t).agent = Len(team) - Len(todo) + 1
        /\ Spoken = 1..Len(team) - Len(todo)
        /\ Len(team) \in Nat \ {0} /\ Agents = 1..Len(team) /\ Len(todo) <= Len(team)
        /\ \A i \in 1..Len(todo) : todo[i] = Call(Len(team) - Len(todo) + i, Turn)
    BY <1>2, <1>3, NextInTurn
  <2>3. Len(todo') = Len(todo) - 1 /\ Len(team') = Len(team)
    BY <1>2, <1>4, <2>1
  <2>4. Spoken' = 1..Len(team') - Len(todo')
    <3>1. Spoken' = Spoken \cup {Message(t).agent}
      BY <1>1, SayKeeps
    <3>2. (1..Len(team) - Len(todo)) \cup {Len(team) - Len(todo) + 1} = 1..Len(team) - Len(todo) + 1
      BY <1>2, <2>2
    <3>3. Len(team') - Len(todo') = Len(team) - Len(todo) + 1
      BY <1>2, <2>2, <2>3
    <3>4. QED BY <2>2, <3>1, <3>2, <3>3
  <2>5. ASSUME NEW i \in 1..Len(todo') PROVE todo'[i] = Call(Len(team') - Len(todo') + i, Turn')
    <3>1. todo'[i] = todo[i + 1] /\ i + 1 \in 1..Len(todo)
      BY <1>2, <1>4, <2>1, <2>3
    <3>2. Len(team) - Len(todo) + (i + 1) = Len(team') - Len(todo') + i
      BY <1>2, <2>2, <2>3
    <3>3. QED BY <1>2, <2>2, <3>1, <3>2
  <2>6. Len(todo') <= Len(team')
    BY <1>2, <2>2, <2>3
  <2>7. QED BY <1>1, <1>2, <2>4, <2>5, <2>6, SayKeeps DEF TurnTaking
<1>10. Delegating'
  <2> SUFFICES ASSUME protocol = "delegation" PROVE Delegating'
    BY <1>2 DEF Delegating
  <2>1. CASE Head(todo).type = "plan"
    <3>1. /\ Assigned(t) # <<>>
          /\ \A i \in DOMAIN Assigned(t) : /\ Assigned(t)[i].type \in {"report", "summary"}
                                           /\ Assigned(t)[i].type = "summary" <=> i = Len(Assigned(t))
                                           /\ Assigned(t)[i].agent = 0 => Assigned(t)[i].type = "report"
      BY <1>3, AssignedCalls
    <3>2. todo' = Assigned(t)
      BY <1>1, <2>1
    <3>3. Said(round) = {}
      BY <1>2, <2>1, NextInPlan
    <3>4. \A i \in Said(round)' : messages'[i].type # "summary"
      BY <1>2, <1>3, <2>1, <3>3
    <3>5. QED BY <3>1, <3>2, <3>4 DEF Delegating
  <2>2. CASE Head(todo).type # "plan"
    <3>1. todo' = Tail(todo)
      BY <1>1, <2>2
    <3>2. /\ \A i \in DOMAIN todo : /\ todo[i].type \in {"report", "summary"}
                                    /\ todo[i].type = "summary" <=> i = Len(todo)
                                    /\ todo[i].agent = 0 => todo[i].type = "report"
          /\ \A i \in Said(round) : messages[i].type # "summary"
      BY <1>2, <2>2, NextInPlan
    <3>3. CASE Len(todo) = 1
      <4>1. todo' = <<>>
        BY <1>4, <3>1, <3>3
      <4>2. Message(t).type = "summary"
        BY <1>2, <1>3, <3>2, <3>3
      <4>3. Len(messages') \in Said(round)' /\ messages'[Len(messages')].type = "summary"
        BY <1>2, <4>2
      <4>4. \A i \in Said(round)' : messages'[i].type = "summary" => i = Len(messages')
        BY <1>2, <3>2
      <4>5. QED BY <4>1, <4>3, <4>4 DEF Delegating
    <3>4. CASE Len(todo) # 1
      <4>1. /\ Len(todo') = Len(todo) - 1 /\ DOMAIN todo' = 1..Len(todo) - 1
            /\ \A i \in DOMAIN todo' : todo'[i] = todo[i + 1]
        BY <1>4, <3>1
      <4>2. todo' # <<>>
        BY <1>2, <3>4, <4>1
      <4>3. ASSUME NEW i \in DOMAIN todo'
            PROVE  /\ todo'[i].type \in {"report", "summary"}
                   /\ todo'[i].type = "summary" <=> i = Len(todo')
                   /\ todo'[i].agent = 0 => todo'[i].type = "report"
        <5>1. i + 1 \in DOMAIN todo /\ (i + 1 = Len(todo) <=> i = Len(todo'))
          BY <1>2, <4>1
        <5>2. QED BY <3>2, <4>1, <5>1
      <4>4. Message(t).type # "summary"
        <5>1. 1 \in DOMAIN todo /\ Head(todo).type = todo[1].type
          BY <1>2
        <5>2. todo[1].type # "summary"
          BY <3>2, <3>4, <5>1
        <5>3. QED BY <1>3, <5>1, <5>2
      <4>5. \A i \in Said(round)' : messages'[i].type # "summary"
        BY <1>2, <3>2, <4>4
      <4>6. QED BY <4>2, <4>3, <4>5 DEF Delegating
    <3>5. QED BY <3>3, <3>4
  <2>3. QED BY <2>1, <2>2
<1>11. VerdictEnds'
  <2> SUFFICES ASSUME protocol = "debate" PROVE VerdictEnds'
    BY <1>2 DEF VerdictEnds
  <2>1. \A i \in DOMAIN messages : ~(messages[i].agent = 3 /\ messages[i].text \in Signal)
    BY <1>2, WhileCalling
  <2>2. ~(Message(t).agent = 3 /\ t \in Signal)
    <3>1. Head(todo).type = "debate"
      BY <1>2, NextInTurn DEF Turn
    <3>2. QED BY <1>1, <1>3, <3>1 DEF IsVerdict
  <2>3. \A i \in DOMAIN messages' : i = k \/ i \in DOMAIN messages
    BY <1>2
  <2>4. QED BY <1>2, <2>1, <2>2, <2>3 DEF VerdictEnds
<1>12. Agreement'
  BY <1>1, <1>2, SayKeeps DEF Agreement
<1>13. Paid'
  BY <1>1, <1>2, SayKeeps DEF Paid
<1>14. QED BY <1>7, <1>8, <1>9, <1>10, <1>11, <1>12, <1>13, StreaksAfter DEF IInv

-----------------------------------------------------------------------------
(* A round ends *)

\* At the end of a round without a verdict everybody who has a turn has had it.
LEMMA WhenCalled ==
  ASSUME IInv, phase = "calling", todo = <<>>, status # "converged"
  PROVE  /\ status = "in_progress" /\ round \in 1..MaxRounds /\ round \in Nat
         /\ protocol # "delegation" => Spoken = Agents
         /\ Said(round) # {}
         /\ \A n : Said(n) \subseteq DOMAIN messages
         /\ Len(messages) \in DOMAIN messages /\ DOMAIN messages = 1..Len(messages)
         /\ \A i \in DOMAIN messages : messages[i].text \in Text(protocol)
         /\ Len(team) \in Nat \ {0} /\ Agents = 1..Len(team)
<1>1. status = "in_progress" /\ round \in 1..MaxRounds /\ round \in Nat
  BY GroupSolveAssumption DEF IInv, Typed, Settling
<1>2. Len(team) \in Nat \ {0} /\ Agents = 1..Len(team)
  BY TeamType DEF IInv
<1>3. /\ DOMAIN messages = 1..Len(messages) /\ Len(messages) \in Nat
      /\ \A i \in DOMAIN messages : messages[i].text \in Text(protocol)
  BY TranscriptType DEF IInv
<1>4. \A n : Said(n) \subseteq DOMAIN messages
  BY DEF Said
<1>5. protocol # "delegation" => Spoken = Agents
  BY <1>1, <1>2 DEF IInv, TurnTaking
<1>6. Said(round) # {}
  <2>1. CASE protocol = "delegation"
    BY <2>1 DEF IInv, Delegating
  <2>2. CASE protocol # "delegation"
    <3>1. 1 \in Spoken
      BY <1>2, <1>5, <2>2
    <3>2. QED BY <3>1 DEF Spoken
  <2>3. QED BY <2>1, <2>2
<1>7. Len(messages) \in DOMAIN messages
  BY <1>3, <1>4, <1>6
<1>8. QED BY <1>1, <1>2, <1>3, <1>4, <1>5, <1>6, <1>7

\* Streaks of two and more are the agreement of a blackboard.
LEMMA BlackboardAgreed ==
  ASSUME IInv, phase = "calling", todo = <<>>, status # "converged", protocol = "blackboard", NEW like
  PROVE  (\A a \in Agents : streak[a] >= 2) <=> AgreedIn(round, like)
<1>1. /\ round \in Nat /\ Spoken = Agents /\ 1 \in Agents
      /\ \A n : Said(n) \subseteq DOMAIN messages
      /\ \A a \in Agents : streak[a] \in Nat
  <2>1. /\ round \in Nat /\ Spoken = Agents /\ 1 \in Agents
        /\ \A n : Said(n) \subseteq DOMAIN messages
    BY WhenCalled
  <2>2. QED BY <2>1 DEF IInv, Typed
<1>2. \A a \in Agents : /\ streak[a] >= 2 <=> Silent(a, round) /\ Silent(a, round - 1)
                        /\ streak[a] # 0 => streak[a] <= round
  BY <1>1 DEF IInv, Streaks, LastTurn
<1>3. AgreedIn(round, like) <=>
        round > 1 /\ \A i \in Said(round - 1) \cup Said(round) : messages[i].text \notin Update
  BY DEF AgreedIn
<1>4. \A i \in DOMAIN messages : messages[i].agent \in Agents
  BY TranscriptType DEF IInv
<1>5. ASSUME \A a \in Agents : streak[a] >= 2
      PROVE  round > 1 /\ \A i \in Said(round - 1) \cup Said(round) : messages[i].text \notin Update
  <2>1. round > 1
    BY <1>1, <1>2, <1>5
  <2>2. ASSUME NEW n \in {round - 1, round}, NEW i \in Said(n)
        PROVE  messages[i].text \notin Update
    <3>1. i \in DOMAIN messages /\ messages[i].agent \in Agents /\ messages[i].round = n
      BY <1>1, <1>4 DEF Said
    <3>2. Silent(messages[i].agent, n)
      BY <1>2, <1>5, <3>1
    <3>3. PICK j \in Said(n) : messages[j].agent = messages[i].agent /\ messages[j].text \notin Update
      BY <3>2 DEF Silent
    <3>4. j \in DOMAIN messages /\ messages[j].round = n
      BY <1>1 DEF Said
    <3>5. i = j
      BY <3>1, <3>3, <3>4 DEF IInv, TurnTaking
    <3>6. QED BY <3>3, <3>5
  <2>3. QED BY <2>1, <2>2
<1>6. ASSUME round > 1, \A i \in Said(round - 1) \cup Said(round) : messages[i].text \notin Update,
             NEW a \in Agents
      PROVE  streak[a] >= 2
  <2>1. Silent(a, round)
    <3>1. PICK i \in Said(round) : messages[i].agent = a
      BY <1>1 DEF Spoken
    <3>2. QED BY <1>6, <3>1 DEF Silent
  <2>2. Silent(a, round - 1)
    <3>1. round - 1 \in 1..round - 1
      BY <1>1, <1>6
    <3>2. PICK i \in Said(round - 1) : messages[i].agent = a
      BY <3>1 DEF IInv, TurnTaking
    <3>3. QED BY <1>6, <3>2 DEF Silent
  <2>3. QED BY <1>2, <2>1, <2>2
<1>7. QED BY <1>3, <1>5, <1>6

\* A set of proposals of more than half of the team is in no smaller one.
LEMMA MoreAgree ==
  ASSUME Typed, NEW n, NEW A, NEW B, A \subseteq B, B \subseteq Said(n), 2 * Cardinality(A) > Len(team)
  PROVE  2 * Cardinality(B) > Len(team)
<1>1. DOMAIN messages = 1..Len(messages) /\ Len(messages) \in Nat
  BY DEF Typed
<1>2. IsFiniteSet(1..Len(messages))
  BY <1>1, FS_Interval
<1>3. B \subseteq 1..Len(messages)
  BY <1>1 DEF Said
<1>4. IsFiniteSet(B)
  BY <1>2, <1>3, FS_Subset
<1>5. IsFiniteSet(A) /\ Cardinality(A) <= Cardinality(B)
  BY <1>4, FS_Subset
<1>6. Cardinality(A) \in Nat /\ Cardinality(B) \in Nat /\ Len(team) \in Nat
  BY <1>4, <1>5, FS_CardinalityType, TeamType
<1>7. QED BY <1>5, <1>6

\* Literal majorities are those that show in the transcript, and every majority
\* is one of proposals that are like one of them.
LEMMA MajorityAgreed ==
  ASSUME IInv, protocol = "consensus"
  PROVE  /\ Literal # {} <=> AgreedIn(round, {})
         /\ Literal # {} \/ Semantic # {} => AgreedIn(round, Similar)
<1> USE DEF Like
<1>1. \A like : AgreedIn(round, like) <=> \E i \in Said(round) : Backed(round, messages[i].text, like)
  BY DEF AgreedIn
<1>2. \A i \in Said(round) : i \in Literal <=> Backed(round, messages[i].text, {})
  <2> SUFFICES ASSUME NEW i \in Said(round)
               PROVE  i \in Literal <=> Backed(round, messages[i].text, {})
    OBVIOUS
  <2>1. {j \in Said(round) : Key(messages[j].text) = Key(messages[i].text) \/ <<messages[i].text, messages[j].text>> \in {}}
          = {j \in Said(round) : Key(messages[j].text) = Key(messages[i].text)}
    OBVIOUS
  <2>2. QED BY <2>1 DEF Literal, Backed
<1>3. Literal \subseteq Said(round) /\ Semantic \subseteq Said(round)
  BY DEF Literal, Semantic
<1>4. Literal # {} <=> AgreedIn(round, {})
  BY <1>1, <1>2, <1>3
<1>5. ASSUME NEW i \in Said(round), i \in Literal \/ i \in Semantic
      PROVE  Backed(round, messages[i].text, Similar)
  <2> DEFINE B == {j \in Said(round) : Key(messages[j].text) = Key(messages[i].text) \/ <<messages[i].text, messages[j].text>> \in Similar}
  <2>1. B \subseteq Said(round)
    OBVIOUS
  <2>2. PICK A : A \subseteq B /\ 2 * Cardinality(A) > Len(team)
    <3>1. CASE i \in Literal
      <4>1. {j \in Said(round) : Key(messages[j].text) = Key(messages[i].text)} \subseteq B
        OBVIOUS
      <4>2. QED BY <3>1, <4>1 DEF Literal
    <3>2. CASE i \in Semantic
      <4>1. Cluster(i) \subseteq B
        BY DEF Cluster
      <4>2. QED BY <3>2, <4>1 DEF Semantic
    <3>3. QED BY <1>5, <3>1, <3>2
  <2>3. 2 * Cardinality(B) > Len(team)
    <3> HIDE DEF B
    <3>1. QED BY <2>1, <2>2, MoreAgree DEF IInv
  <2>4. QED BY <2>3 DEF Backed
<1>6. QED BY <1>1, <1>3, <1>4, <1>5

\* What the protocols make of a round.
LEMMA OutcomeIs ==
  ASSUME IInv, phase = "calling", todo = <<>>, status # "converged"
  PROVE  /\ Outcome.status \in {"in_progress", "converged", "deadlocked"}
         /\ Outcome.output.from \in {"nothing", "answer", "board"} /\ Outcome.output.texts \subseteq Text(protocol)
         /\ Outcome.status = "converged" => AgreedIn(round, Similar)
         /\ Outcome.status # "converged" => ~AgreedIn(round, {})
         /\ Outcome.status \in {"converged", "deadlocked"} => Outcome.output # Nothing
         /\ Outcome.status = "in_progress" =>
              IF protocol = "consensus" THEN round < MaxRounds ELSE Outcome.output # Nothing
<1> DEFINE last == messages[Len(messages)].text
           open(out) == [status |-> "in_progress", output |-> out]
           agreed(out) == [status |-> "converged", output |-> out]
<1>1. /\ status = "in_progress" /\ round \in Nat /\ Said(round) # {}
      /\ \A n : Said(n) \subseteq DOMAIN messages
      /\ Len(messages) \in DOMAIN messages /\ DOMAIN messages = 1..Len(messages)
      /\ \A i \in DOMAIN messages : messages[i].text \in Text(protocol)
  BY WhenCalled
<1>2. \A t \in Text(protocol) :
        Answer(t).from = "answer" /\ Answer(t).texts \subseteq Text(protocol) /\ Answer(t) # Nothing
  BY DEF Answer, Nothing
<1>3. CASE protocol \in {"round_robin", "debate"}
  <2>1. Outcome = open(Answer(last))
    BY <1>3 DEF Outcome
  <2>2. ~AgreedIn(round, {})
    <3>1. CASE protocol = "round_robin"
      BY <3>1 DEF AgreedIn
    <3>2. CASE protocol = "debate"
      <4>1. \A i \in Said(round) : ~(messages[i].agent = 3 /\ messages[i].text \in Signal)
        BY <1>1, <3>2 DEF IInv, VerdictEnds
      <4>2. QED BY <3>2, <4>1 DEF AgreedIn
    <3>3. QED BY <1>3, <3>1, <3>2
  <2>3. QED BY <1>1, <1>2, <1>3, <2>1, <2>2
<1>4. CASE protocol = "delegation"
  <2>1. Outcome = IF last \in Signal THEN agreed(Answer(last)) ELSE open(Answer(last))
    BY <1>4 DEF Outcome
  <2>2. /\ Len(messages) \in Said(round) /\ messages[Len(messages)].type = "summary"
        /\ \A i \in Said(round) : messages[i].type = "summary" => i = Len(messages)
    BY <1>4 DEF IInv, Delegating
  <2>3. \A like : AgreedIn(round, like) <=> last \in Signal
    BY <1>4, <2>2 DEF AgreedIn
  <2>4. QED BY <1>1, <1>2, <1>4, <2>1, <2>3
<1>5. CASE protocol = "blackboard"
  <2> DEFINE board == [from |-> "board", texts |-> Written]
  <2>1. Outcome = IF \A a \in Agents : streak[a] >= 2 THEN agreed(board) ELSE open(board)
    BY <1>5 DEF Outcome
  <2>2. \A like : (\A a \in Agents : streak[a] >= 2) <=> AgreedIn(round, like)
    BY <1>5, BlackboardAgreed
  <2>3. board.from = "board" /\ board.texts \subseteq Text(protocol) /\ board # Nothing
    BY <1>1 DEF Written, Nothing
  <2> HIDE DEF board
  <2>4. QED BY <1>5, <2>1, <2>2, <2>3
<1>6. CASE protocol = "consensus"
  <2> DEFINE majority == IF Literal # {} THEN Literal ELSE Semantic
  <2>1. Outcome = IF majority # {} THEN agreed(Answer(messages[Min(majority)].text))
                  ELSE IF Escalates THEN [status |-> "deadlocked", output |-> Answer(messages[Min(Said(round))].text)]
                  ELSE open(output)
    BY <1>6 DEF Outcome
  <2>2. majority = {} <=> ~(Literal # {} \/ Semantic # {})
    OBVIOUS
  <2>3. majority \subseteq Said(round)
    BY DEF Literal, Semantic
  <2>4. \A S \in SUBSET Said(round) : S # {} => messages[Min(S)].text \in Text(protocol)
    <3> SUFFICES ASSUME NEW S \in SUBSET Said(round), S # {} PROVE messages[Min(S)].text \in Text(protocol)
      OBVIOUS
    <3>1. S \in SUBSET Nat
      BY <1>1
    <3>2. Min(S) \in S
      BY <3>1, LeastIn
    <3>3. QED BY <1>1, <3>2
  <2>5. /\ Literal # {} <=> AgreedIn(round, {})
        /\ Literal # {} \/ Semantic # {} => AgreedIn(round, Similar)
    BY <1>6, MajorityAgreed
  <2>6. output.from \in {"nothing", "answer", "board"} /\ output.texts \subseteq Text(protocol)
    BY DEF IInv, Typed
  <2> HIDE DEF majority
  <2>7. CASE majority # {}
    <3>1. messages[Min(majority)].text \in Text(protocol)
      BY <2>3, <2>4, <2>7
    <3>2. AgreedIn(round, Similar)
      BY <2>2, <2>5, <2>7
    <3>3. QED BY <1>2, <2>1, <2>7, <3>1, <3>2
  <2>8. CASE majority = {} /\ Escalates
    <3>1. messages[Min(Said(round))].text \in Text(protocol)
      BY <1>1, <2>4
    <3>2. ~AgreedIn(round, {})
      BY <2>2, <2>5, <2>8
    <3>3. QED BY <1>2, <2>1, <2>8, <3>1, <3>2
  <2>9. CASE majority = {} /\ ~Escalates
    <3>1. ~AgreedIn(round, {})
      BY <2>2, <2>5, <2>9
    <3>2. round < MaxRounds
      BY <1>1, <2>9, GroupSolveAssumption DEF Escalates
    <3>3. QED BY <1>6, <2>1, <2>6, <2>9, <3>1, <3>2
  <2>10. QED BY <2>7, <2>8, <2>9
<1>7. QED BY <1>3, <1>4, <1>5, <1>6, GroupSolveAssumption DEF IInv, Typed

LEMMA EndRoundInv == IInv /\ EndRound => IInv'
<1> SUFFICES ASSUME IInv, EndRound PROVE IInv'
  OBVIOUS
<1>1. /\ phase = "calling" /\ todo = <<>> /\ phase' = "between"
      /\ UNCHANGED <<choice, round, messages, todo, attempts, streak, report>>
  BY DEF EndRound
<1>2. /\ UNCHANGED <<protocol, team, budget, Agents, Turn, Spoken>>
      /\ \A n : Said(n)' = Said(n)
      /\ \A n, like : AgreedIn(n, like)' <=> AgreedIn(n, like)
      /\ Streaks'
  BY <1>1, SameTranscript
<1>3. CASE status = "converged"
  <2>1. UNCHANGED <<status, output>>
    BY <1>3 DEF EndRound
  <2>2. Typed'
    BY <1>1, <1>2, <2>1 DEF IInv, Typed
  <2>3. Settling' /\ TurnTaking' /\ Delegating' /\ VerdictEnds' /\ Agreement' /\ Outputs' /\ Paid' /\ Reported'
    BY <1>1, <1>2, <1>3, <2>1 DEF IInv, Settling, TurnTaking, Delegating, VerdictEnds, Agreement, Outputs, Paid, Reported
  <2>4. QED BY <1>2, <2>2, <2>3 DEF IInv
<1>4. CASE status # "converged"
  <2>1. status' = Budgeted(Outcome.status) /\ output' = Outcome.output
    BY <1>4 DEF EndRound
  <2>2. /\ Outcome.status \in {"in_progress", "converged", "deadlocked"}
        /\ Outcome.output.from \in {"nothing", "answer", "board"} /\ Outcome.output.texts \subseteq Text(protocol)
        /\ Outcome.status = "converged" => AgreedIn(round, Similar)
        /\ Outcome.status # "converged" => ~AgreedIn(round, {})
        /\ Outcome.status \in {"converged", "deadlocked"} => Outcome.output # Nothing
        /\ Outcome.status = "in_progress" =>
             IF protocol = "consensus" THEN round < MaxRounds ELSE Outcome.output # Nothing
    BY <1>1, <1>4, OutcomeIs
  <2>3. \/ status' = Outcome.status /\ (status' = "in_progress" => Cost(messages) < budget)
        \/ status' = "budget_exceeded" /\ Outcome.status = "in_progress"
    BY <2>1 DEF Budgeted
  <2>4. /\ status = "in_progress" /\ round \in 1..MaxRounds /\ round \in Nat
        /\ protocol # "delegation" => Spoken = Agents
    BY <1>1, <1>4, WhenCalled
  <2>5. Typed'
    BY <1>1, <1>2, <2>1, <2>2, <2>3 DEF IInv, Typed, Statuses
  <2>6. Settling' /\ Delegating' /\ Outputs' /\ Reported'
    BY <1>1, <1>2, <2>1, <2>2, <2>3 DEF Settling, Delegating, Outputs, Reported
  <2>7. TurnTaking'
    BY <1>1, <1>2, <2>4 DEF IInv, TurnTaking
  <2>8. VerdictEnds'
    BY <1>1, <1>2, <2>4 DEF IInv, VerdictEnds
  <2>9. Agreement'
    BY <1>1, <1>2, <2>2, <2>3 DEF IInv, Agreement
  <2>10. Paid'
    <3>1. Cost(messages)' = Cost(messages)
      BY <1>1
    <3>2. \E m \in 0..Len(messages) :
            /\ DOMAIN messages \ Said(round) = 1..m
            /\ round > 1 => Cost(SubSeq(messages, 1, m)) < budget
      BY DEF IInv, Paid
    <3>3. status' = "in_progress" => Cost(messages) < budget
      BY <2>3
    <3>4. QED BY <1>1, <1>2, <3>1, <3>2, <3>3 DEF Paid
  <2>11. QED BY <1>2, <2>5, <2>6, <2>7, <2>8, <2>9, <2>10 DEF IInv
<1>5. QED BY <1>3, <1>4

-----------------------------------------------------------------------------
LEMMA NextInv == IInv /\ [Next]_vars => IInv'
<1> SUFFICES ASSUME IInv, [Next]_vars PROVE IInv'
  OBVIOUS
<1>1. CASE UNCHANGED vars \/ Done
  BY <1>1, StutterInv DEF Done
<1>2. CASE StartRound \/ RefuseRound
  BY <1>2, StartRoundInv, RefuseRoundInv
<1>3. CASE SkipTask \/ CallRetried \/ CallFails
  BY <1>3, SkipTaskInv, CallRetriedInv, CallFailsInv
<1>4. CASE EndRound \/ Return
  BY <1>4, EndRoundInv, ReturnInv
<1>5. CASE \E t \in Text(protocol) : Verdict(t) \/ Answered(t)
  BY <1>5, VerdictInv, AnsweredInv
<1>6. CASE \E texts \in SUBSET Text(protocol) : Evaluate(texts)
  BY <1>6, EvaluateInv
<1>7. QED BY <1>1, <1>2, <1>3, <1>4, <1>5, <1>6 DEF Next, Solving

\* The invariant holds of every behaviour of a group.
THEOREM GroupSolveInvariant == Spec => []IInv
BY InitInv, NextInv, PTL DEF Spec

\* protocols.py:134, :188, :267 and :363: a run converges only by the agreement of
\* its last round that its protocol asks for, which the transcript shows, and goes
\* on only after rounds that do not; whatever the team and the texts are.
THEOREM GroupsConvergeByAgreement == Spec => []ConvergedIsAgreed
<1>1. IInv => ConvergedIsAgreed
  BY DEF IInv, Agreement, ConvergedIsAgreed
<1>2. QED BY <1>1, GroupSolveInvariant, PTL

\* group.py:185: no round begins with the budget spent, whatever the calls cost.
THEOREM GroupsStayInBudget == Spec => []RoundsStayInBudget
<1>1. IInv => RoundsStayInBudget
  <2> SUFFICES ASSUME IInv, round > 1
               PROVE  Cost(SubSeq(messages, 1, Cardinality(DOMAIN messages \ Said(round)))) < budget
    BY DEF RoundsStayInBudget
  <2>1. PICK m \in 0..Len(messages) :
          /\ DOMAIN messages \ Said(round) = 1..m
          /\ Cost(SubSeq(messages, 1, m)) < budget
    BY DEF IInv, Paid
  <2>2. m \in Nat
    BY <2>1, TranscriptType DEF IInv
  <2>3. Cardinality(1..m) = m
    BY <2>2, FS_Interval
  <2>4. QED BY <2>1, <2>3
<1>2. QED BY <1>1, GroupSolveInvariant, PTL

\* group.py:212 and group_metrics.py:215: the status, the output and the rate
\* that solve() and evaluate_group() report fit one another.
THEOREM GroupsReportWhatHappened == Spec => []ResultFitsStatus
<1>1. IInv => TypeOK
  <2> SUFFICES ASSUME IInv PROVE TypeOK
    OBVIOUS
  <2>1. \A i \in DOMAIN todo : todo[i].agent \in Agents \cup {0}
    <3> DEFINE C == [agent : Agents \cup {0}, type : CallTypes]
    <3>1. todo \in Seq(C)
      BY DEF IInv, Typed
    <3> HIDE DEF C
    <3>2. \A i \in DOMAIN todo : todo[i] \in C
      BY <3>1
    <3>3. QED BY <3>2 DEF C
  <2>2. \A i \in DOMAIN messages : messages[i].agent \in Agents /\ messages[i].round \in 1..round
    BY TranscriptType DEF IInv, Typed
  <2>3. QED BY <2>1, <2>2 DEF IInv, Typed, Settling, TypeOK
<1>2. IInv => OutcomeHasOutput
  BY DEF IInv, Outputs, OutcomeHasOutput
<1>3. IInv => RateShowsEarlyAgreement
  <2> SUFFICES ASSUME IInv, phase = "evaluated"
               PROVE  report.rate > 0 <=> status = "converged" /\ round < MaxRounds
    BY DEF RateShowsEarlyAgreement
  <2>1. round \in 0..MaxRounds /\ MaxRounds \in Nat /\ report.rate = Rate
    BY GroupSolveAssumption DEF IInv, Typed, Reported
  <2>2. status = "completed" => round = MaxRounds
    BY DEF IInv, Settling
  <2>3. CASE status = "converged"
    <3>1. Rate = (MaxRounds - round) * 10
      BY <2>3 DEF Rate
    <3>2. QED BY <2>1, <2>3, <3>1
  <2>4. CASE status = "completed"
    <3>1. Rate = (MaxRounds - round) * 8
      BY <2>4 DEF Rate
    <3>2. QED BY <2>1, <2>2, <2>4, <3>1
  <2>5. CASE status \notin {"converged", "completed"}
    BY <2>1, <2>5 DEF Rate
  <2>6. QED BY <2>3, <2>4, <2>5
<1>4. IInv => ResultFitsStatus
  BY <1>1, <1>2, <1>3 DEF ResultFitsStatus
<1>5. QED BY <1>4, GroupSolveInvariant, PTL

-----------------------------------------------------------------------------
(***************************************************************************)
(* GroupRuns.  The invariant says what the row of a run shows while its    *)
(* request and its task are under way, and counts the request that was let *)
(* through together with the rows that the limit counts.                   *)
(***************************************************************************)

\* What GroupRuns assumes of its constants.
Allowed == {r \in Run : request[r] = "allowed"}
Posted == {r \in Run : rowStatus[r] # "none"}

\* Until its request is answered a run has neither row nor task; a task has a row.
RowComesFirst ==
  \A r \in Run :
    /\ request[r] # "answered" => rowStatus[r] = "none" /\ task[r] = "none"
    /\ task[r] # "none" => rowStatus[r] # "none"

\* A run that is executed is pending, unless another process has failed it.
LiveIsPending ==
  \A r \in Run : Runs!Live(r) =>
    \/ rowStatus[r] = "pending"
    \/ rowStatus[r] = "failed" /\ \E p \in Process \ {server[r]} : <<p, r>> \in swept

\* What is swept, or about to be, has a row.
SweptHasRow ==
  /\ \A x \in swept : rowStatus[x[2]] # "none"
  /\ \A p \in starting : \A r \in sweep[p] : rowStatus[r] # "none"

\* A process that starts executes nothing, so that its own runs stay as it selected
\* them, or as another sweep has failed them.
OwnSweepIsDead ==
  \A p \in starting : \A r \in sweep[p] :
    server[r] = p => rowStatus[r] \in {"pending", "failed"}

\* One request at a time: the run that was let through is within the limit.
RoomForAllowed ==
  ~overlap =>
    /\ \A q, r \in Allowed : q = r
    /\ Cardinality(Runs!Recent) + (IF Allowed = {} THEN 0 ELSE 1) <= Limit

RunsIInv ==
  /\ Runs!GroupRunsAssumption
  /\ Runs!TypeOK /\ RowComesFirst /\ LiveIsPending /\ SweptHasRow /\ OwnSweepIsDead
  /\ Runs!OnlyOrphansSwept
  /\ IsFiniteSet(Posted) /\ RoomForAllowed

-----------------------------------------------------------------------------
(* What the limit counts. *)

LEMMA RunsCardinality == ASSUME NEW S PROVE Runs!Cardinality(S) = Cardinality(S)
BY DEF Runs!Cardinality, Cardinality

\* The recent rows are rows, of which there are finitely many.
LEMMA RecentFinite ==
  ASSUME RunsIInv, NEW S \in SUBSET Posted
  PROVE  IsFiniteSet(S) /\ Cardinality(S) \in Nat
BY FS_Subset, FS_CardinalityType DEF RunsIInv

\* Fewer requests that were let through, and fewer recent rows, stay within the limit.
LEMMA RoomStays ==
  ASSUME RunsIInv, overlap' = overlap, Allowed' \subseteq Allowed, Runs!Recent' \subseteq Runs!Recent
  PROVE  RoomForAllowed'
<1>1. Runs!Recent \in SUBSET Posted
  BY DEF Runs!Recent, Posted
<1>2. IsFiniteSet(Runs!Recent) /\ Cardinality(Runs!Recent) \in Nat
  BY <1>1, RecentFinite
<1>3. Cardinality(Runs!Recent') <= Cardinality(Runs!Recent) /\ Cardinality(Runs!Recent') \in Nat
  BY <1>2, FS_Subset, FS_CardinalityType
<1>4. SUFFICES ASSUME ~overlap
               PROVE  /\ \A q, r \in Allowed' : q = r
                      /\ Cardinality(Runs!Recent') + (IF Allowed' = {} THEN 0 ELSE 1) <= Limit
  BY DEF RoomForAllowed
<1>5. /\ \A q, r \in Allowed : q = r
      /\ Cardinality(Runs!Recent) + (IF Allowed = {} THEN 0 ELSE 1) <= Limit
  BY <1>4 DEF RunsIInv, RoomForAllowed
<1>6. QED BY <1>2, <1>3, <1>5 DEF RunsIInv, Runs!GroupRunsAssumption

-----------------------------------------------------------------------------
LEMMA RunsInitInv == Runs!GroupRunsAssumption /\ Runs!Init => RunsIInv
<1> SUFFICES ASSUME Runs!GroupRunsAssumption, Runs!Init PROVE RunsIInv
  OBVIOUS
<1>1. Runs!TypeOK
  <2>1. \A r \in Run : ~Runs!Live(r) /\ request[r] # "allowed"
    BY DEF Runs!Init, Runs!Live, Runs!Settled
  <2>2. now \in 0..MaxTime /\ createdAt \in [Run -> 0..now] /\ crashes \in 0..MaxCrashes
    BY DEF Runs!GroupRunsAssumption, Runs!Init
  <2>3. QED BY <2>1, <2>2 DEF Runs!Init, Runs!TypeOK, Runs!Settled
<1>2. RowComesFirst /\ LiveIsPending /\ SweptHasRow /\ OwnSweepIsDead /\ Runs!OnlyOrphansSwept
  BY DEF Runs!Init, RowComesFirst, LiveIsPending, Runs!Live, Runs!Settled, SweptHasRow, OwnSweepIsDead, Runs!OnlyOrphansSwept
<1>3. Posted = {} /\ Runs!Recent = {} /\ Allowed = {}
  BY DEF Runs!Init, Posted, Runs!Recent, Allowed
<1>4. QED BY <1>1, <1>2, <1>3, FS_EmptySet DEF RunsIInv, RoomForAllowed, Runs!GroupRunsAssumption

\* Rows only leave the last hour.
LEMMA TickInv == RunsIInv /\ Runs!Tick => RunsIInv'
<1> SUFFICES ASSUME RunsIInv, Runs!Tick PROVE RunsIInv'
  OBVIOUS
<1>1. Runs!TypeOK'
  BY DEF RunsIInv, Runs!TypeOK, Runs!Tick, Runs!Live, Runs!GroupRunsAssumption
<1>2. (RowComesFirst /\ LiveIsPending /\ SweptHasRow /\ OwnSweepIsDead /\ Runs!OnlyOrphansSwept)'
  BY DEF RunsIInv, Runs!Tick, RowComesFirst, LiveIsPending, Runs!Live, SweptHasRow, OwnSweepIsDead, Runs!OnlyOrphansSwept
<1>3. Posted' = Posted /\ Allowed' = Allowed
  BY DEF Runs!Tick, Posted, Allowed
<1>4. Runs!Recent' \subseteq Runs!Recent
  BY DEF RunsIInv, Runs!TypeOK, Runs!Tick, Runs!Recent, Runs!GroupRunsAssumption
<1>5. RoomForAllowed'
  BY <1>3, <1>4, RoomStays DEF Runs!Tick
<1>6. QED BY <1>1, <1>2, <1>3, <1>5 DEF RunsIInv

\* If no other request was let through, there is room for the row of this one.
LEMMA CheckLimitInv == ASSUME RunsIInv, NEW r \in Run, Runs!CheckLimit(r) PROVE RunsIInv'
<1>1. /\ Cardinality(Runs!Recent) < Limit
      /\ request[r] = "none" /\ server[r] \in up
      /\ request' = [request EXCEPT ![r] = "allowed"]
      /\ overlap' = (overlap \/ \E q \in Run : request[q] = "allowed")
      /\ UNCHANGED <<now, up, starting, sweep, server, rowStatus, createdAt, task, orphaned, swept, crashes>>
  BY RunsCardinality DEF Runs!CheckLimit, Runs!Allow
<1>2. Runs!TypeOK'
  BY <1>1 DEF RunsIInv, Runs!TypeOK, Runs!Live
<1>3. RowComesFirst'
  BY <1>1 DEF RunsIInv, Runs!TypeOK, RowComesFirst
<1>4. (LiveIsPending /\ SweptHasRow /\ OwnSweepIsDead /\ Runs!OnlyOrphansSwept)'
  BY <1>1 DEF RunsIInv, LiveIsPending, Runs!Live, SweptHasRow, OwnSweepIsDead, Runs!OnlyOrphansSwept
<1>5. Posted' = Posted /\ Runs!Recent' = Runs!Recent
  BY <1>1 DEF Posted, Runs!Recent
<1>6. RoomForAllowed'
  <2>1. SUFFICES ASSUME ~overlap'
                 PROVE  /\ \A q, p \in Allowed' : q = p
                        /\ Cardinality(Runs!Recent') + (IF Allowed' = {} THEN 0 ELSE 1) <= Limit
    BY DEF RoomForAllowed
  <2>2. Allowed' = {r}
    BY <1>1, <2>1 DEF RunsIInv, Runs!TypeOK, Allowed
  <2>3. Runs!Recent \in SUBSET Posted
    BY DEF Runs!Recent, Posted
  <2>4. Cardinality(Runs!Recent) \in Nat
    BY <2>3, RecentFinite
  <2>5. Cardinality(Runs!Recent') + 1 <= Limit
    BY <1>1, <1>5, <2>4 DEF RunsIInv, Runs!GroupRunsAssumption
  <2>6. QED BY <2>2, <2>5
<1>7. QED BY <1>2, <1>3, <1>4, <1>5, <1>6 DEF RunsIInv

\* The row takes the room that was kept for it.
LEMMA CreateInv == ASSUME RunsIInv, NEW r \in Run, Runs!Create(r) PROVE RunsIInv'
<1>1. /\ request[r] = "allowed"
      /\ request' = [request EXCEPT ![r] = "answered"]
      /\ rowStatus' = [rowStatus EXCEPT ![r] = "pending"]
      /\ createdAt' = [createdAt EXCEPT ![r] = now]
      /\ task' = [task EXCEPT ![r] = "started"]
      /\ UNCHANGED <<now, up, starting, sweep, server, orphaned, swept, overlap, crashes>>
  BY DEF Runs!Create
<1>2. rowStatus[r] = "none" /\ task[r] = "none" /\ \A p \in Process : <<p, r>> \notin swept
  BY <1>1 DEF RunsIInv, RowComesFirst, SweptHasRow
<1>3. Runs!TypeOK'
  <2>1. /\ rowStatus' \in [Run -> {"none", "pending"} \cup Runs!Settled]
        /\ task' \in [Run -> {"none", "started", "ended"} \cup Runs!Settled]
        /\ request' \in [Run -> {"none", "allowed", "answered"}]
        /\ createdAt' \in [Run -> 0..now]
    BY <1>1 DEF RunsIInv, Runs!TypeOK, Runs!GroupRunsAssumption
  <2>2. \A q \in Run : Runs!Live(q)' \/ request'[q] = "allowed" => server[q] \in up
    BY <1>1 DEF RunsIInv, Runs!TypeOK, Runs!Live
  <2>3. QED BY <1>1, <2>1, <2>2 DEF RunsIInv, Runs!TypeOK
<1>4. RowComesFirst'
  BY <1>1 DEF RunsIInv, Runs!TypeOK, RowComesFirst
<1>5. LiveIsPending'
  BY <1>1 DEF RunsIInv, Runs!TypeOK, LiveIsPending, Runs!Live
<1>6. SweptHasRow' /\ OwnSweepIsDead' /\ Runs!OnlyOrphansSwept'
  <2>a. \A p \in starting : \A q \in sweep[p] : q \in Run /\ q # r /\ rowStatus'[q] = rowStatus[q]
    BY <1>1, <1>2 DEF RunsIInv, Runs!TypeOK, SweptHasRow
  <2>b. OwnSweepIsDead' /\ \A p \in starting' : \A q \in sweep'[p] : rowStatus'[q] # "none"
    BY <1>1, <2>a DEF RunsIInv, SweptHasRow, OwnSweepIsDead
  <2> SUFFICES ASSUME NEW x \in swept
               PROVE  rowStatus'[x[2]] # "none" /\ (server[x[2]] = x[1] => ~Runs!Live(x[2])')
    BY <1>1, <2>b DEF SweptHasRow, Runs!OnlyOrphansSwept
  <2>1. x[2] \in Run /\ rowStatus[x[2]] # "none" /\ (server[x[2]] = x[1] => ~Runs!Live(x[2]))
    BY DEF RunsIInv, Runs!TypeOK, SweptHasRow, OwnSweepIsDead, Runs!OnlyOrphansSwept
  <2>2. x[2] # r
    BY <1>2, <2>1
  <2>3. rowStatus'[x[2]] = rowStatus[x[2]] /\ task'[x[2]] = task[x[2]]
    BY <1>1, <2>1, <2>2 DEF RunsIInv, Runs!TypeOK
  <2>4. QED BY <2>1, <2>3 DEF Runs!Live
<1>7. Posted' = Posted \cup {r} /\ Allowed' = Allowed \ {r}
  BY <1>1 DEF RunsIInv, Runs!TypeOK, Posted, Allowed
<1>8. Runs!Recent' = Runs!Recent \cup {r} /\ r \notin Runs!Recent
  BY <1>1, <1>2 DEF RunsIInv, Runs!TypeOK, Runs!Recent, Runs!GroupRunsAssumption
<1>9. IsFiniteSet(Posted')
  BY <1>7, FS_AddElement DEF RunsIInv
<1>10. RoomForAllowed'
  <2>1. SUFFICES ASSUME ~overlap
                 PROVE  /\ \A q, p \in Allowed' : q = p
                        /\ Cardinality(Runs!Recent') + (IF Allowed' = {} THEN 0 ELSE 1) <= Limit
    BY <1>1 DEF RoomForAllowed
  <2>2. r \in Allowed /\ (\A q, p \in Allowed : q = p) /\ Cardinality(Runs!Recent) + 1 <= Limit
    BY <1>1, <2>1 DEF RunsIInv, RoomForAllowed, Allowed
  <2>3. Allowed' = {}
    BY <1>7, <2>2
  <2>4. Runs!Recent \in SUBSET Posted
    BY DEF Runs!Recent, Posted
  <2>5. IsFiniteSet(Runs!Recent) /\ Cardinality(Runs!Recent) \in Nat
    BY <2>4, RecentFinite
  <2>6. Cardinality(Runs!Recent') = Cardinality(Runs!Recent) + 1
    BY <1>8, <2>5, FS_AddElement
  <2>7. QED BY <2>2, <2>3, <2>5, <2>6
<1>11. QED BY <1>3, <1>4, <1>5, <1>6, <1>9, <1>10 DEF RunsIInv

-----------------------------------------------------------------------------
(* The task, and the ends and starts of processes. *)

\* A task that goes on, or ends, without touching its row.
LEMMA TaskInv ==
  ASSUME RunsIInv, NEW r \in Run, Runs!Live(r),
         NEW ended \in {"ended"} \cup Runs!Settled, task' = [task EXCEPT ![r] = ended],
         orphaned \subseteq orphaned', orphaned' \subseteq Run,
         UNCHANGED <<now, up, starting, sweep, request, server, rowStatus, createdAt, swept, overlap, crashes>>
  PROVE  RunsIInv'
<1>1. \A q \in Run : Runs!Live(q)' => Runs!Live(q)
  BY DEF RunsIInv, Runs!TypeOK, Runs!Live
<1>2. rowStatus[r] # "none" /\ request[r] = "answered"
  BY DEF RunsIInv, RowComesFirst, Runs!Live, Runs!Settled
<1>3. Runs!TypeOK'
  BY <1>1 DEF RunsIInv, Runs!TypeOK, Runs!Settled
<1>4. RowComesFirst'
  BY <1>2 DEF RunsIInv, Runs!TypeOK, RowComesFirst
<1>5. (LiveIsPending /\ SweptHasRow /\ OwnSweepIsDead /\ Runs!OnlyOrphansSwept)'
  BY <1>1 DEF RunsIInv, Runs!TypeOK, LiveIsPending, SweptHasRow, OwnSweepIsDead, Runs!OnlyOrphansSwept
<1>6. Posted' = Posted /\ Allowed' = Allowed /\ Runs!Recent' = Runs!Recent
  BY DEF Posted, Allowed, Runs!Recent
<1>7. QED BY <1>3, <1>4, <1>5, <1>6, RoomStays DEF RunsIInv

LEMMA SolveInv == ASSUME RunsIInv, NEW r \in Run, Runs!Solve(r) PROVE RunsIInv'
<1>1. /\ task[r] = "started"
      /\ UNCHANGED <<now, up, starting, sweep, request, server, rowStatus, createdAt, orphaned, swept, overlap, crashes>>
  BY DEF Runs!Solve
<1>2. PICK outcome \in Runs!Settled : task' = [task EXCEPT ![r] = outcome]
  BY DEF Runs!Solve
<1>3. QED BY <1>1, <1>2, TaskInv DEF Runs!Live, RunsIInv, Runs!TypeOK

LEMMA TaskEndsInv ==
  ASSUME RunsIInv, NEW r \in Run, Runs!BadRole(r) \/ Runs!WriteFails(r) PROVE RunsIInv'
<1>1. /\ Runs!Live(r)
      /\ task' = [task EXCEPT ![r] = "ended"]
      /\ orphaned' = orphaned \cup {r}
      /\ UNCHANGED <<now, up, starting, sweep, request, server, rowStatus, createdAt, swept, overlap, crashes>>
  BY DEF Runs!BadRole, Runs!WriteFails, Runs!Live
<1>2. QED BY <1>1, TaskInv DEF RunsIInv, Runs!TypeOK

\* The row is there, so that the limit counts it before and after.
LEMMA WriteInv == ASSUME RunsIInv, NEW r \in Run, Runs!Write(r) PROVE RunsIInv'
<1>1. /\ task[r] \in Runs!Settled
      /\ rowStatus' = [rowStatus EXCEPT ![r] = task[r]]
      /\ task' = [task EXCEPT ![r] = "ended"]
      /\ UNCHANGED <<now, up, starting, sweep, request, server, createdAt, orphaned, swept, overlap, crashes>>
  BY DEF Runs!Write
<1>2. rowStatus[r] # "none" /\ request[r] = "answered" /\ task[r] # "none"
  BY <1>1 DEF RunsIInv, RowComesFirst, Runs!Settled
<1>3. \A q \in Run : (Runs!Live(q)' => Runs!Live(q) /\ q # r) /\ (rowStatus'[q] = "none" <=> rowStatus[q] = "none")
  BY <1>1, <1>2 DEF RunsIInv, Runs!TypeOK, Runs!Live, Runs!Settled
<1>4. Runs!TypeOK'
  BY <1>1, <1>3 DEF RunsIInv, Runs!TypeOK, Runs!Settled
<1>5. RowComesFirst'
  BY <1>1, <1>2, <1>3 DEF RunsIInv, Runs!TypeOK, RowComesFirst
<1>6. LiveIsPending'
  BY <1>1, <1>3 DEF RunsIInv, Runs!TypeOK, LiveIsPending
<1>7. SweptHasRow' /\ OwnSweepIsDead' /\ Runs!OnlyOrphansSwept'
  <2>1. SweptHasRow' /\ Runs!OnlyOrphansSwept'
    BY <1>1, <1>3 DEF RunsIInv, Runs!TypeOK, SweptHasRow, Runs!OnlyOrphansSwept
  <2>2. server[r] \notin starting
    BY <1>1 DEF RunsIInv, Runs!TypeOK, Runs!Live
  <2>3. OwnSweepIsDead'
    BY <1>1, <2>2 DEF RunsIInv, Runs!TypeOK, OwnSweepIsDead
  <2>4. QED BY <2>1, <2>3
<1>8. Posted' = Posted /\ Allowed' = Allowed /\ Runs!Recent' = Runs!Recent
  BY <1>1, <1>3 DEF Posted, Allowed, Runs!Recent
<1>9. QED BY <1>1, <1>4, <1>5, <1>6, <1>7, <1>8, RoomStays DEF RunsIInv

\* What ends with a process leaves no task of it, and no room that is kept.
LEMMA CrashInv == ASSUME RunsIInv, NEW p \in Process, Runs!Crash(p) PROVE RunsIInv'
<1> DEFINE dead == {r \in Run : server[r] = p /\ Runs!Live(r)}
<1>1. /\ up' = up \ {p} /\ starting' = starting \ {p}
      /\ crashes < MaxCrashes /\ crashes' = crashes + 1
      /\ task' = [r \in Run |-> IF r \in dead THEN "ended" ELSE task[r]]
      /\ request' = [r \in Run |->
           IF server[r] = p /\ request[r] = "allowed" THEN "answered" ELSE request[r]]
      /\ orphaned' = orphaned \cup dead
      /\ UNCHANGED <<now, sweep, server, rowStatus, createdAt, swept, overlap>>
  BY DEF Runs!Crash
<1>2. \A r \in Run : /\ Runs!Live(r)' => Runs!Live(r) /\ server[r] # p
                     /\ request'[r] = "allowed" => request[r] = "allowed" /\ server[r] # p
                     /\ request'[r] # "answered" => request'[r] = request[r]
                     /\ task'[r] # task[r] => task[r] # "none" /\ task'[r] = "ended"
  BY <1>1 DEF RunsIInv, Runs!TypeOK, Runs!Live, Runs!Settled
<1>3. Runs!TypeOK'
  <2>1. /\ up' \subseteq Process /\ crashes' \in 0..MaxCrashes /\ orphaned' \subseteq Run
        /\ task' \in [Run -> {"none", "started", "ended"} \cup Runs!Settled]
        /\ request' \in [Run -> {"none", "allowed", "answered"}]
    BY <1>1 DEF RunsIInv, Runs!TypeOK, Runs!GroupRunsAssumption
  <2>2. \A r \in Run : Runs!Live(r)' \/ request'[r] = "allowed" => server[r] \in up'
    BY <1>1, <1>2 DEF RunsIInv, Runs!TypeOK
  <2>3. starting' \subseteq Process \ up' /\ starting' \subseteq starting
    BY <1>1 DEF RunsIInv, Runs!TypeOK
  <2>4. QED BY <1>1, <2>1, <2>2, <2>3 DEF RunsIInv, Runs!TypeOK
<1>4. RowComesFirst'
  BY <1>1, <1>2 DEF RunsIInv, RowComesFirst
<1>5. (LiveIsPending /\ SweptHasRow /\ OwnSweepIsDead /\ Runs!OnlyOrphansSwept)'
  <2>1. LiveIsPending' /\ Runs!OnlyOrphansSwept'
    BY <1>1, <1>2 DEF RunsIInv, Runs!TypeOK, LiveIsPending, Runs!OnlyOrphansSwept
  <2>2. SweptHasRow' /\ OwnSweepIsDead'
    BY <1>1 DEF RunsIInv, SweptHasRow, OwnSweepIsDead
  <2>3. QED BY <2>1, <2>2
<1>6. Posted' = Posted /\ Allowed' \subseteq Allowed /\ Runs!Recent' = Runs!Recent
  BY <1>1, <1>2 DEF Posted, Allowed, Runs!Recent
<1>7. QED BY <1>1, <1>3, <1>4, <1>5, <1>6, RoomStays DEF RunsIInv

\* What a process selects has a row, and is pending.
LEMMA RestartInv == ASSUME RunsIInv, NEW p \in Process, Runs!Restart(p) PROVE RunsIInv'
<1> DEFINE stuck == {r \in Run : rowStatus[r] = "pending" /\ createdAt[r] + StuckAfter < now}
<1>1. /\ p \notin up \cup starting /\ starting' = starting \cup {p}
      /\ sweep' = [sweep EXCEPT ![p] = stuck]
      /\ UNCHANGED <<now, up, request, server, rowStatus, createdAt, task, orphaned, swept, overlap, crashes>>
  BY DEF Runs!Restart, Runs!Start
<1>2. \A r \in stuck : r \in Run /\ rowStatus[r] = "pending"
  OBVIOUS
<1>3. stuck \subseteq Run
  OBVIOUS
<1> HIDE DEF stuck
<1>4. \A q \in starting' : sweep'[q] = IF q = p THEN stuck ELSE sweep[q]
  BY <1>1 DEF RunsIInv, Runs!TypeOK
<1>5. Runs!TypeOK'
  <2>1. starting' \subseteq Process \ up /\ sweep' \in [Process -> SUBSET Run]
    BY <1>1, <1>3 DEF RunsIInv, Runs!TypeOK
  <2>2. QED BY <1>1, <2>1 DEF RunsIInv, Runs!TypeOK, Runs!Live
<1>6. (RowComesFirst /\ LiveIsPending /\ Runs!OnlyOrphansSwept)'
  BY <1>1 DEF RunsIInv, RowComesFirst, LiveIsPending, Runs!Live, Runs!OnlyOrphansSwept
<1>7. SweptHasRow' /\ OwnSweepIsDead'
  BY <1>1, <1>2, <1>4 DEF RunsIInv, SweptHasRow, OwnSweepIsDead
<1>8. Posted' = Posted /\ Allowed' = Allowed /\ Runs!Recent' = Runs!Recent
  BY <1>1 DEF Posted, Allowed, Runs!Recent
<1>9. QED BY <1>1, <1>5, <1>6, <1>7, <1>8, RoomStays DEF RunsIInv

\* A process that was not up executes nothing when it sweeps; the rows of others that
\* it fails may be those of live tasks, and may have settled.
LEMMA SweepInv ==
  ASSUME RunsIInv, NEW p \in Process, Runs!SweepEnds(p), NEW failed \in SUBSET sweep[p],
         rowStatus' = [r \in Run |-> IF r \in failed THEN "failed" ELSE rowStatus[r]],
         swept' = swept \cup {<<p, r>> : r \in failed}
  PROVE  RunsIInv'
<1>1. /\ p \in starting /\ starting' = starting \ {p} /\ up' = up \cup {p}
      /\ UNCHANGED <<now, sweep, request, server, createdAt, task, orphaned, overlap, crashes>>
  BY DEF Runs!SweepEnds
<1>2. p \notin up /\ \A r \in failed : r \in Run /\ rowStatus[r] # "none"
  BY <1>1 DEF RunsIInv, Runs!TypeOK, SweptHasRow
<1>3. \A r \in Run : /\ Runs!Live(r)' <=> Runs!Live(r)
                     /\ Runs!Live(r) => server[r] # p /\ server[r] \in up
                     /\ rowStatus'[r] = "none" <=> rowStatus[r] = "none"
                     /\ rowStatus'[r] \in {rowStatus[r], "failed"}
  BY <1>1, <1>2 DEF RunsIInv, Runs!TypeOK, Runs!Live
<1>4. Runs!TypeOK'
  <2>1. /\ rowStatus' \in [Run -> {"none", "pending"} \cup Runs!Settled]
        /\ swept' \subseteq Process \X Run /\ up' \subseteq Process
    BY <1>1, <1>2 DEF RunsIInv, Runs!TypeOK, Runs!Settled
  <2>2. \A r \in Run : Runs!Live(r)' \/ request'[r] = "allowed" => server'[r] \in up'
    BY <1>1, <1>3 DEF RunsIInv, Runs!TypeOK
  <2>3. starting' \subseteq Process \ up'
    BY <1>1 DEF RunsIInv, Runs!TypeOK
  <2>4. QED BY <1>1, <2>1, <2>2, <2>3 DEF RunsIInv, Runs!TypeOK
<1>5. RowComesFirst'
  BY <1>1, <1>3 DEF RunsIInv, RowComesFirst
<1>6. LiveIsPending'
  <2> SUFFICES ASSUME NEW r \in Run, Runs!Live(r)'
               PROVE  \/ rowStatus'[r] = "pending"
                      \/ rowStatus'[r] = "failed" /\ \E q \in Process \ {server[r]} : <<q, r>> \in swept'
    BY <1>1 DEF LiveIsPending
  <2>1. CASE r \in failed
    BY <1>3, <2>1
  <2>2. CASE r \notin failed
    BY <1>3, <2>2 DEF RunsIInv, LiveIsPending
  <2>3. QED BY <2>1, <2>2
<1>7. SweptHasRow' /\ Runs!OnlyOrphansSwept'
  <2>1. \A q \in starting' : \A r \in sweep'[q] : rowStatus'[r] # "none"
    BY <1>1, <1>3 DEF RunsIInv, Runs!TypeOK, SweptHasRow
  <2> SUFFICES ASSUME NEW x \in swept'
               PROVE  rowStatus'[x[2]] # "none" /\ (server[x[2]] = x[1] => ~Runs!Live(x[2])')
    BY <1>1, <2>1 DEF SweptHasRow, Runs!OnlyOrphansSwept
  <2>2. CASE x \in swept
    BY <1>3, <2>2 DEF RunsIInv, Runs!TypeOK, SweptHasRow, Runs!OnlyOrphansSwept
  <2>3. CASE x \notin swept
    <3>1. PICK r \in failed : x = <<p, r>>
      BY <2>3
    <3>2. QED BY <1>2, <1>3, <3>1
  <2>4. QED BY <2>2, <2>3
<1>8. OwnSweepIsDead'
  BY <1>1, <1>3 DEF RunsIInv, Runs!TypeOK, OwnSweepIsDead
<1>9. Posted' = Posted /\ Allowed' = Allowed /\ Runs!Recent' = Runs!Recent
  BY <1>1, <1>3 DEF Posted, Allowed, Runs!Recent
<1>10. QED BY <1>1, <1>4, <1>5, <1>6, <1>7, <1>8, <1>9, RoomStays DEF RunsIInv

LEMMA SweepCommitsInv == ASSUME RunsIInv, NEW p \in Process, Runs!SweepCommits(p) PROVE RunsIInv'
BY SweepInv DEF Runs!SweepCommits

LEMMA SweepFailsInv == ASSUME RunsIInv, NEW p \in Process, Runs!SweepFails(p) PROVE RunsIInv'
<1>1. rowStatus' = [r \in Run |-> IF r \in {} THEN "failed" ELSE rowStatus[r]]
  BY DEF Runs!SweepFails, RunsIInv, Runs!TypeOK
<1>2. swept' = swept \cup {<<p, r>> : r \in {}}
  BY DEF Runs!SweepFails
<1>3. Runs!SweepEnds(p) /\ {} \in SUBSET sweep[p]
  BY DEF Runs!SweepFails
<1>4. QED BY <1>1, <1>2, <1>3, SweepInv

-----------------------------------------------------------------------------
\* Every step keeps the invariant.
LEMMA RunsNextInv == RunsIInv /\ [Runs!Next]_(Runs!vars) => RunsIInv'
<1> SUFFICES ASSUME RunsIInv, [Runs!Next]_(Runs!vars) PROVE RunsIInv'
  OBVIOUS
<1>1. CASE Runs!Tick
  BY <1>1, TickInv
<1>2. CASE \E r \in Run : Runs!CheckLimit(r) \/ Runs!Create(r) \/ Runs!TaskStep(r)
  BY <1>2, CheckLimitInv, CreateInv, SolveInv, WriteInv, TaskEndsInv DEF Runs!TaskStep
<1>3. CASE \E p \in Process : Runs!Crash(p) \/ Runs!Restart(p) \/ Runs!SweepCommits(p) \/ Runs!SweepFails(p)
  BY <1>3, CrashInv, RestartInv, SweepCommitsInv, SweepFailsInv
<1>4. CASE UNCHANGED Runs!vars
  <2>1. Posted' = Posted /\ Allowed' = Allowed /\ Runs!Recent' = Runs!Recent
    BY <1>4 DEF Runs!vars, Posted, Allowed, Runs!Recent
  <2>2. QED BY <1>4, <2>1, RoomStays
            DEF Runs!vars, RunsIInv, Runs!TypeOK, Runs!Live, RowComesFirst, LiveIsPending, SweptHasRow, OwnSweepIsDead, Runs!OnlyOrphansSwept
<1>5. QED BY <1>1, <1>2, <1>3, <1>4 DEF Runs!Next

\* The invariant holds in every state.
THEOREM GroupRunsInvariant ==
  Runs!Spec => []RunsIInv
<1>1. Runs!Init => RunsIInv
  BY RunsInitInv, GroupRunsConstants
<1>2. QED BY <1>1, RunsNextInv, PTL DEF Runs!Spec

\* A tenant's limit holds of requests that do not overlap, and a process fails no run
\* that it executes itself (create_group_run(), _recover_stuck_group_runs()).
THEOREM GroupRunsAreSafe ==
  Runs!Spec => []RunsAreSafe
<1>1. RunsIInv => Runs!LimitEnforced
  <2> SUFFICES ASSUME RunsIInv, ~overlap PROVE Cardinality(Runs!Recent) <= Limit
    BY RunsCardinality DEF Runs!LimitEnforced
  <2>1. Runs!Recent \in SUBSET Posted
    BY DEF Runs!Recent, Posted
  <2>2. Cardinality(Runs!Recent) \in Nat
    BY <2>1, RecentFinite
  <2>3. QED BY <2>2 DEF RunsIInv, RoomForAllowed, Runs!GroupRunsAssumption
<1>2. RunsIInv => RunsAreSafe
  BY <1>1 DEF RunsIInv, RunsAreSafe, Runs!RunsAreSafe
<1>3. QED BY <1>2, GroupRunsInvariant, PTL

\* The outcome of a run is written over by its task only if another process has failed
\* the run, and by a sweep only if that is another process's and has selected the
\* run (_execute_group_run(), _recover_stuck_group_runs()).
THEOREM GroupRunsSettledIsFinal ==
  Runs!Spec => SettledIsFinal
<1> DEFINE Final ==
      \A r \in Run : rowStatus[r] \in Runs!Settled =>
        \/ rowStatus'[r] = rowStatus[r]
        \/ rowStatus[r] = "failed" /\ \E p \in Process \ {server[r]} : <<p, r>> \in swept
        \/ rowStatus'[r] = "failed" /\ \E p \in starting \ {server[r]} : r \in sweep[p]
<1>1. RunsIInv /\ [Runs!Next]_(Runs!vars) => [Final]_(Runs!vars)
  <2> SUFFICES ASSUME RunsIInv, Runs!Next, NEW r \in Run, rowStatus[r] \in Runs!Settled, rowStatus'[r] # rowStatus[r]
               PROVE  \/ rowStatus[r] = "failed" /\ \E p \in Process \ {server[r]} : <<p, r>> \in swept
                      \/ rowStatus'[r] = "failed" /\ \E p \in starting \ {server[r]} : r \in sweep[p]
    OBVIOUS
  <2>1. CASE \E q \in Run : Runs!Write(q)
    <3>1. Runs!Write(r)
      BY <2>1 DEF Runs!Write, RunsIInv, Runs!TypeOK
    <3>2. Runs!Live(r)
      BY <3>1 DEF Runs!Write, Runs!Live
    <3>3. QED BY <3>2 DEF RunsIInv, LiveIsPending, Runs!Settled
  <2>2. CASE \E q \in Run : Runs!Create(q)
    <3>1. Runs!Create(r)
      BY <2>2 DEF Runs!Create, RunsIInv, Runs!TypeOK
    <3>2. QED BY <3>1 DEF Runs!Create, RunsIInv, RowComesFirst, Runs!Settled
  <2>3. CASE \E p \in Process : Runs!SweepCommits(p)
    <3>1. PICK p \in Process : Runs!SweepCommits(p)
      BY <2>3
    <3>2. p \in starting /\ rowStatus'[r] = IF r \in sweep[p] THEN "failed" ELSE rowStatus[r]
      BY <3>1 DEF Runs!SweepCommits, Runs!SweepEnds
    <3>3. r \in sweep[p] /\ rowStatus'[r] = "failed" /\ rowStatus[r] = "completed"
      BY <3>2 DEF Runs!Settled
    <3>4. server[r] # p
      BY <3>2, <3>3 DEF RunsIInv, OwnSweepIsDead
    <3>5. QED BY <3>2, <3>3, <3>4
  <2>4. UNCHANGED rowStatus \/ (\E q \in Run : Runs!Write(q) \/ Runs!Create(q)) \/ \E p \in Process : Runs!SweepCommits(p)
    BY DEF Runs!Next, Runs!TaskStep, Runs!Tick, Runs!CheckLimit, Runs!Allow, Runs!BadRole, Runs!Solve, Runs!WriteFails,
           Runs!Crash, Runs!Restart, Runs!Start, Runs!SweepFails
  <2>5. QED BY <2>1, <2>2, <2>3, <2>4
<1>2. QED BY <1>1, GroupRunsInvariant, PTL DEF Runs!Spec, SettledIsFinal, Runs!SettledIsFinal

=============================================================================
