--------------------------- MODULE ServicesProofs ---------------------------
(***************************************************************************)
(* Proofs about the small services of MCServices, for all values of their  *)
(* constants.  Each section has one service: what makes its property       *)
(* inductive, a lemma for each of its actions, and the theorem.  A step of *)
(* another service leaves its variables as they are.                       *)
(***************************************************************************)
EXTENDS MCServices, TLAPS, WellFoundedInduction, FiniteSetTheorems

Services == Init /\ [][Next]_vars

LEMMA OneService ==
  [Next]_vars =>
    /\ Feed!Next \/ UNCHANGED feedVars
    /\ Members!Next \/ UNCHANGED memberVars
    /\ Alerts!Next \/ UNCHANGED ruleVars
    /\ Golden!Next \/ UNCHANGED goldenVars
    /\ Scorer!Next \/ UNCHANGED scorerVars
    /\ Storage!Next \/ UNCHANGED storageVars
    /\ Tracing!Next \/ UNCHANGED tracingVars
    /\ Patching!Next \/ UNCHANGED patchingVars
<1> SUFFICES ASSUME [Next]_vars
             PROVE  /\ Feed!Next \/ UNCHANGED feedVars
                    /\ Members!Next \/ UNCHANGED memberVars
                    /\ Alerts!Next \/ UNCHANGED ruleVars
                    /\ Golden!Next \/ UNCHANGED goldenVars
                    /\ Scorer!Next \/ UNCHANGED scorerVars
                    /\ Storage!Next \/ UNCHANGED storageVars
                    /\ Tracing!Next \/ UNCHANGED tracingVars
                    /\ Patching!Next \/ UNCHANGED patchingVars
  OBVIOUS
<1>1. CASE UNCHANGED vars
  BY <1>1 DEF vars, apiVars
<1>2. CASE ApiNext /\ UNCHANGED <<service, goldenVars, scorerVars, storageVars, tracingVars, patchingVars>>
  BY <1>2 DEF ApiNext
<1>3. CASE Next /\ UNCHANGED apiVars
  BY <1>3 DEF Next, OthersRest, ApiNext, apiVars
<1>4. QED BY <1>1, <1>2, <1>3 DEF Next, OthersRest

-----------------------------------------------------------------------------
(* The greatest of some numbers *)

Less == {ss \in Nat \X Nat : ss[1] < ss[2]}

LEMMA LessWF == IsWellFoundedOn(Less, Nat)
BY NatLessThanWellFounded DEF OpToRel, Less

\* A set without a greatest number would have a smallest subset like that.
LEMMA Greatest ==
  ASSUME NEW S \in SUBSET Nat, IsFiniteSet(S), S # {}
  PROVE  \E x \in S : \A y \in S : x >= y
<1> SUFFICES ASSUME ~ \E x \in S : \A y \in S : x >= y PROVE FALSE
  OBVIOUS
<1> DEFINE Endless(U) == U # {} /\ ~ \E x \in U : \A y \in U : x >= y
           T == {n \in Nat : \E U \in SUBSET S : Endless(U) /\ Cardinality(U) = n}
<1>1. Cardinality(S) \in T
  BY FS_CardinalityType
<1>2. PICK n \in T : \A k \in T : ~(<<k, n>> \in Less)
  <2>1. T \subseteq Nat /\ T # {}
    BY <1>1
  <2> HIDE DEF T
  <2>2. QED BY <2>1, LessWF, WFMin
<1>3. PICK U \in SUBSET S : Endless(U) /\ Cardinality(U) = n
  OBVIOUS
<1>4. PICK x \in U : TRUE
  BY <1>3
<1>5. U \ {x} # {}
  BY <1>3, <1>4
<1>6. PICK y \in U \ {x} : \A z \in U \ {x} : y >= z
  <2>1. IsFiniteSet(U)
    BY FS_Subset
  <2>2. Cardinality(U \ {x}) = n - 1 /\ Cardinality(U \ {x}) \in Nat
    BY <1>3, <1>4, <2>1, FS_RemoveElement, FS_CardinalityType
  <2>3. n \in Nat /\ <<n - 1, n>> \in Less
    BY <2>2 DEF Less
  <2>4. n - 1 \notin T
    BY <1>2, <2>3
  <2>5. ~Endless(U \ {x})
    BY <2>2, <2>4
  <2>6. QED BY <1>5, <2>5
<1>7. x \in Nat /\ y \in Nat
  BY <1>4, <1>6
<1>8. CASE x >= y
  <2>1. \A z \in U : x >= z
    BY <1>6, <1>7, <1>8
  <2>2. QED BY <1>3, <1>4, <2>1
<1>9. CASE ~(x >= y)
  <2>1. \A z \in U : y >= z
    BY <1>6, <1>7, <1>9
  <2>2. QED BY <1>3, <1>6, <2>1
<1>10. QED BY <1>8, <1>9

-----------------------------------------------------------------------------
(* Alert rules and channels (AlertRules) *)

Channel == [id : Nat \ {0}, type : ChannelType, active : BOOLEAN, placeholder : BOOLEAN]

RulesTyped ==
  /\ channels \subseteq Channel
  /\ channelsMade \in Nat
  /\ resolving \subseteq [n : Nat, rule : Nat, changes : BOOLEAN, type : ChannelType, channel : Nat]
  /\ rules \subseteq [id : Nat, channel : Nat]
  /\ resolved \in Nat

\* Placeholders are created active.
OffIsExcused == \A c \in channels : c.placeholder /\ ~c.active => c.type \in excused

\* Two requests that found no channel overlap.
NoneFoundTwice ==
  \A q, p \in resolving : q.channel = 0 /\ p.channel = 0 /\ q.type = p.type /\ q # p => q.type \in excused

\* A request found no channel, and now there is a placeholder.
NoneFoundIsExcused ==
  \A q \in resolving, c \in channels :
    q.channel = 0 /\ c.placeholder /\ c.type = q.type => c.type \in excused

AlertsIInv ==
  /\ RulesTyped /\ OffIsExcused /\ NoneFoundTwice /\ NoneFoundIsExcused
  /\ RulesShareChannels

LEMMA AlertsInit == Init => AlertsIInv
BY DEF Init, ApiInit, Alerts!Init, AlertsIInv, RulesTyped, OffIsExcused, NoneFoundTwice,
       NoneFoundIsExcused, RulesShareChannels, Alerts!RulesShareChannels

\* A request looks for a channel of its type.
LEMMA ResolveInv ==
  ASSUME AlertsIInv, NEW rule \in Nat, NEW changes \in BOOLEAN, NEW ty \in ChannelType,
         Alerts!Resolve(rule, changes, ty)
  PROVE  AlertsIInv'
<1>1. PICK c \in IF Alerts!Usable(ty) = {} THEN {0} ELSE Alerts!Usable(ty) :
         /\ resolving' = resolving \cup
              {[n |-> resolved + 1, rule |-> rule, changes |-> changes, type |-> ty, channel |-> c]}
         /\ excused' = IF c = 0 /\ \E q \in resolving : q.type = ty /\ q.channel = 0
                       THEN excused \cup {ty} ELSE excused
  BY DEF Alerts!Resolve
<1> DEFINE n == [n |-> resolved + 1, rule |-> rule, changes |-> changes, type |-> ty, channel |-> c]
<1>2. UNCHANGED <<channels, rules, channelsMade>> /\ resolved' = resolved + 1
  BY DEF Alerts!Resolve
<1>3. c \in Nat /\ (c = 0 => \A x \in channels : x.type = ty => ~x.active)
  BY DEF Alerts!Usable, AlertsIInv, RulesTyped, Channel
<1>4. n.type = ty /\ n.channel = c /\ n \in [n : Nat, rule : Nat, changes : BOOLEAN, type : ChannelType, channel : Nat]
  BY <1>3 DEF AlertsIInv, RulesTyped
<1>5. resolving' = resolving \cup {n}
  BY <1>1
<1> HIDE DEF n
<1>6. excused \subseteq excused'
  BY <1>1
<1>7. RulesTyped' /\ OffIsExcused'
  BY <1>2, <1>4, <1>5, <1>6 DEF AlertsIInv, RulesTyped, OffIsExcused
<1>8. NoneFoundTwice'
  BY <1>1, <1>4, <1>5, <1>6 DEF AlertsIInv, NoneFoundTwice
<1>9. NoneFoundIsExcused'
  BY <1>2, <1>3, <1>4, <1>5, <1>6 DEF AlertsIInv, RulesTyped, NoneFoundIsExcused, OffIsExcused
<1>10. RulesShareChannels'
  BY <1>2, <1>6 DEF AlertsIInv, RulesShareChannels, Alerts!RulesShareChannels
<1>11. QED BY <1>7, <1>8, <1>9, <1>10 DEF AlertsIInv

\* A request writes its rule, and a placeholder if it found no channel.
LEMMA SaveInv ==
  ASSUME AlertsIInv, NEW q \in resolving, Alerts!Save(q)
  PROVE  AlertsIInv'
<1>1. /\ q \in [n : Nat, rule : Nat, changes : BOOLEAN, type : ChannelType, channel : Nat]
      /\ resolving' = resolving \ {q} /\ UNCHANGED <<resolved, excused>>
  BY DEF Alerts!Save, AlertsIInv, RulesTyped
<1>2. CASE q.channel = 0
  <2> DEFINE d == [id |-> channelsMade + 1, type |-> q.type, active |-> TRUE, placeholder |-> TRUE]
  <2>1. /\ channels' = channels \cup {d} /\ channelsMade' = channelsMade + 1
        /\ rules' = {r \in rules : r.id # q.rule} \cup {[id |-> q.rule, channel |-> channelsMade + 1]}
    BY <1>2 DEF Alerts!Save, Alerts!Placeholder
  <2>2. d \in Channel /\ d.id = channelsMade + 1 /\ d.type = q.type /\ d.active /\ d.placeholder
    BY <1>1 DEF AlertsIInv, RulesTyped, Channel
  <2> HIDE DEF d
  <2>3. RulesTyped'
    BY <1>1, <2>1, <2>2 DEF AlertsIInv, RulesTyped
  <2>4. OffIsExcused' /\ NoneFoundTwice'
    BY <1>1, <2>1, <2>2 DEF AlertsIInv, OffIsExcused, NoneFoundTwice
  <2>5. NoneFoundIsExcused'
    BY <1>1, <1>2, <2>1, <2>2 DEF AlertsIInv, NoneFoundTwice, NoneFoundIsExcused
  <2>6. RulesShareChannels'
    BY <1>1, <1>2, <2>1, <2>2 DEF AlertsIInv, NoneFoundIsExcused, RulesShareChannels, Alerts!RulesShareChannels
  <2>7. QED BY <2>3, <2>4, <2>5, <2>6 DEF AlertsIInv
<1>3. CASE q.channel # 0
  <2>1. /\ UNCHANGED <<channels, channelsMade>>
        /\ \E c \in channels : c.id = q.channel
        /\ rules' = {r \in rules : r.id # q.rule} \cup {[id |-> q.rule, channel |-> q.channel]}
    BY <1>3 DEF Alerts!Save, Alerts!Placeholder
  <2>2. QED
    BY <1>1, <2>1 DEF AlertsIInv, RulesTyped, OffIsExcused, NoneFoundTwice, NoneFoundIsExcused,
                      RulesShareChannels, Alerts!RulesShareChannels
<1>4. QED BY <1>2, <1>3

\* Requests and rules that go leave the channels as they are.
LEMMA FewerRulesInv ==
  ASSUME AlertsIInv, (\E q \in resolving : Alerts!SaveFails(q)) \/ (\E r \in rules : Alerts!DeleteRule(r))
  PROVE  AlertsIInv'
<1>1. /\ UNCHANGED <<channels, channelsMade, resolved, excused>>
      /\ resolving' \subseteq resolving /\ rules' \subseteq rules
  BY DEF Alerts!SaveFails, Alerts!DeleteRule
<1>2. QED BY <1>1 DEF AlertsIInv, RulesTyped, OffIsExcused, NoneFoundTwice, NoneFoundIsExcused,
                      RulesShareChannels, Alerts!RulesShareChannels

\* Channels that are created by a tenant are no placeholders.
LEMMA CreateChannelInv ==
  ASSUME AlertsIInv, NEW ty \in ChannelType, NEW active \in BOOLEAN, Alerts!CreateChannel(ty, active)
  PROVE  AlertsIInv'
<1> DEFINE d == [id |-> channelsMade + 1, type |-> ty, active |-> active, placeholder |-> FALSE]
<1>1. /\ channels' = channels \cup {d} /\ channelsMade' = channelsMade + 1
      /\ UNCHANGED <<rules, resolving, resolved, excused>>
  BY DEF Alerts!CreateChannel
<1>2. d \in Channel /\ ~d.placeholder
  BY DEF AlertsIInv, RulesTyped, Channel
<1> HIDE DEF d
<1>3. QED BY <1>1, <1>2 DEF AlertsIInv, RulesTyped, OffIsExcused, NoneFoundTwice,
             NoneFoundIsExcused, RulesShareChannels, Alerts!RulesShareChannels

LEMMA SwitchChannelInv ==
  ASSUME AlertsIInv, NEW c \in channels, Alerts!SwitchChannel(c)
  PROVE  AlertsIInv'
<1> DEFINE d == [c EXCEPT !.active = ~c.active]
<1>1. /\ channels' = (channels \ {c}) \cup {d}
      /\ excused' = IF c.active THEN excused \cup {c.type} ELSE excused
      /\ UNCHANGED <<rules, resolving, channelsMade, resolved>>
  BY DEF Alerts!SwitchChannel
<1>2. c \in Channel
  BY DEF AlertsIInv, RulesTyped
<1>3. /\ d \in Channel /\ d.id = c.id /\ d.type = c.type /\ d.placeholder = c.placeholder
      /\ d.active <=> ~c.active
  BY <1>2 DEF Channel
<1> HIDE DEF d
<1>4. RulesTyped' /\ OffIsExcused' /\ NoneFoundTwice' /\ NoneFoundIsExcused'
  BY <1>1, <1>3 DEF AlertsIInv, RulesTyped, OffIsExcused, NoneFoundTwice, NoneFoundIsExcused
<1>5. RulesShareChannels'
  BY <1>1, <1>3 DEF AlertsIInv, RulesShareChannels, Alerts!RulesShareChannels
<1>6. QED BY <1>4, <1>5 DEF AlertsIInv

LEMMA DeleteChannelInv ==
  ASSUME AlertsIInv, NEW c \in channels, Alerts!DeleteChannel(c)
  PROVE  AlertsIInv'
<1>1. /\ channels' = channels \ {c}
      /\ rules' = {r \in rules : r.channel # c.id}
      /\ UNCHANGED <<resolving, channelsMade, resolved, excused>>
  BY DEF Alerts!DeleteChannel
<1>2. QED BY <1>1 DEF AlertsIInv, RulesTyped, OffIsExcused, NoneFoundTwice, NoneFoundIsExcused,
                      RulesShareChannels, Alerts!RulesShareChannels

LEMMA AlertsNext == AlertsIInv /\ [Next]_vars => AlertsIInv'
<1> SUFFICES ASSUME AlertsIInv, [Next]_vars PROVE AlertsIInv'
  OBVIOUS
<1>1. Alerts!Next \/ UNCHANGED ruleVars
  BY OneService
<1>2. CASE UNCHANGED ruleVars
  BY <1>2 DEF ruleVars, AlertsIInv, RulesTyped, OffIsExcused, NoneFoundTwice, NoneFoundIsExcused,
              RulesShareChannels, Alerts!RulesShareChannels
<1>3. ASSUME NEW ty \in ChannelType, Alerts!Create(ty) PROVE AlertsIInv'
  <2>1. PICK rule \in Nat : rule = resolved + 1
    BY DEF AlertsIInv, RulesTyped
  <2>2. Alerts!Resolve(rule, FALSE, ty)
    BY <1>3, <2>1 DEF Alerts!Create
  <2>3. QED BY <2>2, ResolveInv
<1>4. ASSUME NEW r \in rules, NEW ty \in ChannelType, Alerts!Change(r, ty) PROVE AlertsIInv'
  <2>1. PICK rule \in Nat : rule = r.id
    BY DEF AlertsIInv, RulesTyped
  <2>2. Alerts!Resolve(rule, TRUE, ty)
    BY <1>4, <2>1 DEF Alerts!Change
  <2>3. QED BY <2>2, ResolveInv
<1>5. CASE Alerts!Next
  <2>1. CASE \E ty \in ChannelType : \E active \in BOOLEAN : Alerts!CreateChannel(ty, active)
    BY <2>1, CreateChannelInv
  <2>2. CASE (\E q \in resolving : Alerts!SaveFails(q)) \/ (\E r \in rules : Alerts!DeleteRule(r))
    BY <2>2, FewerRulesInv
  <2>3. CASE \E q \in resolving : Alerts!Save(q)
    BY <2>3, SaveInv
  <2>4. CASE \E c \in channels : Alerts!SwitchChannel(c)
    BY <2>4, SwitchChannelInv
  <2>5. CASE \E c \in channels : Alerts!DeleteChannel(c)
    BY <2>5, DeleteChannelInv
  <2>6. QED BY <1>3, <1>4, <1>5, <2>1, <2>2, <2>3, <2>4, <2>5 DEF Alerts!Next
<1>6. QED BY <1>1, <1>2, <1>5

\* Every rule has its channel, and the rules of a type share one placeholder, but for
\* requests that overlap and channels that were switched off (_resolve_channel()).
THEOREM ServicesShareChannels == Services => []RulesShareChannels
<1>1. AlertsIInv => RulesShareChannels
  BY DEF AlertsIInv
<1>2. QED BY <1>1, AlertsInit, AlertsNext, PTL DEF Services

-----------------------------------------------------------------------------
(* The auto-scorer (AutoScorer) *)

Answered == [trace : Scorer!Trace, answer : Nat]
Tick == [at : {"idle", "load", "persist"}, batch : SUBSET Scorer!Trace, read : SUBSET Answered, verdict : SUBSET Answered]

Judged(p) == tick[p].read \cup tick[p].verdict
Held(p, t) == t \in tick[p].batch \/ \E r \in Judged(p) : r.trace = t

ScorerTyped ==
  /\ spans \in [Scorer!Trace -> Nat] /\ traceAnswer \in [Scorer!Trace -> Nat]
  /\ recent \subseteq Scorer!Trace
  /\ tick \in [Process -> Tick]
  /\ \A s \in scores : s.trace \in Scorer!Trace

\* What is being judged is the answer of its trace, or a span came later.
AnswersAreWhole ==
  \A p \in Process : \A r \in Judged(p) : r.answer = traceAnswer[r.trace] \/ r.trace \in lateTraces

\* A process has a trace once, and it has no trace that another one has, or that has
\* a score, unless the two had it at a time.
HeldOnce ==
  \A p \in Process :
    /\ \A r \in Judged(p) : r.trace \notin tick[p].batch
    /\ \A r, s \in Judged(p) : r.trace = s.trace => r = s
    /\ tick[p].at # "persist" => tick[p].verdict = {}
    /\ tick[p].at # "load" => tick[p].batch = {} /\ tick[p].read = {}
HeldByOne ==
  \A p, q \in Process : \A t \in Scorer!Trace : p # q /\ Held(p, t) /\ Held(q, t) => t \in shared
HeldIsUnscored ==
  \A p \in Process : \A s \in scores : Held(p, s.trace) => s.trace \in shared

ScorerIInv ==
  /\ ScorerTyped /\ AnswersAreWhole
  /\ HeldOnce /\ HeldByOne /\ HeldIsUnscored
  /\ ScoredOnce

LEMMA IdleTick ==
  /\ Scorer!Idle \in Tick /\ Scorer!Idle.at = "idle"
  /\ Scorer!Idle.batch = {} /\ Scorer!Idle.read = {} /\ Scorer!Idle.verdict = {}
BY DEF Scorer!Idle, Tick

LEMMA ScorerInit == Init => ScorerIInv
<1> SUFFICES ASSUME Scorer!Init PROVE ScorerIInv
  BY DEF Init
<1>1. PICK w \in Tick : /\ w = Scorer!Idle /\ w.at = "idle"
                     /\ w.batch = {} /\ w.read = {} /\ w.verdict = {}
  BY IdleTick
<1>2. tick = [p \in Process |-> w] /\ scores = {} /\ recent = {}
      /\ spans = [t \in Scorer!Trace |-> 0] /\ traceAnswer = [t \in Scorer!Trace |-> 0]
  BY <1>1 DEF Scorer!Init
<1>3. ScorerTyped
  BY <1>1, <1>2 DEF ScorerTyped
<1>4. \A p \in Process : tick[p] = w /\ Judged(p) = {} /\ tick[p].batch = {}
  BY <1>1, <1>2 DEF Judged
<1>5. QED BY <1>1, <1>2, <1>3, <1>4 DEF ScorerIInv, AnswersAreWhole, HeldOnce, HeldByOne, HeldIsUnscored, Held,
                                  ScoredOnce, Scorer!ScoredOnce

\* A new span may change the answer, of a trace that is late then.
LEMMA ScorerSpanInv ==
  ASSUME ScorerIInv, NEW t \in Scorer!Trace, Scorer!Span(t)
  PROVE  ScorerIInv'
<1>1. UNCHANGED <<scores, tick, shared>>
  BY DEF Scorer!Span
<1>2. PICK a \in {0, spans[t] + 1} : traceAnswer' = [traceAnswer EXCEPT ![t] = a]
  BY DEF Scorer!Span
<1>3. a \in Nat /\ spans' \in [Scorer!Trace -> Nat] /\ recent' \subseteq Scorer!Trace
  BY DEF Scorer!Span, ScorerIInv, ScorerTyped
<1>4. /\ traceAnswer' \in [Scorer!Trace -> Nat]
      /\ \A u \in Scorer!Trace : u # t => traceAnswer'[u] = traceAnswer[u]
  BY <1>2, <1>3 DEF ScorerIInv, ScorerTyped
<1>5. /\ lateTraces \subseteq lateTraces'
      /\ \A p \in Process : \A r \in Judged(p) : r.trace = t => t \in lateTraces'
      /\ \A s \in scores : s.trace = t => t \in lateTraces'
  BY DEF Scorer!Span, Scorer!ReadBy, Judged
<1>6. \A p \in Process : \A r \in Judged(p) : r.trace \in Scorer!Trace
  BY DEF ScorerIInv, ScorerTyped, Judged, Tick, Answered
<1>7. ScorerTyped'
  BY <1>1, <1>3, <1>4 DEF ScorerIInv, ScorerTyped
<1>8. AnswersAreWhole'
  BY <1>1, <1>4, <1>5, <1>6 DEF ScorerIInv, AnswersAreWhole, Judged
<1>9. HeldOnce' /\ HeldByOne' /\ HeldIsUnscored'
  BY <1>1 DEF ScorerIInv, HeldOnce, HeldByOne, HeldIsUnscored, Held, Judged
<1>10. ScoredOnce'
  BY <1>1, <1>4, <1>5 DEF ScorerIInv, ScorerTyped, ScoredOnce, Scorer!ScoredOnce
<1>11. QED BY <1>7, <1>8, <1>9, <1>10 DEF ScorerIInv

\* A process that goes on has no trace that it did not have, and of each answer one.
LEMMA ScorerGoesOn ==
  ASSUME ScorerIInv, NEW p \in Process, NEW w \in Tick,
         tick' = [tick EXCEPT ![p] = w],
         UNCHANGED <<spans, traceAnswer, recent, shared, lateTraces>>,
         w.batch \subseteq tick[p].batch,
         \A r \in w.read \cup w.verdict :
           /\ r \in Judged(p) \/ (r.trace \in tick[p].batch /\ r.answer = traceAnswer[r.trace])
           /\ r.trace \notin w.batch
           /\ \A s \in w.read \cup w.verdict : r.trace = s.trace => r = s,
         w.at # "persist" => w.verdict = {},
         w.at # "load" => w.batch = {} /\ w.read = {}
  PROVE  /\ ScorerTyped' <=> \A s \in scores' : s.trace \in Scorer!Trace
         /\ AnswersAreWhole' /\ HeldOnce' /\ HeldByOne'
         /\ \A q \in Process : \A t \in Scorer!Trace : Held(q, t)' => Held(q, t)
         /\ \A t \in Scorer!Trace : Held(p, t)' => t \in w.batch \/ \E r \in w.read \cup w.verdict : r.trace = t
<1>1. /\ tick' \in [Process -> Tick] /\ tick'[p] = w
      /\ \A q \in Process : q # p => tick'[q] = tick[q]
  BY DEF ScorerIInv, ScorerTyped
<1>2. ScorerTyped' <=> \A s \in scores' : s.trace \in Scorer!Trace
  BY <1>1 DEF ScorerIInv, ScorerTyped
<1>3. Judged(p)' = w.read \cup w.verdict /\ \A q \in Process : q # p => Judged(q)' = Judged(q)
  BY <1>1 DEF Judged
<1>4. AnswersAreWhole'
  BY <1>3 DEF ScorerIInv, AnswersAreWhole
<1>5. HeldOnce'
  BY <1>1, <1>3 DEF ScorerIInv, HeldOnce
<1>6. \A q \in Process : \A t \in Scorer!Trace : Held(q, t)' => Held(q, t)
  BY <1>1, <1>3 DEF Held
<1>7. HeldByOne'
  BY <1>6 DEF ScorerIInv, HeldByOne
<1>8. QED BY <1>1, <1>2, <1>3, <1>4, <1>5, <1>6, <1>7 DEF Held

\* Without a new score the rest follows.
LEMMA ScorerKeepsScores ==
  ASSUME ScorerIInv, ScorerTyped' <=> (\A s \in scores' : s.trace \in Scorer!Trace),
         AnswersAreWhole', HeldOnce', HeldByOne',
         \A q \in Process : \A t \in Scorer!Trace : Held(q, t)' => Held(q, t),
         UNCHANGED <<scores, traceAnswer, shared, lateTraces>>
  PROVE  ScorerIInv'
<1>1. ScorerTyped' /\ HeldIsUnscored' /\ ScoredOnce'
  BY DEF ScorerIInv, ScorerTyped, HeldIsUnscored, ScoredOnce, Scorer!ScoredOnce
<1>2. QED BY <1>1 DEF ScorerIInv

\* The candidates have no score, and those that a process has are marked.
LEMMA ScorerPickInv ==
  ASSUME ScorerIInv, NEW p \in Process, Scorer!Pick(p)
  PROVE  ScorerIInv'
<1>1. PICK batch \in SUBSET Scorer!Candidates :
        /\ tick' = [tick EXCEPT ![p] = [Scorer!Idle EXCEPT !.at = "load", !.batch = batch]]
        /\ shared' = shared \cup
             (batch \cap UNION {tick[q].batch \cup {r.trace : r \in tick[q].read \cup tick[q].verdict} : q \in Process})
  BY DEF Scorer!Pick
<1>2. UNCHANGED <<spans, traceAnswer, recent, scores, lateTraces>>
  BY DEF Scorer!Pick
<1> DEFINE w == [Scorer!Idle EXCEPT !.at = "load", !.batch = batch]
<1>3. /\ batch \subseteq Scorer!Trace
      /\ \A s \in scores : s.trace \notin batch
  BY DEF Scorer!Candidates, Scorer!Unscored, Scorer!Scored, ScorerIInv, ScorerTyped
<1>4. w \in Tick /\ w.at = "load" /\ w.batch = batch /\ w.read = {} /\ w.verdict = {}
  BY <1>3 DEF Scorer!Idle, Tick
<1>5. /\ tick' \in [Process -> Tick] /\ tick'[p] = w
      /\ \A q \in Process : q # p => tick'[q] = tick[q]
  BY <1>1, <1>4 DEF ScorerIInv, ScorerTyped
<1> HIDE DEF w
<1>6. Judged(p)' = {} /\ \A q \in Process : q # p => Judged(q)' = Judged(q)
  BY <1>4, <1>5 DEF Judged
<1>7. /\ shared \subseteq shared'
      /\ \A q \in Process, t \in batch : Held(q, t) => t \in shared'
  BY <1>1 DEF Held, Judged
<1>8. /\ \A t \in Scorer!Trace : Held(p, t)' <=> t \in batch
      /\ \A q \in Process : q # p => \A t \in Scorer!Trace : Held(q, t)' <=> Held(q, t)
  BY <1>4, <1>5, <1>6 DEF Held
<1>9. ScorerTyped'
  BY <1>2, <1>5 DEF ScorerIInv, ScorerTyped
<1>10. AnswersAreWhole'
  BY <1>2, <1>6 DEF ScorerIInv, AnswersAreWhole
<1>11. HeldOnce'
  BY <1>4, <1>5, <1>6 DEF ScorerIInv, HeldOnce
<1>12. HeldByOne'
  BY <1>7, <1>8 DEF ScorerIInv, HeldByOne
<1>13. HeldIsUnscored'
  BY <1>2, <1>3, <1>7, <1>8 DEF ScorerIInv, ScorerTyped, HeldIsUnscored
<1>14. ScoredOnce'
  BY <1>2, <1>7 DEF ScorerIInv, ScoredOnce, Scorer!ScoredOnce
<1>15. QED BY <1>9, <1>10, <1>11, <1>12, <1>13, <1>14 DEF ScorerIInv

LEMMA ScorerLoadInv ==
  ASSUME ScorerIInv, NEW p \in Process, Scorer!Load(p), ServicesAssumption
  PROVE  ScorerIInv'
<1>1. PICK t \in tick[p].batch : t = Scorer!Max(tick[p].batch)
  <2>1. tick[p].batch # {}
    BY DEF Scorer!Load
  <2>2. MaxTraces \in Nat /\ tick[p].batch \in SUBSET (1..MaxTraces)
    BY DEF ServicesAssumption, Scorer!AutoScorerAssumption, ScorerIInv, ScorerTyped, Tick, Scorer!Trace
  <2>3. IsFiniteSet(tick[p].batch)
    <3>1. IsFiniteSet(1..MaxTraces)
      BY <2>2, FS_Interval, SMTT(30)
    <3>2. QED BY <2>2, <3>1, FS_Subset
  <2>4. tick[p].batch \in SUBSET Nat
    BY <2>2
  <2>5. \E x \in tick[p].batch : \A y \in tick[p].batch : x >= y
    BY <2>1, <2>3, <2>4, Greatest
  <2>6. QED BY <2>5 DEF Scorer!Max
<1> DEFINE n == [trace |-> t, answer |-> traceAnswer[t]]
           w == [tick[p] EXCEPT !.batch = tick[p].batch \ {t},
                                !.read = IF traceAnswer[t] = 0 THEN tick[p].read ELSE tick[p].read \cup {n}]
<1>2. /\ tick' = [tick EXCEPT ![p] = w]
      /\ UNCHANGED <<spans, traceAnswer, recent, scores, shared, lateTraces>>
  BY <1>1 DEF Scorer!Load, ScorerIInv, ScorerTyped
<1>3. tick[p] \in Tick /\ tick[p].at = "load" /\ t \in Scorer!Trace /\ n \in Answered /\ n.trace = t /\ n.answer = traceAnswer[t]
  BY DEF Scorer!Load, ScorerIInv, ScorerTyped, Tick, Answered
<1>4. /\ w \in Tick /\ w.at = "load" /\ w.batch = tick[p].batch \ {t} /\ w.verdict = tick[p].verdict
      /\ w.read = IF traceAnswer[t] = 0 THEN tick[p].read ELSE tick[p].read \cup {n}
  BY <1>3 DEF Tick
<1> HIDE DEF w, n
<1>5. \A r \in w.read \cup w.verdict :
        /\ r \in Judged(p) \/ (r.trace \in tick[p].batch /\ r.answer = traceAnswer[r.trace])
        /\ r.trace \notin w.batch
        /\ \A s \in w.read \cup w.verdict : r.trace = s.trace => r = s
  BY <1>3, <1>4 DEF ScorerIInv, HeldOnce, Judged
<1>6. w.verdict = {}
  BY <1>3, <1>4 DEF ScorerIInv, HeldOnce
<1>7. QED BY <1>2, <1>4, <1>5, <1>6, ScorerGoesOn, ScorerKeepsScores

LEMMA ScorerScoreInv ==
  ASSUME ScorerIInv, NEW p \in Process, Scorer!Score(p)
  PROVE  ScorerIInv'
<1>1. PICK verdict \in SUBSET tick[p].read :
        tick' = [tick EXCEPT ![p] = IF verdict = {} THEN Scorer!Idle
                                    ELSE [Scorer!Idle EXCEPT !.at = "persist", !.verdict = verdict]]
  BY DEF Scorer!Score
<1> DEFINE w == IF verdict = {} THEN Scorer!Idle
                ELSE [Scorer!Idle EXCEPT !.at = "persist", !.verdict = verdict]
<1>2. UNCHANGED <<spans, traceAnswer, recent, scores, shared, lateTraces>>
  BY DEF Scorer!Score
<1>3. /\ w \in Tick /\ w.batch = {} /\ w.read = {} /\ w.verdict = verdict
      /\ w.at # "persist" => w.verdict = {}
  BY DEF ScorerIInv, ScorerTyped, Tick, Scorer!Idle
<1>4. tick' = [tick EXCEPT ![p] = w]
  BY <1>1
<1> HIDE DEF w
<1>5. \A r \in w.read \cup w.verdict :
        /\ r \in Judged(p) \/ (r.trace \in tick[p].batch /\ r.answer = traceAnswer[r.trace])
        /\ r.trace \notin w.batch
        /\ \A s \in w.read \cup w.verdict : r.trace = s.trace => r = s
  BY <1>3 DEF ScorerIInv, HeldOnce, Judged
<1>6. QED BY <1>2, <1>3, <1>4, <1>5, ScorerGoesOn, ScorerKeepsScores

LEMMA ScorerFailInv ==
  ASSUME ScorerIInv, NEW p \in Process, Scorer!Fail(p)
  PROVE  ScorerIInv'
<1>1. /\ tick' = [tick EXCEPT ![p] = Scorer!Idle]
      /\ UNCHANGED <<spans, traceAnswer, recent, scores, shared, lateTraces>>
  BY DEF Scorer!Fail
<1>2. PICK w \in Tick : w = Scorer!Idle /\ w.at = "idle" /\ w.batch = {} /\ w.read = {} /\ w.verdict = {}
  BY IdleTick
<1>3. tick' = [tick EXCEPT ![p] = w]
  BY <1>1, <1>2
<1>4. QED BY <1>1, <1>2, <1>3, ScorerGoesOn, ScorerKeepsScores

\* The row that is written is of a trace without a score, or of a marked one.
LEMMA ScorerPersistInv ==
  ASSUME ScorerIInv, NEW p \in Process, Scorer!Persist(p)
  PROVE  ScorerIInv'
<1>1. PICK v \in tick[p].verdict :
        /\ scores' = scores \cup {[trace |-> v.trace, answer |-> v.answer, row |-> Scorer!Cardinality(scores)]}
        /\ tick' = [tick EXCEPT ![p] = IF tick[p].verdict = {v} THEN Scorer!Idle
                                       ELSE [tick[p] EXCEPT !.verdict = tick[p].verdict \ {v}]]
  BY DEF Scorer!Persist, ScorerIInv, ScorerTyped
<1>2. UNCHANGED <<spans, traceAnswer, recent, shared, lateTraces>>
  BY DEF Scorer!Persist
<1> DEFINE n == [trace |-> v.trace, answer |-> v.answer, row |-> Scorer!Cardinality(scores)]
           w == IF tick[p].verdict = {v} THEN Scorer!Idle ELSE [tick[p] EXCEPT !.verdict = tick[p].verdict \ {v}]
<1>3. /\ tick[p] \in Tick /\ tick[p].at = "persist" /\ tick[p].batch = {} /\ tick[p].read = {}
      /\ v \in Judged(p) /\ v.trace \in Scorer!Trace
  BY DEF Scorer!Persist, HeldOnce, ScorerIInv, ScorerTyped, Tick, Answered, Judged
<1>4. /\ w \in Tick /\ w.batch = {} /\ w.read = {} /\ w.verdict = tick[p].verdict \ {v}
      /\ w.at # "persist" => w.verdict = {}
  BY <1>3 DEF Tick, Scorer!Idle
<1>5. tick' = [tick EXCEPT ![p] = w]
  BY <1>1
<1>6. n.trace = v.trace /\ n.answer = v.answer /\ scores' = scores \cup {n}
  BY <1>1
<1> HIDE DEF w, n
<1>7. \A r \in w.read \cup w.verdict :
        /\ r \in Judged(p) \/ (r.trace \in tick[p].batch /\ r.answer = traceAnswer[r.trace])
        /\ r.trace \notin w.batch
        /\ \A s \in w.read \cup w.verdict : r.trace = s.trace => r = s
  BY <1>4 DEF ScorerIInv, HeldOnce, Judged
<1>8. /\ ScorerTyped' <=> \A s \in scores' : s.trace \in Scorer!Trace
      /\ AnswersAreWhole' /\ HeldOnce' /\ HeldByOne'
      /\ \A q \in Process : \A t \in Scorer!Trace : Held(q, t)' => Held(q, t)
      /\ \A t \in Scorer!Trace : Held(p, t)' => t \in w.batch \/ \E r \in w.read \cup w.verdict : r.trace = t
  BY <1>2, <1>3, <1>4, <1>5, <1>7, ScorerGoesOn
<1>9. ScorerTyped'
  BY <1>3, <1>6, <1>8 DEF ScorerIInv, ScorerTyped
<1>10. Held(p, v.trace)
  BY <1>3 DEF Held
<1>11. ASSUME NEW q \in Process, Held(q, v.trace)' PROVE v.trace \in shared
  <2>1. CASE q = p
    <3>1. v.trace \notin w.batch
      BY <1>3, <1>4 DEF ScorerIInv, HeldOnce
    <3>2. PICK r \in w.read \cup w.verdict : r.trace = v.trace
      BY <1>3, <1>8, <1>11, <2>1, <3>1
    <3>3. r \in Judged(p) /\ r = v
      BY <1>3, <1>4, <3>2 DEF ScorerIInv, HeldOnce, Judged
    <3>4. QED BY <1>4, <3>2, <3>3
  <2>2. CASE q # p
    BY <1>3, <1>8, <1>10, <1>11, <2>2 DEF ScorerIInv, HeldByOne
  <2>3. QED BY <2>1, <2>2
<1>12. HeldIsUnscored'
  BY <1>2, <1>6, <1>8, <1>11 DEF ScorerIInv, ScorerTyped, HeldIsUnscored
<1>13. ScoredOnce'
  BY <1>2, <1>3, <1>6, <1>10 DEF ScorerIInv, AnswersAreWhole, HeldIsUnscored, ScoredOnce, Scorer!ScoredOnce
<1>14. QED BY <1>8, <1>9, <1>12, <1>13 DEF ScorerIInv

LEMMA ScorerNext == ScorerIInv /\ [Next]_vars => ScorerIInv'
<1> SUFFICES ASSUME ScorerIInv, [Next]_vars PROVE ScorerIInv'
  OBVIOUS
<1>1. Scorer!Next \/ UNCHANGED scorerVars
  BY OneService
<1>2. CASE UNCHANGED scorerVars
  BY <1>2 DEF scorerVars, ScorerIInv, ScorerTyped, AnswersAreWhole, HeldOnce, HeldByOne, HeldIsUnscored,
              Held, Judged, ScoredOnce, Scorer!ScoredOnce
<1>3. CASE Scorer!Age
  <2>1. recent' \subseteq recent /\ UNCHANGED <<spans, traceAnswer, scores, tick, shared, lateTraces>>
    BY <1>3 DEF Scorer!Age
  <2>2. QED
    BY <2>1 DEF ScorerIInv, ScorerTyped, AnswersAreWhole, HeldOnce, HeldByOne, HeldIsUnscored,
                Held, Judged, ScoredOnce, Scorer!ScoredOnce
<1>4. CASE \E t \in Scorer!Trace : Scorer!Span(t)
  BY <1>4, ScorerSpanInv
<1>5. ASSUME NEW p \in Process, Scorer!Pick(p) \/ Scorer!Load(p) \/ Scorer!Score(p) \/ Scorer!Persist(p) \/ Scorer!Fail(p)
      PROVE  ScorerIInv'
  <2>1. CASE Scorer!Pick(p)
    BY <2>1, ScorerPickInv
  <2>2. CASE Scorer!Load(p)
    BY <2>2, ScorerLoadInv, ServicesAssumption
  <2>3. CASE Scorer!Score(p)
    BY <2>3, ScorerScoreInv
  <2>4. CASE Scorer!Persist(p)
    BY <2>4, ScorerPersistInv
  <2>5. CASE Scorer!Fail(p)
    BY <2>5, ScorerFailInv
  <2>6. QED BY <1>5, <2>1, <2>2, <2>3, <2>4, <2>5
<1>6. QED BY <1>1, <1>2, <1>3, <1>4, <1>5 DEF Scorer!Next

\* A trace has the scores of one verdict, about its whole answer, unless two processes
\* had it at a time or a span of it came later (trace_autoscorer_loop()).
THEOREM ServicesScoreOnce == Services => []ScoredOnce
<1>1. ScorerIInv => ScoredOnce
  BY DEF ScorerIInv
<1>2. QED BY <1>1, ScorerInit, ScorerNext, PTL DEF Services

-----------------------------------------------------------------------------
(* The Python instrumentation (Instrumentor) *)

Function == [graph : Graph, wrappers : Nat]

Working == {i \in Invocation : running[i].at # "idle"}
GraphOf(i) == running[i].graph
Wrapping(i) == i \in Working /\ running[i].at # "traced"

PatchingTyped ==
  /\ nodes = [g \in Graph |-> nodes[g]]
  /\ \A g \in Graph : nodes[g] \in [NodesOf[g] -> Function]
  /\ patched = [n \in DOMAIN patched |-> patched[n]]
  /\ \A n \in DOMAIN patched : patched[n] \in Function
  /\ running \in [Invocation -> [at : {"idle", "traced", "patched", "running", "leaving"}, graph : Graph \cup {"none"}]]
  /\ \A i \in Working : GraphOf(i) \in Graph

\* Two invocations at work have overlapped.
WorkingOverlap == \A i, j \in Working : i # j => GraphOf(i) \in overlapped

\* What is remembered was wrapped by an invocation that is at work, and is a function
\* of its graph, or one that an overlap brought there.
RememberedByWorking ==
  \A n \in DOMAIN patched : \E j \in Invocation :
    /\ Wrapping(j) /\ n \in NodesOf[GraphOf(j)]
    /\ n \in NodesOf[patched[n].graph]
    /\ patched[n].graph # GraphOf(j) => {GraphOf(j), patched[n].graph} \subseteq overlapped

\* An invocation that is alone remembers every node of its graph, and no wrapper.
AloneRemembersAll ==
  \A i \in Invocation : Wrapping(i) /\ GraphOf(i) \notin overlapped =>
    /\ NodesOf[GraphOf(i)] \subseteq DOMAIN patched
    /\ \A n \in NodesOf[GraphOf(i)] : patched[n].wrappers = 0

\* NodesRestored, in terms of what is named here.
WrappedOnce ==
  \A g \in Graph : g \notin overlapped =>
    \A n \in NodesOf[g] :
      nodes[g][n].wrappers = IF \E i \in Invocation : Wrapping(i) /\ GraphOf(i) = g THEN 1 ELSE 0
FunctionsAreOwn ==
  \A g \in Graph : \A n \in NodesOf[g] :
    nodes[g][n].graph # g =>
      {g, nodes[g][n].graph} \subseteq overlapped /\ n \in NodesOf[nodes[g][n].graph]

PatchingIInv ==
  /\ PatchingTyped /\ WorkingOverlap /\ RememberedByWorking /\ AloneRemembersAll
  /\ WrappedOnce /\ FunctionsAreOwn

LEMMA NodesAreRestored == PatchingIInv => NodesRestored
BY DEF PatchingIInv, WrappedOnce, FunctionsAreOwn, Wrapping, Working, GraphOf, NodesRestored,
       Patching!NodesRestored, Patching!WrappedWhileRunning, Patching!OwnFunction, Patching!Active

LEMMA PatchingInit == Init => PatchingIInv
<1> SUFFICES ASSUME Patching!Init PROVE PatchingIInv
  BY DEF Init
<1>1. /\ running = [i \in Invocation |-> [at |-> "idle", graph |-> "none"]]
      /\ patched = [n \in {} |-> 0]
      /\ nodes = [g \in Graph |-> [n \in NodesOf[g] |-> [graph |-> g, wrappers |-> 0]]]
  BY DEF Patching!Init, Patching!Idle
<1>2. Working = {} /\ DOMAIN patched = {}
  BY <1>1 DEF Working
<1>3. PatchingTyped
  BY <1>1, <1>2 DEF PatchingTyped, Function
<1>4. \A g \in Graph : \A n \in NodesOf[g] : nodes[g][n].wrappers = 0 /\ nodes[g][n].graph = g
  BY <1>1
<1>5. QED BY <1>2, <1>3, <1>4 DEF PatchingIInv, WorkingOverlap, RememberedByWorking, AloneRemembersAll,
             WrappedOnce, FunctionsAreOwn, Wrapping

LEMMA PatchingInvokeInv ==
  ASSUME PatchingIInv, NEW i \in Invocation, NEW g \in Graph, Patching!Invoke(i, g)
  PROVE  PatchingIInv'
<1>1. /\ running' = [running EXCEPT ![i] = [at |-> "traced", graph |-> g]]
      /\ running[i].at = "idle"
      /\ UNCHANGED <<nodes, patched>>
  BY DEF Patching!Invoke
<1>2. /\ overlapped \subseteq overlapped'
      /\ Working # {} => g \in overlapped' /\ \A j \in Working : GraphOf(j) \in overlapped'
  BY DEF Patching!Invoke, Patching!Active, Working, GraphOf
<1>3. /\ Working' = Working \cup {i} /\ i \notin Working /\ GraphOf(i)' = g
      /\ \A j \in Working : GraphOf(j)' = GraphOf(j)
      /\ \A j \in Invocation : Wrapping(j)' <=> Wrapping(j)
  BY <1>1 DEF PatchingIInv, PatchingTyped, Working, GraphOf, Wrapping
<1>4. PatchingTyped'
  BY <1>1, <1>3 DEF PatchingIInv, PatchingTyped
<1>5. WorkingOverlap'
  BY <1>2, <1>3 DEF WorkingOverlap
<1>6. \A j \in Invocation : Wrapping(j) => j \in Working
  BY DEF Wrapping
<1>7. RememberedByWorking'
  BY <1>1, <1>2, <1>3, <1>6 DEF PatchingIInv, RememberedByWorking
<1>8. AloneRemembersAll'
  BY <1>1, <1>2, <1>3, <1>6 DEF PatchingIInv, AloneRemembersAll
<1>9. WrappedOnce'
  BY <1>1, <1>2, <1>3, <1>6 DEF PatchingIInv, WrappedOnce
<1>10. FunctionsAreOwn'
  BY <1>1, <1>2 DEF PatchingIInv, FunctionsAreOwn
<1>11. QED BY <1>4, <1>5, <1>7, <1>8, <1>9, <1>10 DEF PatchingIInv

\* An invocation that is alone finds no name remembered, and wraps every node.
LEMMA PatchingPatchInv ==
  ASSUME PatchingIInv, NEW i \in Invocation, Patching!Patch(i), NodesOf \in [Graph -> SUBSET Node]
  PROVE  PatchingIInv'
<1> DEFINE g == running[i].graph
           new == NodesOf[g] \ DOMAIN patched
<1>1. /\ running[i].at = "traced" /\ UNCHANGED overlapped
      /\ patched' = [n \in DOMAIN patched \cup new |-> IF n \in new THEN nodes[g][n] ELSE patched[n]]
      /\ nodes' = [nodes EXCEPT ![g] = [n \in NodesOf[g] |->
                     IF n \in new THEN [nodes[g][n] EXCEPT !.wrappers = nodes[g][n].wrappers + 1]
                     ELSE nodes[g][n]]]
      /\ running' = [running EXCEPT ![i].at = "patched"]
  BY DEF Patching!Patch, Patching!Wrap, PatchingIInv, PatchingTyped
<1>2. g \in Graph /\ GraphOf(i) = g /\ i \in Working /\ ~Wrapping(i)
  BY <1>1 DEF PatchingIInv, PatchingTyped, Working, GraphOf, Wrapping
<1>3. /\ \A n \in new : patched'[n] = nodes[g][n] /\ patched'[n] \in Function
      /\ \A n \in DOMAIN patched : patched'[n] = patched[n]
      /\ DOMAIN patched' = DOMAIN patched \cup new
      /\ patched' = [n \in DOMAIN patched' |-> patched'[n]]
  BY <1>1, <1>2 DEF PatchingIInv, PatchingTyped
<1>4. /\ nodes' = [h \in Graph |-> nodes'[h]]
      /\ \A h \in Graph : h # g => nodes'[h] = nodes[h]
      /\ nodes'[g] = [n \in NodesOf[g] |->
                     IF n \in new THEN [nodes[g][n] EXCEPT !.wrappers = nodes[g][n].wrappers + 1]
                     ELSE nodes[g][n]]
  BY <1>1, <1>2 DEF PatchingIInv, PatchingTyped
<1>5. \A n \in NodesOf[g] :
        /\ nodes'[g][n] \in Function
        /\ nodes'[g][n].graph = nodes[g][n].graph
        /\ n \in new => nodes'[g][n].wrappers = nodes[g][n].wrappers + 1
  <2>1. nodes[g] \in [NodesOf[g] -> Function]
    BY <1>2 DEF PatchingIInv, PatchingTyped
  <2> HIDE DEF g, new
  <2> SUFFICES ASSUME NEW n \in NodesOf[g]
               PROVE  /\ nodes'[g][n] \in Function
                      /\ nodes'[g][n].graph = nodes[g][n].graph
                      /\ n \in new => nodes'[g][n].wrappers = nodes[g][n].wrappers + 1
    OBVIOUS
  <2>2. PICK f \in Function : f = nodes[g][n]
    BY <2>1
  <2>3. nodes'[g][n] = IF n \in new THEN [f EXCEPT !.wrappers = f.wrappers + 1] ELSE f
    BY <1>4, <2>2
  <2>4. QED BY <2>2, <2>3 DEF Function
<1>6. /\ Working' = Working
      /\ \A j \in Invocation : GraphOf(j)' = GraphOf(j)
      /\ \A j \in Invocation : Wrapping(j)' <=> (Wrapping(j) \/ j = i)
      /\ running' \in [Invocation -> [at : {"idle", "traced", "patched", "running", "leaving"}, graph : Graph \cup {"none"}]]
  BY <1>1 DEF PatchingIInv, PatchingTyped, Working, GraphOf, Wrapping
<1> HIDE DEF g, new
<1>7. PatchingTyped'
  <2>1. \A n \in DOMAIN patched' : patched'[n] \in Function
    BY <1>3 DEF PatchingIInv, PatchingTyped
  <2>2. \A h \in Graph : nodes'[h] \in [NodesOf[h] -> Function]
    BY <1>4, <1>5 DEF PatchingIInv, PatchingTyped
  <2>3. \A j \in Working' : GraphOf(j)' \in Graph
    BY <1>6 DEF PatchingIInv, PatchingTyped, Working
  <2>4. QED BY <1>3, <1>4, <1>6, <2>1, <2>2, <2>3 DEF PatchingTyped
<1>8. WorkingOverlap'
  BY <1>1, <1>6 DEF PatchingIInv, WorkingOverlap, Working
<1>9. RememberedByWorking'
  <2> SUFFICES ASSUME NEW n \in DOMAIN patched'
               PROVE  \E j \in Invocation :
                        /\ Wrapping(j)' /\ n \in NodesOf[GraphOf(j)']
                        /\ n \in NodesOf[patched'[n].graph]
                        /\ patched'[n].graph # GraphOf(j)' => {GraphOf(j)', patched'[n].graph} \subseteq overlapped'
    BY DEF RememberedByWorking
  <2>1. CASE n \in new
    <3>1. n \in NodesOf[g] /\ patched'[n] = nodes[g][n]
      BY <1>3, <2>1 DEF new
    <3>2. nodes[g][n].graph # g => {g, nodes[g][n].graph} \subseteq overlapped /\ n \in NodesOf[nodes[g][n].graph]
      BY <1>2, <3>1 DEF PatchingIInv, FunctionsAreOwn
    <3>3. QED BY <1>1, <1>2, <1>6, <3>1, <3>2
  <2>2. CASE n \in DOMAIN patched
    BY <1>1, <1>3, <1>6, <2>2 DEF PatchingIInv, RememberedByWorking
  <2>3. QED BY <1>3, <2>1, <2>2
<1>10. ASSUME g \notin overlapped
       PROVE  /\ DOMAIN patched = {} /\ new = NodesOf[g]
              /\ \A n \in NodesOf[g] : nodes[g][n].wrappers = 0
  <2>1. \A j \in Working : j = i
    BY <1>2, <1>10 DEF PatchingIInv, WorkingOverlap
  <2>2. DOMAIN patched = {}
    BY <1>2, <2>1 DEF PatchingIInv, RememberedByWorking, Wrapping
  <2>3. \A j \in Invocation : ~Wrapping(j)
    BY <1>2, <2>1 DEF Wrapping
  <2>4. QED BY <1>2, <1>10, <2>2, <2>3 DEF PatchingIInv, WrappedOnce, new
<1>11. AloneRemembersAll'
  <2> SUFFICES ASSUME NEW j \in Invocation, Wrapping(j)', GraphOf(j)' \notin overlapped'
               PROVE  /\ NodesOf[GraphOf(j)'] \subseteq DOMAIN patched'
                      /\ \A n \in NodesOf[GraphOf(j)'] : patched'[n].wrappers = 0
    BY DEF AloneRemembersAll
  <2>1. CASE j = i
    BY <1>1, <1>2, <1>3, <1>6, <1>10, <2>1
  <2>2. CASE j # i
    <3>1. Wrapping(j) /\ GraphOf(j) \notin overlapped
      BY <1>1, <1>6, <2>2
    <3>2. QED BY <1>3, <1>6, <3>1 DEF PatchingIInv, AloneRemembersAll
  <2>3. QED BY <2>1, <2>2
<1>12. WrappedOnce'
  <2> SUFFICES ASSUME NEW h \in Graph, h \notin overlapped, NEW n \in NodesOf[h]
               PROVE  nodes'[h][n].wrappers = IF \E j \in Invocation : Wrapping(j)' /\ GraphOf(j)' = h THEN 1 ELSE 0
    BY <1>1 DEF WrappedOnce
  <2>1. CASE h = g
    BY <1>2, <1>5, <1>6, <1>10, <2>1
  <2>2. CASE h # g
    BY <1>2, <1>4, <1>6, <2>2 DEF PatchingIInv, WrappedOnce
  <2>3. QED BY <2>1, <2>2
<1>13. FunctionsAreOwn'
  <2> SUFFICES ASSUME NEW h \in Graph, NEW n \in NodesOf[h], nodes'[h][n].graph # h
               PROVE  {h, nodes'[h][n].graph} \subseteq overlapped /\ n \in NodesOf[nodes'[h][n].graph]
    BY <1>1 DEF FunctionsAreOwn
  <2>1. nodes'[h][n].graph = nodes[h][n].graph
    BY <1>4, <1>5
  <2>2. QED BY <2>1 DEF PatchingIInv, FunctionsAreOwn
<1>14. QED BY <1>7, <1>8, <1>9, <1>11, <1>12, <1>13 DEF PatchingIInv

\* The invocation goes on, and has its nodes wrapped as before.
LEMMA PatchingGoesOnInv ==
  ASSUME PatchingIInv, NEW i \in Invocation, Patching!CallInvoke(i) \/ Patching!Return(i)
  PROVE  PatchingIInv'
<1>1. PICK at2 \in {"running", "leaving"} : running' = [running EXCEPT ![i].at = at2]
  BY DEF Patching!CallInvoke, Patching!Return
<1>2. /\ running[i].at \in {"patched", "running"}
      /\ UNCHANGED <<nodes, patched, overlapped>>
  BY DEF Patching!CallInvoke, Patching!Return
<1>3. /\ Working' = Working
      /\ \A j \in Invocation : GraphOf(j)' = GraphOf(j)
      /\ \A j \in Invocation : Wrapping(j)' <=> Wrapping(j)
      /\ running' \in [Invocation -> [at : {"idle", "traced", "patched", "running", "leaving"}, graph : Graph \cup {"none"}]]
  BY <1>1, <1>2 DEF PatchingIInv, PatchingTyped, Working, GraphOf, Wrapping
<1>4. Working \subseteq Invocation
  BY DEF Working
<1>5. PatchingTyped' /\ WorkingOverlap'
  BY <1>2, <1>3, <1>4 DEF PatchingIInv, PatchingTyped, WorkingOverlap
<1>6. RememberedByWorking' /\ AloneRemembersAll'
  BY <1>2, <1>3 DEF PatchingIInv, RememberedByWorking, AloneRemembersAll
<1>7. WrappedOnce' /\ FunctionsAreOwn'
  BY <1>2, <1>3 DEF PatchingIInv, WrappedOnce, FunctionsAreOwn
<1>8. QED BY <1>5, <1>6, <1>7 DEF PatchingIInv

\* All that is remembered goes back into the nodes of one graph.
LEMMA PatchingUnpatchInv ==
  ASSUME PatchingIInv, NEW i \in Invocation, Patching!Unpatch(i)
  PROVE  PatchingIInv'
<1> DEFINE g == running[i].graph
<1>1. /\ running[i].at = "leaving" /\ UNCHANGED overlapped
      /\ patched' = [n \in {} |-> 0]
      /\ nodes' = [nodes EXCEPT ![g] = [n \in NodesOf[g] |->
                     IF n \in DOMAIN patched THEN patched[n] ELSE nodes[g][n]]]
      /\ running' = [running EXCEPT ![i] = [at |-> "idle", graph |-> "none"]]
  BY DEF Patching!Unpatch, Patching!PutBack, Patching!Idle, PatchingIInv, PatchingTyped
<1>2. g \in Graph /\ GraphOf(i) = g /\ i \in Working /\ Wrapping(i)
  BY <1>1 DEF PatchingIInv, PatchingTyped, Working, GraphOf, Wrapping
<1>3. /\ nodes' = [h \in Graph |-> nodes'[h]]
      /\ \A h \in Graph : h # g => nodes'[h] = nodes[h]
      /\ nodes'[g] = [n \in NodesOf[g] |-> IF n \in DOMAIN patched THEN patched[n] ELSE nodes[g][n]]
  BY <1>1, <1>2 DEF PatchingIInv, PatchingTyped
<1>4. /\ Working' = Working \ {i}
      /\ \A j \in Invocation : j # i => GraphOf(j)' = GraphOf(j)
      /\ \A j \in Invocation : Wrapping(j)' <=> (Wrapping(j) /\ j # i)
      /\ running' \in [Invocation -> [at : {"idle", "traced", "patched", "running", "leaving"}, graph : Graph \cup {"none"}]]
  BY <1>1 DEF PatchingIInv, PatchingTyped, Working, GraphOf, Wrapping
<1>5. DOMAIN patched' = {}
  BY <1>1
<1>6. Working \subseteq Invocation
  BY DEF Working
<1> HIDE DEF g
<1>7. PatchingTyped'
  <2>1. ASSUME NEW h \in Graph PROVE nodes'[h] \in [NodesOf[h] -> Function]
    <3>1. nodes[h] \in [NodesOf[h] -> Function]
      BY DEF PatchingIInv, PatchingTyped
    <3>2. \A n \in DOMAIN patched : patched[n] \in Function
      BY DEF PatchingIInv, PatchingTyped
    <3>3. CASE h = g
      BY <1>3, <3>1, <3>2, <3>3
    <3>4. CASE h # g
      BY <1>3, <3>1, <3>4
    <3>5. QED BY <3>3, <3>4
  <2>2. \A j \in Working' : GraphOf(j)' \in Graph
    BY <1>4, <1>6 DEF PatchingIInv, PatchingTyped
  <2>3. patched' = [n \in DOMAIN patched' |-> patched'[n]]
    BY <1>1
  <2>4. QED BY <1>3, <1>4, <1>5, <2>1, <2>2, <2>3 DEF PatchingTyped
<1>8. WorkingOverlap'
  BY <1>1, <1>4, <1>6 DEF PatchingIInv, WorkingOverlap
<1>9. RememberedByWorking'
  BY <1>5 DEF RememberedByWorking
<1>10. ASSUME g \notin overlapped PROVE \A j \in Working : j = i
  BY <1>2, <1>10 DEF PatchingIInv, WorkingOverlap
<1>11. AloneRemembersAll'
  <2> SUFFICES ASSUME NEW j \in Invocation, Wrapping(j)', GraphOf(j)' \notin overlapped' PROVE FALSE
    BY DEF AloneRemembersAll
  <2>1. j \in Working /\ j # i /\ GraphOf(j) \notin overlapped
    BY <1>1, <1>4 DEF Wrapping
  <2>2. QED BY <1>2, <2>1 DEF PatchingIInv, WorkingOverlap
<1>12. WrappedOnce'
  <2> SUFFICES ASSUME NEW h \in Graph, h \notin overlapped, NEW n \in NodesOf[h]
               PROVE  nodes'[h][n].wrappers = IF \E j \in Invocation : Wrapping(j)' /\ GraphOf(j)' = h THEN 1 ELSE 0
    BY <1>1 DEF WrappedOnce
  <2>1. CASE h = g
    <3>1. n \in DOMAIN patched /\ patched[n].wrappers = 0
      BY <1>2, <2>1 DEF PatchingIInv, AloneRemembersAll
    <3>2. \A j \in Invocation : ~Wrapping(j)'
      BY <1>4, <1>10, <2>1 DEF Wrapping
    <3>3. QED BY <1>3, <2>1, <3>1, <3>2
  <2>2. CASE h # g
    BY <1>2, <1>3, <1>4, <2>2 DEF PatchingIInv, WrappedOnce
  <2>3. QED BY <2>1, <2>2
<1>13. FunctionsAreOwn'
  <2> SUFFICES ASSUME NEW h \in Graph, NEW n \in NodesOf[h], nodes'[h][n].graph # h
               PROVE  {h, nodes'[h][n].graph} \subseteq overlapped /\ n \in NodesOf[nodes'[h][n].graph]
    BY <1>1 DEF FunctionsAreOwn
  <2>1. CASE h = g /\ n \in DOMAIN patched
    <3>1. nodes'[h][n] = patched[n]
      BY <1>3, <2>1
    <3>2. PICK j \in Invocation :
            /\ Wrapping(j) /\ n \in NodesOf[patched[n].graph]
            /\ patched[n].graph # GraphOf(j) => {GraphOf(j), patched[n].graph} \subseteq overlapped
      BY <2>1 DEF PatchingIInv, RememberedByWorking
    <3>3. j # i => g \in overlapped /\ GraphOf(j) \in overlapped
      BY <1>2, <3>2 DEF PatchingIInv, WorkingOverlap, Wrapping
    <3>4. QED BY <1>2, <2>1, <3>1, <3>2, <3>3
  <2>2. CASE ~(h = g /\ n \in DOMAIN patched)
    BY <1>2, <1>3, <2>2 DEF PatchingIInv, FunctionsAreOwn
  <2>3. QED BY <2>1, <2>2
<1>14. QED BY <1>7, <1>8, <1>9, <1>11, <1>12, <1>13 DEF PatchingIInv

LEMMA PatchingNext == PatchingIInv /\ [Next]_vars => PatchingIInv'
<1> SUFFICES ASSUME PatchingIInv, [Next]_vars PROVE PatchingIInv'
  OBVIOUS
<1>1. Patching!Next \/ UNCHANGED patchingVars
  BY OneService
<1>2. CASE UNCHANGED <<nodes, patched, running, overlapped>>
  BY <1>2 DEF PatchingIInv, PatchingTyped, WorkingOverlap, RememberedByWorking, AloneRemembersAll,
              WrappedOnce, FunctionsAreOwn, Wrapping, Working, GraphOf
<1>3. CASE Patching!Instrument \/ Patching!Uninstrument
  BY <1>2, <1>3 DEF Patching!Instrument, Patching!Uninstrument
<1>4. ASSUME NEW i \in Invocation,
             \/ \E g \in Graph : Patching!Invoke(i, g)
             \/ Patching!Patch(i) \/ Patching!CallInvoke(i) \/ Patching!Return(i) \/ Patching!Unpatch(i)
      PROVE  PatchingIInv'
  <2>1. CASE \E g \in Graph : Patching!Invoke(i, g)
    BY <2>1, PatchingInvokeInv
  <2>2. CASE Patching!Patch(i)
    BY <2>2, PatchingPatchInv, ServicesAssumption DEF Patching!InstrumentorAssumption
  <2>3. CASE Patching!CallInvoke(i) \/ Patching!Return(i)
    BY <2>3, PatchingGoesOnInv
  <2>4. CASE Patching!Unpatch(i)
    BY <2>4, PatchingUnpatchInv
  <2>5. QED BY <1>4, <2>1, <2>2, <2>3, <2>4
<1>5. QED BY <1>1, <1>2, <1>3, <1>4 DEF Patching!Next, patchingVars

\* Invocations that do not overlap leave every graph as it was and wrap each node
\* once, and a function reaches another graph only by an overlap (_unpatch_nodes()).
THEOREM ServicesRestoreNodes == Services => []NodesRestored
BY NodesAreRestored, PatchingInit, PatchingNext, PTL DEF Services

-----------------------------------------------------------------------------
(* The partitions of the telemetry tables (Partitions) *)

StorageTyped ==
  /\ today \in Nat /\ ensured \in Int
  /\ partitions \subseteq Int
  /\ legacy \subseteq [tenant : Tenant, day : Int]
  /\ stored \subseteq [tenant : Tenant, day : Int]

RowsHavePartitions == \A row \in stored : Storage!Month(row.day) \in partitions

\* The months that were looked after and are not over have a partition.
EnsuredAreThere ==
  partitions # {} =>
    /\ ensured <= Storage!Month(today)
    /\ \A m \in ensured .. ensured + 2 : m >= Storage!Month(today) => m \in partitions

StorageIInv == StorageTyped /\ RowsHavePartitions /\ EnsuredAreThere

LEMMA MonthOfDay ==
  ASSUME Days \in Nat \ {0}, NEW date \in Int
  PROVE  /\ Storage!Month(date) \in Int
         /\ Storage!FirstOf(Storage!Month(date)) <= date
         /\ date < Storage!FirstOf(Storage!Month(date) + 1)
<1>1. date \div Days \in Int
  BY Z3
<1>2. (date \div Days) * Days <= date
  BY SMT
<1>3. date < (date \div Days + 1) * Days
  BY SMT
<1>4. QED BY <1>1, <1>2, <1>3 DEF Storage!Month, Storage!FirstOf

LEMMA MonthsFollowDays ==
  ASSUME Days \in Nat \ {0}, NEW c \in Int, NEW d \in Int, c <= d
  PROVE  Storage!Month(c) <= Storage!Month(d)
BY SMT DEF Storage!Month

LEMMA FirstsFollowMonths ==
  ASSUME Days \in Nat \ {0}, NEW m \in Int, NEW n \in Int, m <= n
  PROVE  /\ Storage!FirstOf(m) \in Int /\ Storage!FirstOf(n) \in Int
         /\ Storage!FirstOf(m) <= Storage!FirstOf(n)
BY SMT DEF Storage!FirstOf

LEMMA LongestRetention ==
  ASSUME Storage!PartitionsAssumption
  PROVE  Storage!Longest \in Nat /\ \A t \in Tenant : Storage!Longest >= Retention[t]
<1> DEFINE all == {Retention[t] : t \in Tenant}
           positive == all \ {0}
<1>1. Retention \in [Tenant -> Nat] /\ IsFiniteSet(Tenant)
  BY DEF Storage!PartitionsAssumption, Storage!IsFiniteSet, IsFiniteSet
<1>2. all \in SUBSET Nat /\ positive \in SUBSET Nat /\ \A t \in Tenant : Retention[t] = 0 \/ Retention[t] \in positive
  BY <1>1
<1>3. IsFiniteSet(positive)
  <2>1. Retention \in Surjection(Tenant, all)
    BY <1>1 DEF Surjection
  <2> HIDE DEF all
  <2>2. IsFiniteSet(all)
    BY <1>1, <2>1, FS_Surjection
  <2>3. QED BY <2>2, FS_Subset
<1>4. Storage!Longest = IF positive = {} THEN 30 ELSE Storage!Max(positive)
  BY DEF Storage!Longest
<1> HIDE DEF positive
<1>5. CASE positive = {}
  BY <1>1, <1>2, <1>4, <1>5
<1>6. CASE positive # {}
  <2>1. \E x \in positive : \A y \in positive : x >= y
    BY <1>2, <1>3, <1>6, Greatest
  <2>2. Storage!Max(positive) \in positive /\ \A y \in positive : Storage!Max(positive) >= y
    BY <2>1 DEF Storage!Max
  <2>3. QED BY <1>1, <1>2, <1>4, <1>6, <2>2
<1>7. QED BY <1>5, <1>6

\* Of a month that has expired by its bound, every day is further away than any
\* tenant's retention.
LEMMA ExpiredIsOver ==
  ASSUME Storage!PartitionsAssumption, today \in Nat, NEW month \in Int, Storage!Expired(month)
  PROVE  /\ \A date \in Int : \A t \in Tenant :
              Storage!Month(date) = month => today - date > Retention[t]
         /\ month < Storage!Month(today)
<1>1. Days \in Nat \ {0} /\ Retention \in [Tenant -> Nat]
  BY DEF Storage!PartitionsAssumption
<1>2. PICK longest \in Nat : longest = Storage!Longest /\ \A t \in Tenant : longest >= Retention[t]
  BY LongestRetention
<1>3. PICK oldest \in Int : oldest = today - longest
  OBVIOUS
<1>4. Storage!FirstOf(month + 1) <= Storage!FirstOf(Storage!Month(oldest))
  BY <1>2, <1>3 DEF Storage!Expired, Storage!UpperBound, Storage!Cutoff
<1>5. Storage!FirstOf(Storage!Month(oldest)) <= oldest /\ Storage!FirstOf(Storage!Month(oldest)) \in Int
  BY <1>1, MonthOfDay, FirstsFollowMonths
<1>6. Storage!FirstOf(month + 1) \in Int
  BY <1>1, FirstsFollowMonths
<1>7. ASSUME NEW date \in Int, NEW t \in Tenant, Storage!Month(date) = month PROVE today - date > Retention[t]
  <2>1. date < Storage!FirstOf(month + 1)
    BY <1>1, <1>7, MonthOfDay
  <2>2. date < oldest
    BY <1>4, <1>5, <1>6, <2>1
  <2>3. QED BY <1>1, <1>2, <1>3, <2>2
<1>8. month < Storage!Month(today)
  <2>1. PICK this \in Int : this = Storage!Month(today) /\ today < Storage!FirstOf(this + 1)
    BY <1>1, MonthOfDay
  <2>2. Storage!FirstOf(month + 1) < Storage!FirstOf(this + 1) /\ Storage!FirstOf(this + 1) \in Int
    <3>1. Storage!FirstOf(this + 1) \in Int
      BY <1>1, FirstsFollowMonths
    <3>2. QED BY <1>3, <1>4, <1>5, <1>6, <2>1, <3>1
  <2>3. ~(this + 1 <= month + 1)
    <3>1. this + 1 <= month + 1 => Storage!FirstOf(this + 1) <= Storage!FirstOf(month + 1)
      BY <1>1, FirstsFollowMonths
    <3>2. QED BY <1>6, <2>2, <3>1
  <2>4. QED BY <2>1, <2>3
<1>9. QED BY <1>7, <1>8

LEMMA StorageInit == Init => StorageIInv
<1>1. SUFFICES ASSUME Storage!Init PROVE StorageIInv
  BY DEF Init
<1>2. Storage!PartitionsAssumption
  BY ServicesAssumption
<1>3. FirstDay \in Nat /\ Days \in Nat \ {0} /\ LegacyRows \subseteq [tenant : Tenant, day : Int]
  BY <1>2 DEF Storage!PartitionsAssumption
<1>4. today = FirstDay /\ ensured = Storage!Month(FirstDay) /\ partitions = {} /\ stored = {} /\ legacy \subseteq LegacyRows
  BY <1>1 DEF Storage!Init
<1>5. ensured \in Int
  BY <1>3, <1>4, MonthOfDay
<1>6. QED BY <1>3, <1>4, <1>5 DEF StorageIInv, StorageTyped, RowsHavePartitions, EnsuredAreThere

\* What RowsKept says of a step.
RowsStay ==
  /\ \A row \in stored \ stored' : today - row.day > Retention[row.tenant]
  /\ \A date \in refused' \ refused : Storage!Month(date) > ensured + 2

LEMMA StorageNext == StorageIInv /\ [Next]_vars => StorageIInv' /\ RowsStay
<1> SUFFICES ASSUME StorageIInv, [Next]_vars PROVE StorageIInv' /\ RowsStay
  OBVIOUS
<1>1. Storage!Next \/ UNCHANGED storageVars
  BY OneService
<1>2. Storage!PartitionsAssumption /\ Days \in Nat \ {0}
  BY ServicesAssumption DEF Storage!PartitionsAssumption
<1>3. PICK month \in Int : month = Storage!Month(today)
  BY <1>2, MonthOfDay DEF StorageIInv, StorageTyped
<1>4. CASE UNCHANGED <<today, legacy, partitions, stored, refused, ensured>>
  BY <1>4 DEF StorageIInv, StorageTyped, RowsHavePartitions, EnsuredAreThere, RowsStay
<1>5. CASE Storage!NextDay
  <2>1. today' = today + 1 /\ UNCHANGED <<legacy, partitions, stored, refused, ensured>>
    BY <1>5 DEF Storage!NextDay
  <2>2. PICK next \in Int : next = Storage!Month(today + 1) /\ month <= next
    <3>1. today \in Int /\ today + 1 \in Int /\ today <= today + 1
      BY DEF StorageIInv, StorageTyped
    <3>2. QED BY <1>2, <1>3, <3>1, MonthOfDay, MonthsFollowDays
  <2>3. EnsuredAreThere'
    BY <1>3, <2>1, <2>2 DEF StorageIInv, StorageTyped, EnsuredAreThere
  <2>4. QED BY <2>1, <2>3 DEF StorageIInv, StorageTyped, RowsHavePartitions, RowsStay
<1>6. CASE Storage!Upgrade
  <2>1. /\ partitions = {} /\ partitions' = (month - 2) .. (month + 2)
        /\ \A row \in legacy : Storage!Month(row.day) \in partitions'
        /\ stored' = legacy /\ legacy' = {} /\ ensured' = month
        /\ UNCHANGED <<today, refused>>
    BY <1>3, <1>6 DEF Storage!Upgrade
  <2>2. stored = {}
    BY <2>1 DEF StorageIInv, RowsHavePartitions
  <2>3. EnsuredAreThere'
    BY <1>3, <2>1 DEF EnsuredAreThere
  <2>4. QED BY <2>1, <2>2, <2>3 DEF StorageIInv, StorageTyped, RowsHavePartitions, RowsStay
<1>7. ASSUME NEW t \in Tenant, Storage!Insert(t) PROVE StorageIInv' /\ RowsStay
  <2>1. /\ partitions # {} /\ UNCHANGED <<today, legacy, partitions, ensured>>
        /\ \/ month \in partitions /\ stored' = stored \cup {[tenant |-> t, day |-> today]} /\ UNCHANGED refused
           \/ month \notin partitions /\ refused' = refused \cup {today} /\ UNCHANGED stored
    BY <1>3, <1>7 DEF Storage!Insert
  <2>2. month \notin partitions => month > ensured + 2
    BY <1>3, <2>1 DEF StorageIInv, StorageTyped, EnsuredAreThere
  <2>3. StorageTyped' /\ RowsHavePartitions' /\ EnsuredAreThere'
    BY <1>3, <2>1 DEF StorageIInv, StorageTyped, RowsHavePartitions, EnsuredAreThere
  <2>4. RowsStay
    BY <1>3, <2>1, <2>2 DEF RowsStay
  <2>5. QED BY <2>3, <2>4 DEF StorageIInv
<1>8. CASE Storage!Ensure
  <2>1. /\ partitions' = partitions \cup ((month - 1) .. (month + 2)) /\ ensured' = month
        /\ UNCHANGED <<today, legacy, stored, refused>>
    BY <1>3, <1>8 DEF Storage!Ensure, Storage!Window
  <2>2. EnsuredAreThere'
    BY <1>3, <2>1 DEF EnsuredAreThere
  <2>3. QED BY <2>1, <2>2 DEF StorageIInv, StorageTyped, RowsHavePartitions, RowsStay
<1>9. CASE Storage!Drop
  <2>1. /\ partitions' = {m \in partitions : ~Storage!Expired(m)}
        /\ stored' = {row \in stored : Storage!Month(row.day) \in partitions'}
        /\ UNCHANGED <<today, legacy, refused, ensured>>
    BY <1>9 DEF Storage!Drop
  <2>2. ASSUME NEW row \in stored \ stored' PROVE today - row.day > Retention[row.tenant]
    <3>1. row.day \in Int /\ row.tenant \in Tenant /\ today \in Nat
      BY DEF StorageIInv, StorageTyped
    <3>2. Storage!Expired(Storage!Month(row.day))
      BY <2>1 DEF StorageIInv, RowsHavePartitions
    <3>3. PICK m \in Int : m = Storage!Month(row.day)
      BY <1>2, <3>1, MonthOfDay
    <3>4. QED BY <1>2, <3>1, <3>2, <3>3, ExpiredIsOver
  <2>3. ASSUME NEW m \in ensured .. ensured + 2, m >= month, m \in partitions PROVE m \in partitions'
    <3>1. m \in Int /\ today \in Nat
      BY DEF StorageIInv, StorageTyped
    <3>2. ~(m < month)
      BY <1>3, <2>3, <3>1
    <3>3. ~Storage!Expired(m)
      BY <1>2, <1>3, <3>1, <3>2, ExpiredIsOver
    <3>4. QED BY <2>1, <2>3, <3>3
  <2>4. QED BY <1>3, <2>1, <2>2, <2>3 DEF StorageIInv, StorageTyped, RowsHavePartitions, EnsuredAreThere, RowsStay
<1>10. CASE Storage!Start \/ Storage!MaintenanceFails \/ Storage!Stop
  BY <1>4, <1>10 DEF Storage!Start, Storage!MaintenanceFails, Storage!Stop
<1>11. QED BY <1>1, <1>4, <1>5, <1>6, <1>7, <1>8, <1>9, <1>10 DEF Storage!Next, storageVars

\* A row is dropped after the retention of its tenant only, and refused only if no
\* maintenance was in its month or in the two before it (storage/partitioning.py).
THEOREM ServicesKeepRows == Services => RowsKept
<1>1. StorageIInv /\ [Next]_vars => [RowsStay]_(Storage!vars)
  BY StorageNext
<1>2. Services => [][RowsStay]_(Storage!vars)
  BY <1>1, StorageInit, StorageNext, PTL DEF Services
<1>3. QED BY <1>2 DEF RowsKept, Storage!RowsKept, RowsStay

-----------------------------------------------------------------------------
(* The tracing of the JavaScript SDK (SdkTracing) *)

CallKind == {"manual", "traced", "unary", "openai", "anthropic"}
Record == [status : {"ok", "error"}, chunks : Nat]

CallState == [kind : CallKind, at : {"new", "open", "returned", "threw", "blank", "streaming"},
              trace : Call, ended : BOOLEAN]
Loop == [at : {"new", "reading", "done", "left", "failed"}, got : Nat]

TracingTyped ==
  /\ call \in [Call -> CallState]
  /\ stream \in [Call -> [left : Nat, collected : Nat]]
  /\ reader \in [Call -> [Reader -> Loop]]
  /\ sentSpans \in [Call -> Seq(Record)]

Begun(c) == {i \in Reader : reader[c][i].at # "new"}
Ended(c) == {i \in Reader : reader[c][i].at \in {"done", "failed"}}

\* RecordPerEnd, and no record before the vendor's answer.
Handled(c) == call[c].kind \in {"manual", "traced"}
Recorded(c) ==
  c \in dropped \/
  /\ Handled(c) /\ call[c].ended => Len(sentSpans[c]) = 1
  /\ Handled(c) /\ ~call[c].ended => Len(sentSpans[c]) = 0
  /\ ~Handled(c) /\ call[c].at \in {"returned", "threw", "blank"} => Len(sentSpans[c]) = 1
  /\ ~Handled(c) /\ call[c].at \notin {"returned", "threw", "blank"} => Len(sentSpans[c]) = Cardinality(Ended(c))
NoneBefore(c) ==
  call[c].kind \notin {"manual", "traced"} /\ call[c].at \in {"new", "open"} => sentSpans[c] = <<>>

\* Only an answer that is streamed is read.
OnlyStreams(c) ==
  /\ call[c].at = "streaming" => call[c].kind \in {"openai", "anthropic"}
  /\ call[c].at # "streaming" => Begun(c) = {}

\* What one loop has read alone is all that was received.
ReadAlone(c) ==
  /\ Begun(c) = {} => stream[c].collected = 0
  /\ \A i \in Reader : reader[c][i].at = "new" => reader[c][i].got = 0
  /\ \A i \in Reader : Begun(c) = {i} => reader[c][i].got = stream[c].collected

\* WholeAnswer; a record was made by a loop that had begun.
Whole(c) ==
  \A n \in DOMAIN sentSpans[c] : sentSpans[c][n].status = "ok" /\ call[c].at = "streaming" =>
    /\ stream[c].left = 0 /\ Begun(c) # {}
    /\ call[c].kind = "openai" \/ (\E i \in Reader : Begun(c) = {i})
       => sentSpans[c][n].chunks = stream[c].collected

ErrorIsThrown(c) ==
  call[c].kind = "unary" =>
    \A n \in DOMAIN sentSpans[c] : (sentSpans[c][n].status = "error") = (call[c].at = "threw")

CallInv(c) ==
  /\ Recorded(c) /\ NoneBefore(c) /\ OnlyStreams(c)
  /\ ReadAlone(c) /\ Whole(c) /\ ErrorIsThrown(c)

TracingIInv == TracingTyped /\ \A c \in Call : CallInv(c)

LEMMA LoopGoesOn ==
  ASSUME NEW r \in Loop, NEW at2 \in {"reading", "done", "left", "failed"}, NEW w, w = [r EXCEPT !.at = at2]
  PROVE  w \in Loop /\ w.at = at2 /\ w.got = r.got
BY DEF Loop

LEMMA TracingInit == Init => TracingIInv
<1> SUFFICES ASSUME Tracing!Init PROVE TracingIInv
  BY DEF Init
<1>1. PICK k \in [Call -> Kind] : call = [c \in Call |-> [kind |-> k[c], at |-> "new", trace |-> c, ended |-> FALSE]]
  BY DEF Tracing!Init
<1>2. PICK m \in 0..MaxChunks : stream = [c \in Call |-> [left |-> m, collected |-> 0]]
  BY DEF Tracing!Init
<1>3. /\ reader = [c \in Call |-> [i \in Reader |-> [at |-> "new", got |-> 0]]]
      /\ sentSpans = [c \in Call |-> <<>>]
  BY DEF Tracing!Init
<1>4. Kind \subseteq CallKind /\ MaxChunks \in Nat
  BY ServicesAssumption DEF Tracing!SdkTracingAssumption, CallKind
<1>5. TracingTyped
  <2>1. call \in [Call -> CallState]
    BY <1>1, <1>4 DEF CallState
  <2>2. stream \in [Call -> [left : Nat, collected : Nat]]
    BY <1>2, <1>4
  <2>3. sentSpans \in [Call -> Seq(Record)]
    BY <1>3
  <2>4. reader \in [Call -> [Reader -> Loop]]
    BY <1>3 DEF Loop
  <2>5. QED BY <2>1, <2>2, <2>3, <2>4 DEF TracingTyped
<1>6. ASSUME NEW c \in Call PROVE CallInv(c)
  <2>1. Begun(c) = {} /\ Ended(c) = {}
    BY <1>3 DEF Begun, Ended
  <2>2. /\ call[c].at = "new" /\ ~call[c].ended /\ sentSpans[c] = <<>> /\ stream[c].collected = 0
        /\ \A i \in Reader : reader[c][i].got = 0
    BY <1>1, <1>2, <1>3
  <2>3. Len(sentSpans[c]) = 0 /\ Cardinality(Ended(c)) = 0 /\ DOMAIN sentSpans[c] = {}
    BY <2>1, <2>2, FS_EmptySet
  <2>4. Recorded(c)
    BY <2>2, <2>3 DEF Recorded, Handled
  <2>5. QED BY <2>1, <2>2, <2>3, <2>4 DEF CallInv, NoneBefore, OnlyStreams, ReadAlone, Whole, ErrorIsThrown
<1>7. QED BY <1>5, <1>6 DEF TracingIInv

\* A step of one call leaves the others as they are.
LEMMA OneCall ==
  ASSUME TracingIInv, NEW c \in Call, TracingTyped', CallInv(c)',
         \A d \in Call : d # c => /\ call'[d] = call[d] /\ stream'[d] = stream[d]
                                  /\ reader'[d] = reader[d] /\ sentSpans'[d] = sentSpans[d],
         dropped \subseteq dropped'
  PROVE  TracingIInv'
<1> SUFFICES ASSUME NEW d \in Call, d # c PROVE CallInv(d)'
  BY DEF TracingIInv
<1>1. /\ call'[d] = call[d] /\ stream'[d] = stream[d]
      /\ reader'[d] = reader[d] /\ sentSpans'[d] = sentSpans[d]
  OBVIOUS
<1>2. Begun(d)' = Begun(d) /\ Ended(d)' = Ended(d)
  BY <1>1 DEF Begun, Ended
<1>3. CallInv(d)
  BY DEF TracingIInv
<1>4. Recorded(d)'
  BY <1>1, <1>2, <1>3 DEF CallInv, Recorded, Handled
<1>5. NoneBefore(d)' /\ OnlyStreams(d)' /\ ReadAlone(d)' /\ Whole(d)' /\ ErrorIsThrown(d)'
  BY <1>1, <1>2, <1>3 DEF CallInv, NoneBefore, OnlyStreams, ReadAlone, Whole, ErrorIsThrown
<1>6. QED BY <1>4, <1>5 DEF CallInv

\* The queue takes one record of the call, or is closed.
LEMMA EndSpanAdds ==
  ASSUME TracingTyped, NEW c \in Call, NEW status \in {"ok", "error"}, NEW chunks \in Nat,
         Tracing!EndSpan(c, status, chunks)
  PROVE  /\ sentSpans' \in [Call -> Seq(Record)] /\ dropped \subseteq dropped'
         /\ \A d \in Call : d # c => sentSpans'[d] = sentSpans[d]
         /\ c \in dropped' \/ Len(sentSpans'[c]) = Len(sentSpans[c]) + 1
         /\ \A n \in DOMAIN sentSpans'[c] :
              \/ n \in DOMAIN sentSpans[c] /\ sentSpans'[c][n] = sentSpans[c][n]
              \/ sentSpans'[c][n].status = status /\ sentSpans'[c][n].chunks = chunks
<1>1. CASE closed
  BY <1>1 DEF Tracing!EndSpan, TracingTyped
<1>2. CASE ~closed
  <2>1. PICK r \in Record : r = [status |-> status, chunks |-> chunks] /\ r.status = status /\ r.chunks = chunks
    <3>1. [status |-> status, chunks |-> chunks] \in Record
      BY DEF Record
    <3>2. QED BY <3>1
  <2>2. PICK s \in Seq(Record) : s = sentSpans[c]
    BY DEF TracingTyped
  <2>3. sentSpans' = [sentSpans EXCEPT ![c] = Append(s, r)] /\ UNCHANGED dropped
    BY <1>2, <2>1, <2>2 DEF Tracing!EndSpan
  <2>4. /\ Append(s, r) \in Seq(Record) /\ Len(Append(s, r)) = Len(s) + 1
        /\ \A n \in DOMAIN Append(s, r) : (n \in DOMAIN s /\ Append(s, r)[n] = s[n]) \/ Append(s, r)[n] = r
    OBVIOUS
  <2>5. sentSpans'[c] = Append(s, r) /\ sentSpans' \in [Call -> Seq(Record)]
        /\ \A d \in Call : d # c => sentSpans'[d] = sentSpans[d]
    BY <2>3, <2>4 DEF TracingTyped
  <2>6. QED BY <2>1, <2>2, <2>3, <2>4, <2>5
<1>3. QED BY <1>1, <1>2

LEMMA TracingStartInv ==
  ASSUME TracingIInv, NEW c \in Call, Tracing!Start(c)
  PROVE  TracingIInv'
<1>1. PICK context \in Call : call' = [call EXCEPT ![c].at = "open", ![c].trace = call[context].trace]
  BY DEF Tracing!Start
<1>2. call[c].at = "new" /\ UNCHANGED <<stream, reader, sentSpans, dropped>>
  BY DEF Tracing!Start
<1>3. /\ call'[c].kind = call[c].kind /\ call'[c].ended = call[c].ended /\ call'[c].at = "open"
      /\ \A d \in Call : d # c => call'[d] = call[d]
      /\ TracingTyped'
  BY <1>1, <1>2 DEF TracingIInv, TracingTyped, CallState
<1>4. Begun(c)' = Begun(c) /\ Ended(c)' = Ended(c) /\ CallInv(c)
  BY <1>2 DEF Begun, Ended, TracingIInv
<1>5. Recorded(c)'
  BY <1>2, <1>3, <1>4 DEF CallInv, Recorded, Handled
<1>6. NoneBefore(c)' /\ OnlyStreams(c)' /\ ReadAlone(c)' /\ Whole(c)' /\ ErrorIsThrown(c)'
  BY <1>2, <1>3, <1>4 DEF CallInv, NoneBefore, OnlyStreams, ReadAlone, Whole, ErrorIsThrown
<1>7. CallInv(c)'
  BY <1>5, <1>6 DEF CallInv
<1>8. QED BY <1>2, <1>3, <1>7, OneCall

\* The handle of a span is ended: once is enough.
LEMMA TracingHandleInv ==
  ASSUME TracingIInv, NEW c \in Call, Tracing!EndHandle(c) \/ Tracing!Settle(c)
  PROVE  TracingIInv'
<1>1. PICK status \in {"ok", "error"} : Tracing!Once(c, status)
  BY DEF Tracing!EndHandle, Tracing!Settle, Tracing!StatusAt
<1>2. PICK at2 \in {call[c].at, "returned", "threw", "blank"} : call' = [call EXCEPT ![c].at = at2, ![c].ended = TRUE]
  <2>1. CASE Tracing!EndHandle(c)
    <3>1. call' = [call EXCEPT ![c].ended = TRUE]
      BY <2>1 DEF Tracing!EndHandle
    <3>2. call' = [call EXCEPT ![c].at = call[c].at, ![c].ended = TRUE]
      BY <3>1 DEF TracingIInv, TracingTyped
    <3>3. QED BY <3>2
  <2>2. CASE Tracing!Settle(c)
    BY <2>2 DEF Tracing!Settle
  <2>3. QED BY <2>1, <2>2
<1>3. call[c].kind \in {"manual", "traced"} /\ UNCHANGED <<stream, reader>>
  BY DEF Tracing!EndHandle, Tracing!Settle
<1>4. /\ call'[c].kind = call[c].kind /\ call'[c].ended /\ call'[c].at = at2
      /\ \A d \in Call : d # c => call'[d] = call[d]
      /\ call' \in [Call -> CallState]
  <2>1. PICK k \in CallState : k = call[c]
    BY DEF TracingIInv, TracingTyped
  <2>2. at2 \in {"new", "open", "returned", "threw", "blank", "streaming"}
    BY <2>1 DEF CallState
  <2> DEFINE m == [k EXCEPT !.at = at2, !.ended = TRUE]
  <2>3. call' = [call EXCEPT ![c] = m]
    BY <1>2, <2>1
  <2> HIDE DEF m
  <2>4. m \in CallState /\ m.kind = k.kind /\ m.at = at2 /\ m.ended = TRUE
    <3>1. m.kind = k.kind /\ m.at = at2 /\ m.ended = TRUE /\ m.trace = k.trace
      BY <2>1 DEF m, CallState
    <3>2. m \in CallState
      BY <2>2 DEF m, CallState
    <3>3. QED BY <3>1, <3>2
  <2>5. call \in [Call -> CallState]
    BY DEF TracingIInv, TracingTyped
  <2>6. call'[c] = m /\ call' \in [Call -> CallState] /\ \A d \in Call : d # c => call'[d] = call[d]
    BY <2>3, <2>4, <2>5
  <2>7. QED BY <2>1, <2>4, <2>6
<1>5. Begun(c)' = Begun(c) /\ Ended(c)' = Ended(c) /\ CallInv(c)
  BY <1>3 DEF Begun, Ended, TracingIInv
<1>6. /\ sentSpans' \in [Call -> Seq(Record)] /\ dropped \subseteq dropped'
      /\ \A d \in Call : d # c => sentSpans'[d] = sentSpans[d]
      /\ c \in dropped' \/ Len(sentSpans'[c]) = 1
  <2>1. CASE call[c].ended
    <3>1. UNCHANGED <<sentSpans, dropped>>
      BY <1>1, <2>1 DEF Tracing!Once
    <3>2. c \in dropped \/ Len(sentSpans[c]) = 1
      BY <1>3, <1>5, <2>1 DEF CallInv, Recorded, Handled
    <3>3. QED BY <3>1, <3>2 DEF TracingIInv, TracingTyped
  <2>2. CASE ~call[c].ended
    <3>1. Tracing!EndSpan(c, status, 0)
      BY <1>1, <2>2 DEF Tracing!Once
    <3>2. Recorded(c)
      BY <1>5 DEF CallInv
    <3>3. c \in dropped \/ Len(sentSpans[c]) = 0
      BY <1>3, <2>2, <3>2 DEF Recorded, Handled
    <3>4. TracingTyped /\ 0 \in Nat
      BY DEF TracingIInv
    <3>5. /\ sentSpans' \in [Call -> Seq(Record)] /\ dropped \subseteq dropped'
          /\ \A d \in Call : d # c => sentSpans'[d] = sentSpans[d]
          /\ c \in dropped' \/ Len(sentSpans'[c]) = Len(sentSpans[c]) + 1
      BY <3>1, <3>4, EndSpanAdds
    <3>6. CASE c \in dropped
      BY <3>5, <3>6
    <3>7. CASE Len(sentSpans[c]) = 0
      BY <3>5, <3>7
    <3>8. QED BY <3>3, <3>6, <3>7
  <2>3. QED BY <2>1, <2>2
<1>7. TracingTyped'
  BY <1>3, <1>4, <1>6 DEF TracingIInv, TracingTyped
<1>8. Recorded(c)'
  BY <1>3, <1>4, <1>6 DEF Recorded, Handled
<1>9. call[c].at # "streaming" /\ call'[c].at # "streaming"
  BY <1>3, <1>4, <1>5 DEF CallInv, OnlyStreams
<1>10. NoneBefore(c)' /\ OnlyStreams(c)' /\ ReadAlone(c)' /\ Whole(c)' /\ ErrorIsThrown(c)'
  BY <1>3, <1>4, <1>5, <1>9 DEF CallInv, NoneBefore, OnlyStreams, ReadAlone, Whole, ErrorIsThrown
<1>11. CallInv(c)'
  BY <1>8, <1>10 DEF CallInv
<1>12. QED BY <1>3, <1>4, <1>6, <1>7, <1>11, OneCall

\* The vendor's create() has the one record, unless its answer is streamed.
LEMMA TracingAnswerInv ==
  ASSUME TracingIInv, NEW c \in Call, NEW at2 \in {"returned", "threw", "blank", "streaming"},
         call' = [call EXCEPT ![c].at = at2], UNCHANGED <<stream, reader>>,
         call[c].at = "open", call[c].kind \in {"unary", "openai", "anthropic"},
         at2 = "streaming" => call[c].kind # "unary",
         IF at2 = "streaming" THEN UNCHANGED <<sentSpans, dropped>>
         ELSE Tracing!EndSpan(c, Tracing!StatusAt(at2), 0)
  PROVE  TracingIInv'
<1>1. /\ call'[c].kind = call[c].kind /\ call'[c].ended = call[c].ended /\ call'[c].at = at2
      /\ \A d \in Call : d # c => call'[d] = call[d]
      /\ call' \in [Call -> CallState]
  BY ZenonT(30) DEF TracingIInv, TracingTyped, CallState
<1>2. Begun(c)' = Begun(c) /\ Ended(c)' = Ended(c) /\ CallInv(c)
  BY DEF Begun, Ended, TracingIInv
<1>3. sentSpans[c] = <<>> /\ Begun(c) = {}
  BY <1>2 DEF CallInv, NoneBefore, OnlyStreams
<1>4. Len(sentSpans[c]) = 0 /\ DOMAIN sentSpans[c] = {}
  BY <1>3
<1>5. Ended(c) = {} /\ Cardinality(Ended(c)) = 0
  <2>1. Ended(c) = {}
    BY <1>3 DEF Begun, Ended
  <2>2. QED BY <2>1, FS_EmptySet
<1>6. CASE at2 = "streaming"
  <2>1. UNCHANGED <<sentSpans, dropped>>
    BY <1>6
  <2>2. TracingTyped'
    BY <1>1, <2>1 DEF TracingIInv, TracingTyped
  <2>3. Recorded(c)'
    BY <1>1, <1>2, <1>4, <1>5, <1>6, <2>1 DEF Recorded, Handled
  <2>4. NoneBefore(c)' /\ OnlyStreams(c)' /\ ReadAlone(c)' /\ Whole(c)' /\ ErrorIsThrown(c)'
    BY <1>1, <1>2, <1>3, <1>4, <1>6, <2>1 DEF CallInv, NoneBefore, OnlyStreams, ReadAlone, Whole, ErrorIsThrown
  <2>5. CallInv(c)'
    BY <2>3, <2>4 DEF CallInv
  <2>6. QED BY <1>1, <2>1, <2>2, <2>5, OneCall
<1>7. CASE at2 # "streaming"
  <2>1. PICK status \in {"ok", "error"} : status = Tracing!StatusAt(at2) /\ (status = "error") = (at2 = "threw")
    BY DEF Tracing!StatusAt
  <2>2. Tracing!EndSpan(c, status, 0) /\ TracingTyped /\ 0 \in Nat
    BY <1>7, <2>1 DEF TracingIInv
  <2>3. /\ sentSpans' \in [Call -> Seq(Record)] /\ dropped \subseteq dropped'
        /\ \A d \in Call : d # c => sentSpans'[d] = sentSpans[d]
        /\ c \in dropped' \/ Len(sentSpans'[c]) = Len(sentSpans[c]) + 1
        /\ \A n \in DOMAIN sentSpans'[c] :
              \/ n \in DOMAIN sentSpans[c] /\ sentSpans'[c][n] = sentSpans[c][n]
              \/ sentSpans'[c][n].status = status /\ sentSpans'[c][n].chunks = 0
    BY <2>2, EndSpanAdds
  <2>4. TracingTyped'
    BY <1>1, <2>3 DEF TracingIInv, TracingTyped
  <2>5. Recorded(c)'
    BY <1>1, <1>4, <1>7, <2>3 DEF Recorded, Handled
  <2>6. ErrorIsThrown(c)'
    BY <1>1, <1>4, <2>1, <2>3 DEF ErrorIsThrown
  <2>7. NoneBefore(c)' /\ OnlyStreams(c)' /\ ReadAlone(c)' /\ Whole(c)'
    BY <1>1, <1>2, <1>3, <1>7 DEF CallInv, NoneBefore, OnlyStreams, ReadAlone, Whole
  <2>8. CallInv(c)'
    BY <2>5, <2>6, <2>7 DEF CallInv
  <2>9. QED BY <1>1, <2>3, <2>4, <2>8, OneCall
<1>8. QED BY <1>6, <1>7

LEMMA TracingIterateInv ==
  ASSUME TracingIInv, NEW c \in Call, NEW i \in Reader, Tracing!Iterate(c, i)
  PROVE  TracingIInv'
<1>1. /\ call[c].at = "streaming" /\ reader[c][i].at = "new"
      /\ reader' = [reader EXCEPT ![c][i].at = "reading"]
      /\ UNCHANGED <<call, stream, sentSpans, dropped>>
  BY DEF Tracing!Iterate
<1>2. /\ reader'[c][i].at = "reading" /\ reader'[c][i].got = reader[c][i].got
      /\ \A j \in Reader : j # i => reader'[c][j] = reader[c][j]
      /\ \A d \in Call : d # c => reader'[d] = reader[d]
      /\ TracingTyped'
  <2>1. PICK r \in Loop : r = reader[c][i]
    BY DEF TracingIInv, TracingTyped
  <2> DEFINE w == [r EXCEPT !.at = "reading"]
  <2>2. reader' = [reader EXCEPT ![c][i] = w]
    BY <1>1, <2>1
  <2> HIDE DEF w
  <2>3. w \in Loop /\ w.at = "reading" /\ w.got = r.got
    BY LoopGoesOn DEF w
  <2>4. reader \in [Call -> [Reader -> Loop]]
    BY DEF TracingIInv, TracingTyped
  <2>5. /\ reader' \in [Call -> [Reader -> Loop]] /\ reader'[c][i] = w
        /\ \A j \in Reader : j # i => reader'[c][j] = reader[c][j]
        /\ \A d \in Call : d # c => reader'[d] = reader[d]
    BY <2>2, <2>3, <2>4
  <2>6. TracingTyped'
    BY <1>1, <2>5 DEF TracingIInv, TracingTyped
  <2>7. QED BY <2>1, <2>3, <2>5, <2>6
<1>3. Begun(c)' = Begun(c) \cup {i} /\ i \notin Begun(c) /\ Ended(c)' = Ended(c) /\ CallInv(c)
  BY <1>1, <1>2 DEF Begun, Ended, TracingIInv
<1>4. Recorded(c)'
  BY <1>1, <1>3 DEF CallInv, Recorded, Handled
<1>5. ReadAlone(c)'
  <2>1. \A j \in Reader : Begun(c)' = {j} => j = i /\ Begun(c) = {}
    BY <1>3
  <2>2. \A j \in Reader : reader'[c][j].at = "new" => reader'[c][j].got = 0
    BY <1>1, <1>2, <1>3 DEF CallInv, ReadAlone
  <2>3. reader[c][i].got = 0
    BY <1>1, <1>3 DEF CallInv, ReadAlone
  <2>4. QED BY <1>1, <1>2, <1>3, <2>1, <2>2, <2>3 DEF CallInv, ReadAlone
<1>6. Whole(c)'
  BY <1>1, <1>3 DEF CallInv, Whole
<1>7. NoneBefore(c)' /\ OnlyStreams(c)' /\ ErrorIsThrown(c)'
  BY <1>1, <1>3 DEF CallInv, NoneBefore, OnlyStreams, ErrorIsThrown
<1>8. CallInv(c)'
  BY <1>4, <1>5, <1>6, <1>7 DEF CallInv
<1>9. QED BY <1>1, <1>2, <1>8, OneCall

LEMMA TracingPullInv ==
  ASSUME TracingIInv, NEW c \in Call, NEW i \in Reader, Tracing!Pull(c, i)
  PROVE  TracingIInv'
<1>1. /\ reader[c][i].at = "reading" /\ stream[c].left > 0
      /\ stream' = [stream EXCEPT ![c].left = stream[c].left - 1, ![c].collected = stream[c].collected + 1]
      /\ reader' = [reader EXCEPT ![c][i].got = reader[c][i].got + 1]
      /\ UNCHANGED <<call, sentSpans, dropped>>
  BY DEF Tracing!Pull, TracingIInv, TracingTyped
<1>2. /\ reader'[c][i].at = "reading" /\ reader'[c][i].got = reader[c][i].got + 1
      /\ \A j \in Reader : j # i => reader'[c][j] = reader[c][j]
      /\ \A d \in Call : d # c => reader'[d] = reader[d]
      /\ reader' \in [Call -> [Reader -> Loop]]
  <2>1. PICK r \in Loop : r = reader[c][i]
    BY DEF TracingIInv, TracingTyped
  <2> DEFINE w == [r EXCEPT !.got = r.got + 1]
  <2>2. reader' = [reader EXCEPT ![c][i] = w]
    BY <1>1, <2>1
  <2>3. w \in Loop /\ w.at = r.at /\ w.got = r.got + 1
    BY DEF Loop
  <2> HIDE DEF w
  <2>4. reader \in [Call -> [Reader -> Loop]]
    BY DEF TracingIInv, TracingTyped
  <2>5. /\ reader' \in [Call -> [Reader -> Loop]] /\ reader'[c][i] = w
        /\ \A j \in Reader : j # i => reader'[c][j] = reader[c][j]
        /\ \A d \in Call : d # c => reader'[d] = reader[d]
    BY <2>2, <2>3, <2>4
  <2>6. QED BY <1>1, <2>1, <2>3, <2>5
<1>3. /\ stream'[c].collected = stream[c].collected + 1
      /\ \A d \in Call : d # c => stream'[d] = stream[d]
      /\ stream' \in [Call -> [left : Nat, collected : Nat]]
  <2>1. stream[c].left \in Nat /\ stream[c].collected \in Nat
    BY DEF TracingIInv, TracingTyped
  <2>2. stream[c].left - 1 \in Nat /\ stream[c].collected + 1 \in Nat
    BY <1>1, <2>1
  <2>3. QED BY <1>1, <2>2 DEF TracingIInv, TracingTyped
<1>4. TracingTyped'
  BY <1>1, <1>2, <1>3 DEF TracingIInv, TracingTyped
<1>5. Begun(c)' = Begun(c) /\ i \in Begun(c) /\ Ended(c)' = Ended(c) /\ CallInv(c)
  BY <1>1, <1>2 DEF Begun, Ended, TracingIInv
<1>6. Recorded(c)'
  BY <1>1, <1>5 DEF CallInv, Recorded, Handled
<1>7. ReadAlone(c)'
  <2>1. \A j \in Reader : Begun(c)' = {j} => j = i /\ Begun(c) = {i}
    BY <1>5
  <2>2. Begun(c) = {i} => reader[c][i].got = stream[c].collected
    BY <1>5 DEF CallInv, ReadAlone
  <2>3. \A j \in Reader : reader'[c][j].at = "new" => reader'[c][j].got = 0
    BY <1>1, <1>2, <1>5 DEF CallInv, ReadAlone
  <2>4. QED BY <1>2, <1>3, <1>5, <2>1, <2>2, <2>3 DEF ReadAlone
<1>8. Whole(c)'
  <2>1. \A n \in DOMAIN sentSpans[c] : ~(sentSpans[c][n].status = "ok" /\ call[c].at = "streaming")
    BY <1>1, <1>5 DEF CallInv, Whole
  <2>2. QED BY <1>1, <2>1 DEF Whole
<1>9. NoneBefore(c)' /\ OnlyStreams(c)' /\ ErrorIsThrown(c)'
  BY <1>1, <1>5 DEF CallInv, NoneBefore, OnlyStreams, ErrorIsThrown
<1>10. CallInv(c)'
  BY <1>6, <1>7, <1>8, <1>9 DEF CallInv
<1>11. QED BY <1>1, <1>2, <1>3, <1>4, <1>10, OneCall

\* A loop ends: with a record unless its consumer left it.
LEMMA TracingFinishInv ==
  ASSUME TracingIInv, NEW c \in Call, NEW i \in Reader, Tracing!SdkTracingAssumption,
         Tracing!Exhaust(c, i) \/ Tracing!StreamFails(c, i) \/ Tracing!Leave(c, i)
  PROVE  TracingIInv'
<1>1. PICK at2 \in {"done", "failed", "left"} :
        /\ Tracing!Finish(c, i, at2)
        /\ at2 = "done" => Tracing!Exhaust(c, i)
        /\ at2 = "failed" => Tracing!StreamFails(c, i)
        /\ at2 = "left" => Tracing!Leave(c, i)
  BY DEF Tracing!Exhaust, Tracing!StreamFails, Tracing!Leave
<1>2. /\ reader[c][i].at = "reading" /\ reader' = [reader EXCEPT ![c][i].at = at2] /\ UNCHANGED call
  BY <1>1 DEF Tracing!Finish
<1>3. /\ reader'[c][i].at = at2
      /\ \A j \in Reader : reader'[c][j].got = reader[c][j].got
      /\ \A j \in Reader : j # i => reader'[c][j] = reader[c][j]
      /\ \A d \in Call : d # c => reader'[d] = reader[d]
      /\ reader' \in [Call -> [Reader -> Loop]]
  <2>1. PICK r \in Loop : r = reader[c][i]
    BY DEF TracingIInv, TracingTyped
  <2> DEFINE w == [r EXCEPT !.at = at2]
  <2>2. reader' = [reader EXCEPT ![c][i] = w]
    BY <1>2, <2>1
  <2> HIDE DEF w
  <2>3. w \in Loop /\ w.at = at2 /\ w.got = r.got
    BY LoopGoesOn DEF w
  <2>4. QED BY <2>1, <2>2, <2>3 DEF TracingIInv, TracingTyped
<1>4. /\ Begun(c)' = Begun(c) /\ i \in Begun(c) /\ i \notin Ended(c) /\ CallInv(c)
      /\ Ended(c)' = IF at2 = "left" THEN Ended(c) ELSE Ended(c) \cup {i}
  BY <1>2, <1>3 DEF Begun, Ended, TracingIInv
<1>5. call[c].at = "streaming" /\ call[c].kind \in {"openai", "anthropic"}
  BY <1>4 DEF CallInv, OnlyStreams
<1>6. /\ stream'[c].collected = stream[c].collected
      /\ stream[c].left = 0 => stream'[c].left = 0
      /\ \A d \in Call : d # c => stream'[d] = stream[d]
      /\ stream' \in [Call -> [left : Nat, collected : Nat]]
  <2>1. UNCHANGED stream \/ stream' = [stream EXCEPT ![c].left = 0]
    BY <1>1 DEF Tracing!Exhaust, Tracing!StreamFails, Tracing!Leave
  <2>2. CASE UNCHANGED stream
    BY <2>2 DEF TracingIInv, TracingTyped
  <2>3. CASE stream' = [stream EXCEPT ![c].left = 0]
    BY <2>3 DEF TracingIInv, TracingTyped
  <2>4. QED BY <2>1, <2>2, <2>3
<1>7. PICK status \in {"ok", "error"} : status = IF at2 = "done" THEN "ok" ELSE "error"
  OBVIOUS
<1>8. PICK chunks \in Nat : chunks = IF at2 = "done" THEN Tracing!Collected(c, i) ELSE 0
  <2>1. reader[c][i] \in Loop /\ stream[c] \in [left : Nat, collected : Nat]
    BY DEF TracingIInv, TracingTyped
  <2>2. Tracing!Collected(c, i) \in Nat
    BY <2>1 DEF Tracing!Collected, Loop
  <2>3. QED BY <2>2
<1>9. /\ sentSpans' \in [Call -> Seq(Record)] /\ dropped \subseteq dropped'
      /\ \A d \in Call : d # c => sentSpans'[d] = sentSpans[d]
      /\ c \in dropped' \/ Len(sentSpans'[c]) = Len(sentSpans[c]) + (IF at2 = "left" THEN 0 ELSE 1)
      /\ \A n \in DOMAIN sentSpans'[c] :
              \/ n \in DOMAIN sentSpans[c] /\ sentSpans'[c][n] = sentSpans[c][n]
              \/ at2 # "left" /\ sentSpans'[c][n].status = status /\ sentSpans'[c][n].chunks = chunks
  <2>1. CASE at2 = "left"
    <3>1. UNCHANGED <<sentSpans, dropped>>
      BY <1>1, <2>1 DEF Tracing!Leave
    <3>2. Len(sentSpans[c]) \in Nat
      BY DEF TracingIInv, TracingTyped
    <3>3. QED BY <2>1, <3>1, <3>2 DEF TracingIInv, TracingTyped
  <2>2. CASE at2 # "left"
    <3>1. Tracing!EndSpan(c, status, chunks) /\ TracingTyped
      BY <1>1, <1>7, <1>8, <2>2 DEF Tracing!Exhaust, Tracing!StreamFails, TracingIInv
    <3>2. QED BY <2>2, <3>1, EndSpanAdds
  <2>3. QED BY <2>1, <2>2
<1>10. TracingTyped'
  BY <1>2, <1>3, <1>6, <1>9 DEF TracingIInv, TracingTyped
<1>11. Recorded(c)'
  <2>1. IsFiniteSet(Ended(c))
    <3>1. IsFiniteSet(Reader)
      BY DEF Tracing!SdkTracingAssumption, Tracing!IsFiniteSet, IsFiniteSet
    <3>2. QED BY <3>1, FS_Subset DEF Ended
  <2>2. Cardinality(Ended(c)') = Cardinality(Ended(c)) + (IF at2 = "left" THEN 0 ELSE 1)
        /\ Cardinality(Ended(c)) \in Nat
    BY <1>4, <2>1, FS_AddElement, FS_CardinalityType
  <2>3. c \in dropped \/ Len(sentSpans[c]) = Cardinality(Ended(c))
    BY <1>4, <1>5 DEF CallInv, Recorded, Handled
  <2>4. c \in dropped' \/ Len(sentSpans'[c]) = Cardinality(Ended(c)')
    BY <1>9, <2>2, <2>3
  <2>5. QED BY <1>2, <1>5, <2>4 DEF Recorded, Handled
<1>12. ReadAlone(c)'
  BY <1>2, <1>3, <1>4, <1>6 DEF CallInv, ReadAlone
<1>13. Whole(c)'
  <2> SUFFICES ASSUME NEW n \in DOMAIN sentSpans'[c], sentSpans'[c][n].status = "ok"
               PROVE  /\ stream'[c].left = 0
                      /\ call[c].kind = "openai" \/ (\E j \in Reader : Begun(c) = {j})
                         => sentSpans'[c][n].chunks = stream[c].collected
    BY <1>2, <1>4, <1>6 DEF Whole
  <2>1. CASE n \in DOMAIN sentSpans[c] /\ sentSpans'[c][n] = sentSpans[c][n]
    BY <1>4, <1>5, <1>6, <2>1 DEF CallInv, Whole
  <2>2. CASE at2 # "left" /\ sentSpans'[c][n].status = status /\ sentSpans'[c][n].chunks = chunks
    <3>1. at2 = "done" /\ chunks = Tracing!Collected(c, i) /\ stream[c].left = 0
      BY <1>1, <1>7, <1>8, <2>2 DEF Tracing!Exhaust
    <3>2. \A j \in Reader : Begun(c) = {j} => reader[c][i].got = stream[c].collected
      BY <1>4 DEF CallInv, ReadAlone
    <3>3. QED BY <1>6, <2>2, <3>1, <3>2 DEF Tracing!Collected
  <2>3. QED BY <1>9, <2>1, <2>2
<1>14. NoneBefore(c)' /\ OnlyStreams(c)' /\ ErrorIsThrown(c)'
  BY <1>2, <1>5 DEF NoneBefore, OnlyStreams, ErrorIsThrown
<1>15. CallInv(c)'
  BY <1>11, <1>12, <1>13, <1>14 DEF CallInv
<1>16. QED BY <1>2, <1>3, <1>6, <1>9, <1>10, <1>15, OneCall

LEMMA TracingNext == TracingIInv /\ [Next]_vars => TracingIInv'
<1> SUFFICES ASSUME TracingIInv, [Next]_vars PROVE TracingIInv'
  OBVIOUS
<1>1. Tracing!Next \/ UNCHANGED tracingVars
  BY OneService
<1>2. CASE UNCHANGED <<call, stream, reader, sentSpans, dropped>>
  <2>1. TracingTyped'
    BY <1>2 DEF TracingIInv, TracingTyped
  <2>2. ASSUME NEW c \in Call PROVE CallInv(c)'
    <3>1. Begun(c)' = Begun(c) /\ Ended(c)' = Ended(c) /\ CallInv(c)
      BY <1>2 DEF Begun, Ended, TracingIInv
    <3>2. Recorded(c)'
      BY <1>2, <3>1 DEF CallInv, Recorded, Handled
    <3>3. NoneBefore(c)' /\ OnlyStreams(c)' /\ ReadAlone(c)' /\ Whole(c)' /\ ErrorIsThrown(c)'
      BY <1>2, <3>1 DEF CallInv, NoneBefore, OnlyStreams, ReadAlone, Whole, ErrorIsThrown
    <3>4. QED BY <3>2, <3>3 DEF CallInv
  <2>3. QED BY <2>1, <2>2 DEF TracingIInv
<1>3. CASE Tracing!Shutdown
  BY <1>2, <1>3 DEF Tracing!Shutdown
<1>4. ASSUME NEW c \in Call, Tracing!Respond(c) PROVE TracingIInv'
  <2>1. call[c].at = "open" /\ UNCHANGED <<stream, reader>>
    BY <1>4 DEF Tracing!Respond
  <2>2. CASE call[c].kind = "unary"
    <3>1. call' = [call EXCEPT ![c].at = "returned"] /\ Tracing!EndSpan(c, Tracing!StatusAt("returned"), 0)
      BY <1>4, <2>2 DEF Tracing!Respond, Tracing!StatusAt
    <3>2. QED BY <2>1, <2>2, <3>1, TracingAnswerInv
  <2>3. CASE call[c].kind # "unary"
    <3>1. /\ call[c].kind \in {"openai", "anthropic"}
          /\ call' = [call EXCEPT ![c].at = "streaming"] /\ UNCHANGED <<sentSpans, dropped>>
      BY <1>4, <2>3 DEF Tracing!Respond
    <3>2. QED BY <2>1, <2>3, <3>1, TracingAnswerInv
  <2>4. QED BY <2>2, <2>3
<1>5. ASSUME NEW c \in Call, Tracing!Fail(c) PROVE TracingIInv'
  <2>1. /\ call[c].at = "open" /\ call[c].kind \in {"unary", "openai", "anthropic"}
        /\ UNCHANGED <<stream, reader>>
    BY <1>5 DEF Tracing!Fail
  <2>2. PICK at2 \in {"threw", "blank"} :
          call' = [call EXCEPT ![c].at = at2] /\ Tracing!EndSpan(c, Tracing!StatusAt(at2), 0)
    BY <1>5 DEF Tracing!Fail
  <2>3. QED BY <2>1, <2>2, TracingAnswerInv
<1>6. ASSUME NEW c \in Call, Tracing!Start(c) \/ Tracing!EndHandle(c) \/ Tracing!Settle(c) PROVE TracingIInv'
  BY <1>6, TracingStartInv, TracingHandleInv
<1>7. ASSUME NEW c \in Call, NEW i \in Reader,
             Tracing!Iterate(c, i) \/ Tracing!Pull(c, i) \/ Tracing!Exhaust(c, i)
               \/ Tracing!StreamFails(c, i) \/ Tracing!Leave(c, i)
      PROVE  TracingIInv'
  <2>1. Tracing!SdkTracingAssumption
    BY ServicesAssumption
  <2>2. CASE Tracing!Iterate(c, i)
    BY <2>2, TracingIterateInv
  <2>3. CASE Tracing!Pull(c, i)
    BY <2>3, TracingPullInv
  <2>4. CASE Tracing!Exhaust(c, i) \/ Tracing!StreamFails(c, i) \/ Tracing!Leave(c, i)
    BY <2>1, <2>4, TracingFinishInv
  <2>5. QED BY <1>7, <2>2, <2>3, <2>4
<1>8. QED BY <1>1, <1>2, <1>3, <1>4, <1>5, <1>6, <1>7 DEF Tracing!Next, tracingVars

LEMMA SameCardinality == \A S : Tracing!Cardinality(S) = Cardinality(S)
BY Zenon DEF Tracing!Cardinality, Cardinality, Tracing!IsFiniteSet, IsFiniteSet

\* The queue gets one record of each call that ended and none of the others, a streamed
\* answer's record is whole, and an error is what the caller saw (sdk-js).
THEOREM ServicesSendSpansOnce == Services => []SpanSentOnce
<1>1. TracingIInv => SpanSentOnce
  <2> SUFFICES ASSUME TracingIInv, NEW c \in Call
               PROVE  /\ Tracing!RecordPerEnd(c) /\ Tracing!WholeAnswer(c)
                      /\ call[c].kind = "unary" => \A n \in DOMAIN sentSpans[c] :
                           (sentSpans[c][n].status = "error") = (call[c].at = "threw")
    BY DEF SpanSentOnce, Tracing!SpanSentOnce
  <2>1. CallInv(c)
    BY DEF TracingIInv
  <2>2. Ended(c) = Tracing!ReadersAt(c, {"done", "failed"})
    BY DEF Ended, Tracing!ReadersAt
  <2>3. Begun(c) = Tracing!ReadersAt(c, {"reading", "done", "left", "failed"})
    <3>1. \A i \in Reader : reader[c][i] \in Loop
      BY DEF TracingIInv, TracingTyped
    <3>2. \A i \in Reader : reader[c][i].at \in {"new", "reading", "done", "left", "failed"}
      BY <3>1 DEF Loop
    <3>3. QED BY <3>2 DEF Begun, Tracing!ReadersAt
  <2>4. Tracing!RecordPerEnd(c)
    <3>1. Tracing!Cardinality(Tracing!ReadersAt(c, {"done", "failed"})) = Cardinality(Ended(c))
      BY <2>2, SameCardinality
    <3>2. Recorded(c)
      BY <2>1 DEF CallInv
    <3>3. QED BY <3>1, <3>2 DEF Recorded, Handled, Tracing!RecordPerEnd
  <2>5. Tracing!WholeAnswer(c)
    <3>1. IsFiniteSet(Begun(c))
      <4>1. IsFiniteSet(Reader)
        BY ServicesAssumption DEF Tracing!SdkTracingAssumption, Tracing!IsFiniteSet, IsFiniteSet
      <4>2. QED BY <4>1, FS_Subset DEF Begun
    <3>2. Cardinality(Begun(c)) = 1 => \E i \in Reader : Begun(c) = {i}
      BY <3>1, FS_Singleton DEF Begun
    <3>3. Tracing!Cardinality(Tracing!ReadersAt(c, {"reading", "done", "left", "failed"})) = Cardinality(Begun(c))
      BY <2>3, SameCardinality
    <3>4. QED BY <2>1, <3>2, <3>3 DEF CallInv, Whole, Tracing!WholeAnswer
  <2>6. QED BY <2>1, <2>4, <2>5 DEF CallInv, ErrorIsThrown
<1>2. QED BY <1>1, TracingInit, TracingNext, PTL DEF Services

-----------------------------------------------------------------------------
(* The members of a tenant (Membership) *)

Membership == [row : Nat, role : STRING]
Request == [op : {"invite", "role", "remove"}, email : Email, role : STRING, found : SUBSET Membership,
            answer : {"none", "ok", "error", "404", "crash"},
            at : {"user", "create", "look", "write", "reread", "end"}, alone : BOOLEAN]

MembersTyped ==
  /\ \E k \in Nat : DOMAIN request = 1..k
  /\ request \in [DOMAIN request -> Request]
  /\ DOMAIN before = DOMAIN request
  /\ member \in [DOMAIN member -> Membership]
  /\ rowsMade \in Nat

\* A request that is alone began when those before it had ended, and those behind it
\* began when it had.
AloneIsLatest ==
  \A n, m \in DOMAIN request :
    request[n].alone /\ request[m].email = request[n].email =>
      /\ m < n => request[m].at = "end"
      /\ request[n].at # "end" => m <= n

\* What a request that is alone, and the latest, has found and done.
Latest(n) == \A m \in DOMAIN request : request[m].email = request[n].email => m <= n
RoledNow(e) == {x.role : x \in Members!RowsOf(e)}
Undisturbed(n) ==
  LET r == request[n]
  IN  /\ r.at \in {"user", "create", "look", "write"} => Members!RowsOf(r.email) = before[n]
      /\ r.at = "write" => r.found = before[n] /\ (r.op = "remove" => r.found # {})
      /\ r.at = "reread" => r.op # "remove" /\ RoledNow(r.email) = {r.role}
      /\ r.at = "end" /\ r.answer = "ok" => RoledNow(r.email) = IF r.op = "remove" THEN {} ELSE {r.role}
      /\ r.at = "end" /\ r.answer \in {"error", "404"} => Members!RowsOf(r.email) = before[n]
LatestIsUndisturbed == \A n \in DOMAIN request : request[n].alone /\ Latest(n) => Undisturbed(n)

\* An invitation that got on has a user, the one that made it knows the password, and
\* that is the first one unless those before it crashed.
Invites(n) == request[n].op = "invite"
GotOn(n) == request[n].at \notin {"user", "create"} /\ request[n].answer # "crash"
InvitedHasUser ==
  \A n \in DOMAIN request : Invites(n) /\ GotOn(n) => request[n].email \in DOMAIN password
UserWasInvited ==
  \A e \in DOMAIN password : \E n \in DOMAIN request :
    /\ password[e] = n /\ Invites(n)
    /\ request[n].email = e /\ request[n].at \notin {"user", "create"}
MakerWasFirst ==
  \A n, m \in DOMAIN request :
    /\ request[n].alone /\ request[n].email \in DOMAIN password /\ password[request[n].email] = n
    /\ Invites(m) /\ request[m].email = request[n].email /\ m < n
    => request[m].answer = "crash"
FirstIsMaker ==
  \A n \in DOMAIN request :
    /\ request[n].alone /\ Invites(n) /\ GotOn(n)
    /\ \A m \in DOMAIN request : request[m].email = request[n].email /\ Invites(m) => m >= n
    => request[n].email \in DOMAIN password /\ password[request[n].email] = n
\* Only invitations look for a user, and a request that goes on has no answer.
AnswersLast ==
  \A n \in DOMAIN request :
    /\ request[n].at \in {"user", "create"} => Invites(n)
    /\ (request[n].at = "end") = (request[n].answer # "none")

MembersIInv ==
  /\ MembersTyped /\ AloneIsLatest /\ LatestIsUndisturbed
  /\ InvitedHasUser /\ UserWasInvited /\ MakerWasFirst /\ FirstIsMaker /\ AnswersLast

LEMMA MembersImplies == MembersIInv => LatestAnswerHolds
<1> SUFFICES ASSUME MembersIInv, NEW n \in DOMAIN request, request[n].alone
             PROVE  LET r == request[n]
                        same == {m \in DOMAIN request : request[m].email = r.email}
                    IN  /\ r.at = "end" /\ (\A m \in same : m <= n) =>
                             CASE r.answer = "ok" -> Members!Roled(r.email) = IF r.op = "remove" THEN {} ELSE {r.role}
                               [] r.answer \in {"error", "404"} -> Members!RowsOf(r.email) = before[n]
                               [] OTHER -> TRUE
                        /\ r.op = "invite" /\ r.answer = "ok" /\ (\A m \in same : request[m].answer # "crash") =>
                             (password[r.email] = n <=> \A m \in same : request[m].op = "invite" => m >= n)
  BY DEF LatestAnswerHolds, Members!LatestAnswerHolds
<1> DEFINE same == {m \in DOMAIN request : request[m].email = request[n].email}
<1>1. ASSUME request[n].at = "end", \A m \in same : m <= n
      PROVE  CASE request[n].answer = "ok" -> Members!Roled(request[n].email) = IF request[n].op = "remove" THEN {} ELSE {request[n].role}
               [] request[n].answer \in {"error", "404"} -> Members!RowsOf(request[n].email) = before[n]
               [] OTHER -> TRUE
  <2>1. Undisturbed(n)
    BY <1>1 DEF MembersIInv, LatestIsUndisturbed, Latest
  <2>2. RoledNow(request[n].email) = Members!Roled(request[n].email)
    BY DEF RoledNow, Members!Roled
  <2>3. QED BY <1>1, <2>1, <2>2 DEF Undisturbed
<1>2. ASSUME Invites(n), request[n].answer = "ok", \A m \in same : request[m].answer # "crash"
      PROVE  password[request[n].email] = n <=> \A m \in same : request[m].op = "invite" => m >= n
  <2>1. GotOn(n) /\ request[n].email \in DOMAIN password
    BY <1>2 DEF MembersIInv, AnswersLast, InvitedHasUser, GotOn
  <2>2. DOMAIN request \subseteq Nat
    BY DEF MembersIInv, MembersTyped
  <2>3. ASSUME password[request[n].email] = n, NEW m \in same, request[m].op = "invite" PROVE m >= n
    BY <1>2, <2>1, <2>2, <2>3 DEF MembersIInv, MakerWasFirst, Invites
  <2>4. ASSUME \A m \in same : request[m].op = "invite" => m >= n PROVE password[request[n].email] = n
    BY <1>2, <2>1, <2>4 DEF MembersIInv, FirstIsMaker, Invites
  <2>5. QED BY <2>3, <2>4
<1>3. QED BY <1>1, <1>2 DEF Invites

LEMMA MembersInit == Init => MembersIInv
<1> SUFFICES ASSUME Members!Init PROVE MembersIInv
  BY DEF Init, ApiInit
<1>1. /\ DOMAIN request = {} /\ DOMAIN before = {} /\ DOMAIN password = {} /\ DOMAIN member = {}
      /\ request = [n \in {} |-> 0] /\ member = [e \in {} |-> 0] /\ rowsMade = 0
  BY DEF Members!Init
<1>2. DOMAIN request = 1..0
  BY <1>1
<1>3. MembersTyped
  BY <1>1, <1>2 DEF MembersTyped
<1>4. QED BY <1>1, <1>3 DEF MembersIInv, AloneIsLatest, LatestIsUndisturbed, InvitedHasUser, UserWasInvited,
             MakerWasFirst, FirstIsMaker, AnswersLast

\* A request takes a step: what it asks for stays, and no other address is touched.
Goes(n, r) ==
  /\ request' = [request EXCEPT ![n] = r]
  /\ r \in Request /\ request[n].at # "end"
  /\ r.op = request[n].op /\ r.email = request[n].email /\ r.role = request[n].role
  /\ r.alone = request[n].alone
  /\ r.at # "user" /\ (r.at = "create" => request[n].at = "user")
  /\ (r.at = "end") = (r.answer # "none")

LEMMA GoesAlong ==
  ASSUME MembersTyped, NEW n \in DOMAIN request, NEW r, Goes(n, r)
  PROVE  /\ DOMAIN request' = DOMAIN request /\ request' \in [DOMAIN request' -> Request]
         /\ request'[n] = r
         /\ \A m \in DOMAIN request : m # n => request'[m] = request[m]
         /\ \A m \in DOMAIN request : /\ request'[m].email = request[m].email /\ request'[m].op = request[m].op
                                      /\ request'[m].alone = request[m].alone
         /\ DOMAIN request \subseteq Nat
<1>1. request \in [DOMAIN request -> Request] /\ DOMAIN request \subseteq Nat
  BY DEF MembersTyped
<1>2. QED BY <1>1 DEF Goes

LEMMA MembersGoOn ==
  ASSUME MembersIInv, NEW n \in DOMAIN request, NEW r, Goes(n, r),
         UNCHANGED before, member' \in [DOMAIN member' -> Membership], rowsMade' \in Nat,
         \A e \in Email : e # r.email => Members!RowsOf(e)' = Members!RowsOf(e),
         request[n].alone /\ Latest(n) => Undisturbed(n)'
  PROVE  MembersTyped' /\ AloneIsLatest' /\ LatestIsUndisturbed' /\ AnswersLast'
<1>1. /\ DOMAIN request' = DOMAIN request /\ request' \in [DOMAIN request' -> Request]
      /\ request'[n] = r
      /\ \A m \in DOMAIN request : m # n => request'[m] = request[m]
      /\ \A m \in DOMAIN request : /\ request'[m].email = request[m].email /\ request'[m].op = request[m].op
                                   /\ request'[m].alone = request[m].alone
      /\ DOMAIN request \subseteq Nat
  BY GoesAlong DEF MembersIInv
<1>2. MembersTyped'
  BY <1>1 DEF MembersIInv, MembersTyped
<1>3. AloneIsLatest'
  BY <1>1 DEF MembersIInv, AloneIsLatest, Goes
<1>4. AnswersLast'
  BY <1>1 DEF MembersIInv, AnswersLast, Goes, Invites
<1>5. ASSUME NEW k \in DOMAIN request, request[k].alone, Latest(k) PROVE Undisturbed(k)'
  <2>1. CASE k = n
    BY <1>5, <2>1
  <2>2. CASE k # n
    <3>1. request[n].email # request[k].email
      BY <1>1, <1>5, <2>2 DEF MembersIInv, AloneIsLatest, Latest, Goes
    <3>2. request[k].email \in Email
      BY DEF MembersIInv, MembersTyped, Request
    <3>3. Members!RowsOf(request[k].email)' = Members!RowsOf(request[k].email)
      BY <1>1, <2>2, <3>1, <3>2 DEF Goes
    <3>4. Undisturbed(k)
      BY <1>5 DEF MembersIInv, LatestIsUndisturbed
    <3>5. QED BY <1>1, <2>2, <3>3, <3>4 DEF Undisturbed, RoledNow
  <2>3. QED BY <2>1, <2>2
<1>6. \A k \in DOMAIN request : Latest(k)' => Latest(k)
  BY <1>1 DEF Latest
<1>7. LatestIsUndisturbed'
  BY <1>1, <1>5, <1>6 DEF LatestIsUndisturbed
<1>8. QED BY <1>2, <1>3, <1>4, <1>7

\* The first invitation of an address finds no user, if it is alone.
LEMMA FirstFindsNone ==
  ASSUME MembersIInv, NEW n \in DOMAIN request, request[n].alone, request[n].at \in {"user", "create"},
         \A m \in DOMAIN request : request[m].email = request[n].email /\ Invites(m) => m >= n
  PROVE  request[n].email \notin DOMAIN password
<1> SUFFICES ASSUME request[n].email \in DOMAIN password PROVE FALSE
  OBVIOUS
<1>1. PICK m \in DOMAIN request : /\ Invites(m) /\ request[m].email = request[n].email
                                  /\ request[m].at \notin {"user", "create"}
  BY DEF MembersIInv, UserWasInvited
<1>2. m >= n /\ m <= n /\ m \in Nat /\ n \in Nat
  BY <1>1 DEF MembersIInv, MembersTyped, AloneIsLatest
<1>3. QED BY <1>1, <1>2

\* No password is made: the step is one of a request that got on, or of one that has
\* a user, or it is a crash.
LEMMA PasswordsStay ==
  ASSUME MembersIInv, NEW n \in DOMAIN request, NEW r, Goes(n, r), UNCHANGED password,
         \/ request[n].at \notin {"user", "create"}
         \/ r.at = "create" \/ r.answer = "crash"
         \/ request[n].email \in DOMAIN password
  PROVE  InvitedHasUser' /\ UserWasInvited' /\ MakerWasFirst' /\ FirstIsMaker'
<1>1. /\ DOMAIN request' = DOMAIN request
      /\ request'[n] = r
      /\ \A m \in DOMAIN request : m # n => request'[m] = request[m]
      /\ \A m \in DOMAIN request : /\ request'[m].email = request[m].email /\ request'[m].op = request[m].op
                                   /\ request'[m].alone = request[m].alone
  BY GoesAlong DEF MembersIInv
<1>2. /\ \A m \in DOMAIN request : Invites(m)' = Invites(m)
      /\ \A m \in DOMAIN request : m # n => GotOn(m)' = GotOn(m)
  BY <1>1 DEF Invites, GotOn
<1>3. request[n].answer = "none"
  <2>1. request[n].answer \in {"none", "ok", "error", "404", "crash"}
    BY DEF MembersIInv, MembersTyped, Request
  <2>2. QED BY <2>1 DEF MembersIInv, AnswersLast, Goes
<1>4. GotOn(n)' => GotOn(n) \/ (request[n].at \in {"user", "create"} /\ request[n].email \in DOMAIN password)
  BY <1>1, <1>3 DEF GotOn
<1>5. InvitedHasUser'
  BY <1>1, <1>2, <1>4 DEF MembersIInv, InvitedHasUser
<1>6. UserWasInvited'
  <2> SUFFICES ASSUME NEW e \in DOMAIN password
               PROVE  \E m \in DOMAIN request : /\ password[e] = m /\ Invites(m)
                                                /\ request[m].email = e /\ request'[m].at \notin {"user", "create"}
    BY <1>1, <1>2 DEF UserWasInvited
  <2>1. PICK m \in DOMAIN request : /\ password[e] = m /\ Invites(m)
                                    /\ request[m].email = e /\ request[m].at \notin {"user", "create"}
    BY DEF MembersIInv, UserWasInvited
  <2>2. request'[m].at \notin {"user", "create"}
    BY <1>1, <2>1 DEF Goes
  <2>3. QED BY <2>1, <2>2
<1>7. MakerWasFirst'
  <2>1. \A m \in DOMAIN request : request[m].answer = "crash" => request'[m].answer = "crash"
    BY <1>1, <1>3
  <2>2. QED BY <1>1, <1>2, <2>1 DEF MembersIInv, MakerWasFirst
<1>8. FirstIsMaker'
  <2> SUFFICES ASSUME NEW k \in DOMAIN request, request[k].alone, Invites(k), GotOn(k)',
                      \A m \in DOMAIN request : request[m].email = request[k].email /\ Invites(m) => m >= k
               PROVE  request[k].email \in DOMAIN password /\ password[request[k].email] = k
    BY <1>1, <1>2 DEF FirstIsMaker
  <2>1. CASE GotOn(k)
    BY <2>1 DEF MembersIInv, FirstIsMaker
  <2>2. CASE ~GotOn(k)
    <3>1. k = n /\ request[n].at \in {"user", "create"} /\ request[n].email \in DOMAIN password
      BY <1>2, <1>4, <2>2
    <3>2. QED BY <3>1, FirstFindsNone
  <2>3. QED BY <2>1, <2>2
<1>9. QED BY <1>5, <1>6, <1>7, <1>8

LEMMA AnswerGoes ==
  ASSUME MembersTyped, NEW n \in DOMAIN request, request[n].at # "end",
         NEW a \in {"ok", "error", "404", "crash"}, Members!Answer(n, a)
  PROVE  \E r \in Request : Goes(n, r) /\ r.at = "end" /\ r.answer = a
<1>1. PICK q \in Request : q = request[n]
  BY DEF MembersTyped
<1> DEFINE r == [q EXCEPT !.at = "end", !.answer = a]
<1>2. request' = [request EXCEPT ![n] = r]
  BY <1>1 DEF Members!Answer
<1>3. r \in Request /\ r.at = "end" /\ r.answer = a
  BY DEF Request
<1>4. r.op = q.op /\ r.email = q.email /\ r.role = q.role /\ r.alone = q.alone
  BY DEF Request
<1> HIDE DEF r
<1>5. QED BY <1>1, <1>2, <1>3, <1>4 DEF Goes

LEMMA GotoGoes ==
  ASSUME MembersIInv, NEW n \in DOMAIN request, request[n].at # "end",
         NEW at2 \in {"create", "look", "write", "reread"}, at2 = "create" => request[n].at = "user",
         Members!Goto(n, at2)
  PROVE  \E r \in Request : Goes(n, r) /\ r.at = at2 /\ r.found = request[n].found
<1>1. PICK q \in Request : q = request[n]
  BY DEF MembersIInv, MembersTyped
<1> DEFINE r == [q EXCEPT !.at = at2]
<1>2. request' = [request EXCEPT ![n] = r]
  BY <1>1 DEF Members!Goto
<1>3. r \in Request /\ r.at = at2 /\ r.found = q.found
  BY DEF Request
<1>4. r.op = q.op /\ r.email = q.email /\ r.role = q.role /\ r.alone = q.alone /\ r.answer = q.answer
  BY DEF Request
<1> HIDE DEF r
<1>5. r.answer = "none"
  <2>1. q.answer \in {"none", "ok", "error", "404", "crash"}
    BY DEF Request
  <2>2. QED BY <1>1, <1>4, <2>1 DEF MembersIInv, AnswersLast
<1>6. QED BY <1>1, <1>2, <1>3, <1>4, <1>5 DEF Goes

LEMMA RowIs ==
  /\ \A e : Members!RowsOf(e) = IF e \in DOMAIN member THEN {member[e]} ELSE {}
  /\ \A e : Members!RowsOf(e)' = IF e \in DOMAIN member' THEN {member'[e]} ELSE {}
<1>1. ASSUME NEW e PROVE Members!RowsOf(e) = IF e \in DOMAIN member THEN {member[e]} ELSE {}
  BY DEF Members!RowsOf
<1>2. ASSUME NEW e PROVE Members!RowsOf(e)' = IF e \in DOMAIN member' THEN {member'[e]} ELSE {}
  BY DEF Members!RowsOf
<1>3. QED BY <1>1, <1>2

LEMMA MembersCount == ASSUME NEW k \in Nat PROVE Members!Cardinality(1..k) = k
<1>1. Members!Cardinality(1..k) = Cardinality(1..k)
  BY Zenon DEF Members!Cardinality, Cardinality, Members!IsFiniteSet, IsFiniteSet
<1>2. QED BY <1>1, FS_Interval, SMT

LEMMA MembersSendInv ==
  ASSUME MembersIInv, NEW a \in Asked, Members!Send(a) PROVE MembersIInv'
<1>1. PICK k \in Nat : DOMAIN request = 1..k
  BY DEF MembersIInv, MembersTyped
<1> DEFINE n == k + 1
           others == {m \in DOMAIN request : request[m].email = a.email /\ request[m].at # "end"}
           q == [op |-> a.op, email |-> a.email, role |-> a.role, found |-> {}, answer |-> "none",
                 at |-> IF a.op = "invite" THEN "user" ELSE "look", alone |-> others = {}]
           old == [m \in DOMAIN request |-> [request[m] EXCEPT !.alone = request[m].alone /\ m \notin others]]
<1>2. /\ request' = Members!With(old, n, q)
      /\ before' = Members!With(before, n, Members!RowsOf(a.email))
      /\ UNCHANGED <<password, member, rowsMade>>
  BY <1>1, MembersCount DEF Members!Send
<1>3. a.op \in {"invite", "role", "remove"} /\ a.email \in Email /\ a.role \in STRING
  BY ApiAssumption DEF Members!MembershipAssumption
<1>4. q \in Request
  BY <1>3 DEF Request
<1>5. /\ q.op = a.op /\ q.email = a.email /\ q.answer = "none" /\ q.alone = (others = {})
      /\ q.at \in {"user", "look"} /\ (q.at = "user" => q.op = "invite")
  OBVIOUS
<1>6. ASSUME NEW m \in DOMAIN request
      PROVE  /\ old[m] \in Request
             /\ old[m].alone = (request[m].alone /\ m \notin others)
             /\ old[m].email = request[m].email /\ old[m].op = request[m].op /\ old[m].role = request[m].role
             /\ old[m].at = request[m].at /\ old[m].answer = request[m].answer /\ old[m].found = request[m].found
  <2>1. PICK r \in Request : r = request[m]
    BY DEF MembersIInv, MembersTyped
  <2> DEFINE w == [r EXCEPT !.alone = r.alone /\ m \notin others]
  <2>2. old[m] = w
    BY <2>1
  <2>3. w \in Request
    <3>1. (r.alone /\ m \notin others) \in BOOLEAN
      OBVIOUS
    <3> HIDE DEF others
    <3>2. QED BY <3>1 DEF Request
  <2>4. /\ w.alone = (r.alone /\ m \notin others)
        /\ w.email = r.email /\ w.op = r.op /\ w.role = r.role
        /\ w.at = r.at /\ w.answer = r.answer /\ w.found = r.found
    <3> HIDE DEF others
    <3>1. QED BY DEF Request
  <2> HIDE DEF w, old, others
  <2>5. QED BY <2>1, <2>2, <2>3, <2>4
<1>7. DOMAIN old = DOMAIN request
  OBVIOUS
<1>8. \A m \in others : request[m].email = a.email /\ request[m].at # "end"
  OBVIOUS
<1>9. \A m \in DOMAIN request : m \in others \/ request[m].email # a.email \/ request[m].at = "end"
  OBVIOUS
<1> HIDE DEF old, q, others
<1>10. DOMAIN request' = DOMAIN request \cup {n} /\ n \notin DOMAIN request /\ n \in Nat
  BY <1>1, <1>2, <1>7 DEF Members!With
<1>11. request'[n] = q /\ \A m \in DOMAIN request : request'[m] = old[m]
  BY <1>2, <1>7, <1>10 DEF Members!With
<1>12. DOMAIN before = DOMAIN request
  BY DEF MembersIInv, MembersTyped
<1>13. /\ DOMAIN before' = DOMAIN request' /\ before'[n] = Members!RowsOf(a.email)
       /\ \A m \in DOMAIN request : before'[m] = before[m]
  BY <1>2, <1>10, <1>12 DEF Members!With
<1>14. \A m \in DOMAIN request : m < n /\ m \in Nat
  BY <1>1
<1> HIDE DEF n
<1>15. \A e : Members!RowsOf(e)' = Members!RowsOf(e)
  BY <1>2 DEF Members!RowsOf
<1>a. \A m \in DOMAIN request : /\ request'[m].email = request[m].email /\ request'[m].op = request[m].op
                                /\ request'[m].at = request[m].at /\ request'[m].answer = request[m].answer
  BY <1>6, <1>11
<1>b. \A m \in DOMAIN request : request'[m].alone => request[m].alone /\ m \notin others
  <2>1. ASSUME NEW m \in DOMAIN request, request'[m].alone PROVE request[m].alone /\ m \notin others
    <3>1. request'[m].alone = (request[m].alone /\ m \notin others)
      BY <1>6, <1>11
    <3>2. QED BY <2>1, <3>1
  <2>2. QED BY <2>1
<1>c. request'[n].email = a.email /\ (request'[n].alone => others = {})
  BY <1>5, <1>11
<1>16. MembersTyped'
  <2>1. DOMAIN request' = 1..(k + 1)
    BY <1>1, <1>10 DEF n
  <2>2. \A m \in DOMAIN request' : request'[m] \in Request
    BY <1>4, <1>6, <1>10, <1>11
  <2>3. request' = [m \in DOMAIN request' |-> request'[m]]
    BY <1>2 DEF Members!With
  <2>4. request' \in [DOMAIN request' -> Request]
    BY <2>2, <2>3
  <2>5. QED BY <1>2, <1>13, <2>1, <2>4 DEF MembersIInv, MembersTyped
<1>17. AloneIsLatest'
  <2> SUFFICES ASSUME NEW x \in DOMAIN request', NEW y \in DOMAIN request',
                      request'[x].alone, request'[y].email = request'[x].email
               PROVE  /\ y < x => request'[y].at = "end"
                      /\ request'[x].at # "end" => y <= x
    BY DEF AloneIsLatest
  <2>1. CASE x \in DOMAIN request /\ y \in DOMAIN request
    <3>1. request[x].alone /\ request[y].email = request[x].email
      BY <1>a, <1>b, <2>1
    <3>2. /\ y < x => request[y].at = "end"
          /\ request[x].at # "end" => y <= x
      BY <2>1, <3>1 DEF MembersIInv, AloneIsLatest
    <3>3. y < x => request'[y].at = "end"
      BY <1>a, <2>1, <3>2
    <3>4. request'[x].at # "end" => y <= x
      BY <1>a, <2>1, <3>2
    <3>5. QED BY <3>3, <3>4
  <2>2. CASE x \in DOMAIN request /\ y = n
    BY <1>a, <1>b, <1>c, <1>9, <1>10, <1>14, <2>2
  <2>3. CASE x = n /\ y \in DOMAIN request
    BY <1>a, <1>b, <1>c, <1>9, <1>10, <1>14, <2>3
  <2>4. CASE x = n /\ y = n
    BY <1>10, <2>4
  <2>5. QED BY <1>10, <2>1, <2>2, <2>3, <2>4
<1>18. LatestIsUndisturbed'
  <2> SUFFICES ASSUME NEW x \in DOMAIN request', request'[x].alone, Latest(x)' PROVE Undisturbed(x)'
    BY DEF LatestIsUndisturbed
  <2>1. CASE x \in DOMAIN request
    <3>1. request[x].alone /\ Latest(x)
      BY <1>a, <1>b, <1>10, <2>1 DEF Latest
    <3>2. Undisturbed(x)
      BY <2>1, <3>1 DEF MembersIInv, LatestIsUndisturbed
    <3>3. QED BY <1>6, <1>11, <1>13, <1>15, <2>1, <3>2 DEF Undisturbed, RoledNow
  <2>2. CASE x = n
    BY <1>5, <1>11, <1>13, <1>15, <2>2 DEF Undisturbed
  <2>3. QED BY <1>10, <2>1, <2>2
<1>19. AnswersLast'
  BY <1>5, <1>6, <1>10, <1>11 DEF MembersIInv, AnswersLast, Invites
<1>20. /\ \A m \in DOMAIN request : Invites(m)' = Invites(m) /\ GotOn(m)' = GotOn(m)
       /\ ~(GotOn(n)' /\ Invites(n)')
  <2>1. \A m \in DOMAIN request : Invites(m)' = Invites(m) /\ GotOn(m)' = GotOn(m)
    BY <1>6, <1>11 DEF Invites, GotOn
  <2>2. ~(GotOn(n)' /\ Invites(n)')
    BY <1>11 DEF Invites, GotOn, q
  <2>3. QED BY <2>1, <2>2
<1>21. InvitedHasUser'
  BY <1>2, <1>6, <1>10, <1>11, <1>20 DEF MembersIInv, InvitedHasUser
<1>22. UserWasInvited'
  <2> SUFFICES ASSUME NEW e \in DOMAIN password
               PROVE  \E m \in DOMAIN request' : /\ password[e] = m /\ Invites(m)'
                                                 /\ request'[m].email = e /\ request'[m].at \notin {"user", "create"}
    BY <1>2 DEF UserWasInvited
  <2>1. PICK m \in DOMAIN request : /\ password[e] = m /\ Invites(m)
                                    /\ request[m].email = e /\ request[m].at \notin {"user", "create"}
    BY DEF MembersIInv, UserWasInvited
  <2>2. QED BY <1>6, <1>10, <1>11, <1>20, <2>1
<1>23. MakerWasFirst'
  <2> SUFFICES ASSUME NEW x \in DOMAIN request', NEW m \in DOMAIN request',
                      request'[x].alone, request'[x].email \in DOMAIN password, password[request'[x].email] = x,
                      Invites(m)', request'[m].email = request'[x].email, m < x
               PROVE  request'[m].answer = "crash"
    BY <1>2 DEF MakerWasFirst
  <2>1. x \in DOMAIN request
    BY <1>10 DEF MembersIInv, UserWasInvited
  <2>2. m \in DOMAIN request
    BY <1>10, <1>14, <2>1
  <2>3. QED BY <1>a, <1>b, <1>20, <2>1, <2>2 DEF MembersIInv, MakerWasFirst
<1>24. FirstIsMaker'
  <2> SUFFICES ASSUME NEW x \in DOMAIN request', request'[x].alone, Invites(x)', GotOn(x)',
                      \A m \in DOMAIN request' : request'[m].email = request'[x].email /\ Invites(m)' => m >= x
               PROVE  request'[x].email \in DOMAIN password /\ password[request'[x].email] = x
    BY <1>2 DEF FirstIsMaker
  <2>1. x \in DOMAIN request
    BY <1>10, <1>20
  <2>2. \A m \in DOMAIN request : request[m].email = request[x].email /\ Invites(m) => m >= x
    BY <1>6, <1>10, <1>11, <1>20, <2>1
  <2>3. QED BY <1>a, <1>b, <1>20, <2>1, <2>2 DEF MembersIInv, FirstIsMaker
<1>25. QED BY <1>16, <1>17, <1>18, <1>19, <1>21, <1>22, <1>23, <1>24 DEF MembersIInv

\* A step that touches neither members nor passwords.
LEMMA MembersRest ==
  ASSUME MembersIInv, NEW n \in DOMAIN request, NEW r, Goes(n, r),
         UNCHANGED <<password, member, rowsMade, before>>,
         \/ request[n].at \notin {"user", "create"}
         \/ r.at = "create" \/ r.answer = "crash"
         \/ request[n].email \in DOMAIN password,
         request[n].alone /\ Latest(n) => Undisturbed(n)'
  PROVE  MembersIInv'
<1>1. member' \in [DOMAIN member' -> Membership] /\ rowsMade' \in Nat
  BY DEF MembersIInv, MembersTyped
<1>2. \A e \in Email : Members!RowsOf(e)' = Members!RowsOf(e)
  BY DEF Members!RowsOf
<1>3. MembersTyped' /\ AloneIsLatest' /\ LatestIsUndisturbed' /\ AnswersLast'
  BY <1>1, <1>2, MembersGoOn
<1>4. InvitedHasUser' /\ UserWasInvited' /\ MakerWasFirst' /\ FirstIsMaker'
  BY PasswordsStay
<1>5. QED BY <1>3, <1>4 DEF MembersIInv

LEMMA MembersFindUser ==
  ASSUME MembersIInv, NEW n \in Nat, Members!FindUser(n) PROVE MembersIInv'
<1> DEFINE to == IF request[n].email \in DOMAIN password THEN "look" ELSE "create"
<1>1. /\ n \in DOMAIN request /\ request[n].at = "user" /\ Members!Goto(n, to)
      /\ UNCHANGED <<password, member, rowsMade, before>>
  BY DEF Members!FindUser, Members!At
<1>2. PICK r \in Request : Goes(n, r) /\ r.at = to
  <2>1. to \in {"create", "look", "write", "reread"}
    OBVIOUS
  <2> HIDE DEF to
  <2>2. QED BY <1>1, <2>1, GotoGoes
<1>3. ASSUME request[n].alone, Latest(n) PROVE Undisturbed(n)'
  <2>1. Members!RowsOf(request[n].email) = before[n]
    BY <1>1, <1>3 DEF MembersIInv, LatestIsUndisturbed, Undisturbed
  <2>2. request'[n] = r /\ r.email = request[n].email
    BY <1>1, <1>2, GoesAlong DEF MembersIInv, Goes
  <2>3. Members!RowsOf(r.email)' = Members!RowsOf(r.email)
    BY <1>1 DEF Members!RowsOf
  <2>4. Members!RowsOf(request[n].email)' = before'[n]
    BY <1>1, <2>1, <2>2, <2>3
  <2>5. QED BY <1>2, <2>2, <2>4 DEF Undisturbed
<1>4. r.at = "create" \/ request[n].email \in DOMAIN password
  BY <1>2
<1>5. QED BY <1>1, <1>2, <1>3, <1>4, MembersRest

LEMMA MembersCrash ==
  ASSUME MembersIInv, NEW n \in Nat, Members!Crash(n) PROVE MembersIInv'
<1>1. /\ n \in DOMAIN request /\ request[n].at # "end" /\ Members!Answer(n, "crash")
      /\ UNCHANGED <<password, member, rowsMade, before>>
  BY DEF Members!Crash
<1>2. PICK r \in Request : Goes(n, r) /\ r.at = "end" /\ r.answer = "crash"
  BY <1>1, AnswerGoes DEF MembersIInv
<1>3. request'[n] = r
  BY <1>1, <1>2, GoesAlong DEF MembersIInv
<1>4. Undisturbed(n)'
  BY <1>2, <1>3 DEF Undisturbed
<1>5. QED BY <1>1, <1>2, <1>4, MembersRest

LEMMA MembersReread ==
  ASSUME MembersIInv, NEW n \in Nat, Members!Reread(n) PROVE MembersIInv'
<1> DEFINE a == IF Members!RowsOf(request[n].email) = {} THEN "404" ELSE "ok"
<1>1. /\ n \in DOMAIN request /\ request[n].at = "reread" /\ Members!Answer(n, a)
      /\ UNCHANGED <<password, member, rowsMade, before>>
  BY DEF Members!Reread, Members!At
<1>2. PICK r \in Request : Goes(n, r) /\ r.at = "end" /\ r.answer = a
  <2>1. a \in {"ok", "error", "404", "crash"}
    OBVIOUS
  <2> HIDE DEF a
  <2>2. QED BY <1>1, <2>1, AnswerGoes DEF MembersIInv
<1>3. request'[n] = r /\ r.email = request[n].email /\ r.role = request[n].role /\ r.op = request[n].op
  BY <1>1, <1>2, GoesAlong DEF MembersIInv, Goes
<1>4. ASSUME request[n].alone, Latest(n) PROVE Undisturbed(n)'
  <2>1. request[n].op # "remove" /\ RoledNow(request[n].email) = {request[n].role}
    BY <1>1, <1>4 DEF MembersIInv, LatestIsUndisturbed, Undisturbed
  <2>2. Members!RowsOf(request[n].email) # {}
    BY <2>1 DEF RoledNow
  <2>3. RoledNow(request[n].email)' = RoledNow(request[n].email)
    BY <1>1, <1>3 DEF RoledNow, Members!RowsOf
  <2>4. QED BY <1>2, <1>3, <2>1, <2>2, <2>3 DEF Undisturbed
<1>5. QED BY <1>1, <1>2, <1>4, MembersRest

LEMMA MembersLook ==
  ASSUME MembersIInv, NEW n \in Nat, Members!Look(n) PROVE MembersIInv'
<1> DEFINE e == request[n].email
<1>1. /\ n \in DOMAIN request /\ request[n].at = "look"
      /\ UNCHANGED <<password, member, rowsMade, before>>
  BY DEF Members!Look, Members!At
<1>2. \A x : Members!RowsOf(x)' = Members!RowsOf(x)
  BY <1>1 DEF Members!RowsOf
<1>3. ASSUME NEW a \in {"error", "404"}, Members!Answer(n, a) PROVE MembersIInv'
  <2>1. PICK r \in Request : Goes(n, r) /\ r.at = "end" /\ r.answer = a
    BY <1>1, <1>3, AnswerGoes DEF MembersIInv
  <2>2. request'[n] = r /\ r.email = request[n].email
    BY <1>1, <2>1, GoesAlong DEF MembersIInv, Goes
  <2>3. ASSUME request[n].alone, Latest(n) PROVE Undisturbed(n)'
    <3>1. Members!RowsOf(e) = before[n]
      BY <1>1, <2>3 DEF MembersIInv, LatestIsUndisturbed, Undisturbed
    <3>3. e' = e
      BY <2>2
    <3>2. Members!RowsOf(e)' = before'[n]
      BY <1>1, <1>2, <3>1, <3>3
    <3>4. QED BY <1>3, <2>1, <2>2, <3>2, <3>3 DEF Undisturbed
  <2>4. QED BY <1>1, <2>1, <2>3, MembersRest
<1>4. ASSUME request' = [request EXCEPT ![n].at = "write", ![n].found = Members!RowsOf(e)],
             request[n].op = "remove" => Members!RowsOf(e) # {}
      PROVE  MembersIInv'
  <2>1. PICK q \in Request : q = request[n]
    BY <1>1 DEF MembersIInv, MembersTyped
  <2> DEFINE r == [q EXCEPT !.at = "write", !.found = Members!RowsOf(e)]
  <2>2. request' = [request EXCEPT ![n] = r]
    BY <1>4, <2>1
  <2>3. Members!RowsOf(e) \in SUBSET Membership
    BY RowIs DEF MembersIInv, MembersTyped
  <2>4. r \in Request /\ r.at = "write" /\ r.found = Members!RowsOf(e)
    BY <2>3 DEF Request
  <2>5. r.op = q.op /\ r.email = q.email /\ r.role = q.role /\ r.alone = q.alone /\ r.answer = q.answer
    BY DEF Request
  <2> HIDE DEF r
  <2>6. r.answer = "none"
    <3>1. q.answer \in {"none", "ok", "error", "404", "crash"}
      BY DEF Request
    <3>2. QED BY <1>1, <2>1, <2>5, <3>1 DEF MembersIInv, AnswersLast
  <2>7. Goes(n, r)
    BY <1>1, <2>1, <2>2, <2>4, <2>5, <2>6 DEF Goes
  <2>8. request'[n] = r
    BY <1>1, <2>7, GoesAlong DEF MembersIInv
  <2>9. ASSUME request[n].alone, Latest(n) PROVE Undisturbed(n)'
    <3>1. Members!RowsOf(e) = before[n]
      BY <1>1, <2>9 DEF MembersIInv, LatestIsUndisturbed, Undisturbed
    <3>3. e' = e
      BY <2>1, <2>5, <2>8
    <3>2. Members!RowsOf(e)' = before'[n] /\ before' = before
      BY <1>1, <1>2, <3>1, <3>3
    <3>4. QED BY <1>4, <2>1, <2>4, <2>5, <2>8, <3>1, <3>2, <3>3 DEF Undisturbed
  <2>10. QED BY <1>1, <2>7, <2>9, MembersRest
<1>5. QED BY <1>3, <1>4 DEF Members!Look

\* What a request writes: the row of one address.
LEMMA MembersWrite ==
  ASSUME MembersIInv, NEW n \in DOMAIN request, NEW r, Goes(n, r),
         UNCHANGED <<password, before>>, member' \in [DOMAIN member' -> Membership], rowsMade' \in Nat,
         \A e \in Email : e # r.email => Members!RowsOf(e)' = Members!RowsOf(e),
         request[n].at \notin {"user", "create"},
         request[n].alone /\ Latest(n) => Undisturbed(n)'
  PROVE  MembersIInv'
<1>1. MembersTyped' /\ AloneIsLatest' /\ LatestIsUndisturbed' /\ AnswersLast'
  BY MembersGoOn
<1>2. InvitedHasUser' /\ UserWasInvited' /\ MakerWasFirst' /\ FirstIsMaker'
  BY PasswordsStay
<1>3. QED BY <1>1, <1>2 DEF MembersIInv

LEMMA MembersInsert ==
  ASSUME MembersIInv, NEW n \in Nat, Members!Insert(n) PROVE MembersIInv'
<1>1. /\ n \in DOMAIN request /\ request[n].at = "write" /\ request[n].op # "remove" /\ request[n].found = {}
      /\ UNCHANGED <<password, before>>
  BY DEF Members!Insert, Members!At
<1>2. PICK e \in Email : e = request[n].email
  BY <1>1 DEF MembersIInv, MembersTyped, Request
<1>3. request[n].role \in STRING /\ member \in [DOMAIN member -> Membership] /\ rowsMade \in Nat
  BY <1>1 DEF MembersIInv, MembersTyped, Request
<1>4. ASSUME request[n].alone, Latest(n) PROVE Members!RowsOf(e) = before[n]
  BY <1>1, <1>2, <1>4 DEF MembersIInv, LatestIsUndisturbed, Undisturbed
<1>5. CASE Members!Answer(n, "error") /\ UNCHANGED <<member, rowsMade>>
  <2>1. PICK r \in Request : Goes(n, r) /\ r.at = "end" /\ r.answer = "error"
    BY <1>1, <1>5, AnswerGoes DEF MembersIInv
  <2>2. request'[n] = r /\ r.email = e
    BY <1>1, <1>2, <2>1, GoesAlong DEF MembersIInv, Goes
  <2>3. Members!RowsOf(e)' = Members!RowsOf(e)
    BY <1>5 DEF Members!RowsOf
  <2>4. ASSUME request[n].alone, Latest(n) PROVE Undisturbed(n)'
    <3>1. Members!RowsOf(e)' = before'[n]
      BY <1>1, <1>4, <2>3, <2>4
    <3>2. QED BY <2>1, <2>2, <3>1 DEF Undisturbed
  <2>5. QED BY <1>1, <1>5, <2>1, <2>4, MembersRest
<1>6. CASE /\ member' = Members!With(member, e, [row |-> rowsMade + 1, role |-> request[n].role])
           /\ rowsMade' = rowsMade + 1
           /\ IF request[n].op = "invite" THEN Members!Answer(n, "ok") ELSE Members!Goto(n, "reread")
  <2>1. PICK r \in Request : /\ Goes(n, r)
                             /\ (r.at = "end" /\ r.answer = "ok") \/ r.at = "reread"
    <3>1. CASE Members!Answer(n, "ok")
      BY <1>1, <3>1, AnswerGoes DEF MembersIInv
    <3>2. CASE Members!Goto(n, "reread")
      BY <1>1, <3>2, GotoGoes
    <3>3. QED BY <1>6, <3>1, <3>2
  <2>2. request'[n] = r /\ r.email = e /\ r.op = request[n].op /\ r.role = request[n].role
    BY <1>1, <1>2, <2>1, GoesAlong DEF MembersIInv, Goes
  <2>3. PICK w \in Membership : w = [row |-> rowsMade + 1, role |-> request[n].role] /\ w.role = request[n].role
    <3>1. rowsMade + 1 \in Nat
      BY <1>3
    <3>2. [row |-> rowsMade + 1, role |-> request[n].role] \in Membership
      BY <1>3, <3>1 DEF Membership
    <3>3. QED BY <3>2
  <2>4. member' = [x \in DOMAIN member \cup {e} |-> IF x = e THEN w ELSE member[x]]
    BY <1>6, <2>3 DEF Members!With
  <2>5. member' \in [DOMAIN member' -> Membership] /\ rowsMade' \in Nat
    BY <1>3, <1>6, <2>4
  <2>6. \A x \in Email : x # e => Members!RowsOf(x)' = Members!RowsOf(x)
    BY <2>4, RowIs
  <2>7. RoledNow(e)' = {request[n].role}
    BY <2>3, <2>4, RowIs DEF RoledNow
  <2>8. Undisturbed(n)'
    BY <1>1, <2>1, <2>2, <2>7 DEF Undisturbed
  <2>9. QED BY <1>1, <2>1, <2>2, <2>5, <2>6, <2>8, MembersWrite
<1>7. QED BY <1>2, <1>5, <1>6 DEF Members!Insert

LEMMA MembersUpdate ==
  ASSUME MembersIInv, NEW n \in Nat, Members!Update(n) PROVE MembersIInv'
<1> DEFINE same == \A x \in request[n].found : x.role = request[n].role
<1>1. /\ n \in DOMAIN request /\ request[n].at = "write" /\ request[n].op # "remove" /\ request[n].found # {}
      /\ UNCHANGED <<password, before, rowsMade>>
  BY DEF Members!Update, Members!At
<1>2. PICK e \in Email : e = request[n].email
  BY <1>1 DEF MembersIInv, MembersTyped, Request
<1>3. request[n].role \in STRING /\ member \in [DOMAIN member -> Membership] /\ rowsMade \in Nat
  BY <1>1 DEF MembersIInv, MembersTyped, Request
<1>4. ASSUME request[n].alone, Latest(n)
      PROVE  /\ Members!RowsOf(e) = before[n] /\ request[n].found = Members!RowsOf(e)
             /\ e \in DOMAIN member /\ request[n].found = {member[e]}
  <2>1. Members!RowsOf(e) = before[n] /\ request[n].found = Members!RowsOf(e)
    BY <1>1, <1>2, <1>4 DEF MembersIInv, LatestIsUndisturbed, Undisturbed
  <2>2. QED BY <1>1, <2>1, RowIs
<1>5. CASE ~same /\ Members!Kept(n) = {} /\ Members!Answer(n, "error") /\ UNCHANGED member
  <2>1. PICK r \in Request : Goes(n, r) /\ r.at = "end" /\ r.answer = "error"
    BY <1>1, <1>5, AnswerGoes DEF MembersIInv
  <2>2. request'[n] = r /\ r.email = e
    BY <1>1, <1>2, <2>1, GoesAlong DEF MembersIInv, Goes
  <2>3. Members!RowsOf(e)' = Members!RowsOf(e)
    BY <1>5 DEF Members!RowsOf
  <2>4. ASSUME request[n].alone, Latest(n) PROVE Undisturbed(n)'
    <3>1. Members!RowsOf(e)' = before'[n]
      BY <1>1, <1>4, <2>3, <2>4
    <3>2. QED BY <2>1, <2>2, <3>1 DEF Undisturbed
  <2>5. QED BY <1>1, <1>5, <2>1, <2>4, MembersRest
<1>6. CASE /\ same \/ Members!Kept(n) # {}
           /\ member' = IF same THEN member ELSE [member EXCEPT ![e].role = request[n].role]
           /\ IF request[n].op = "invite" THEN Members!Answer(n, "ok") ELSE Members!Goto(n, "reread")
  <2>1. PICK r \in Request : /\ Goes(n, r)
                             /\ (r.at = "end" /\ r.answer = "ok") \/ r.at = "reread"
    <3>1. CASE Members!Answer(n, "ok")
      BY <1>1, <3>1, AnswerGoes DEF MembersIInv
    <3>2. CASE Members!Goto(n, "reread")
      BY <1>1, <3>2, GotoGoes
    <3>3. QED BY <1>6, <3>1, <3>2
  <2>2. request'[n] = r /\ r.email = e /\ r.op = request[n].op /\ r.role = request[n].role
    BY <1>1, <1>2, <2>1, GoesAlong DEF MembersIInv, Goes
  <2>3. CASE same
    <3>1. member' = member /\ rowsMade' \in Nat /\ member' \in [DOMAIN member' -> Membership]
      BY <1>1, <1>3, <1>6, <2>3
    <3>2. \A x : Members!RowsOf(x)' = Members!RowsOf(x)
      BY <3>1 DEF Members!RowsOf
    <3>3. ASSUME request[n].alone, Latest(n) PROVE Undisturbed(n)'
      <4>1. RoledNow(e) = {request[n].role}
        BY <1>4, <2>3, <3>3 DEF RoledNow
      <4>2. RoledNow(e)' = {request[n].role}
        BY <3>2, <4>1 DEF RoledNow
      <4>3. QED BY <1>1, <2>1, <2>2, <4>2 DEF Undisturbed
    <3>4. QED BY <1>1, <2>1, <3>1, <3>2, <3>3, MembersWrite
  <2>4. CASE ~same
    <3>1. e \in DOMAIN member
      BY <1>2, <1>6, <2>4, RowIs DEF Members!Kept
    <3>2. PICK q \in Membership : q = member[e]
      BY <1>3, <3>1
    <3> DEFINE w == [q EXCEPT !.role = request[n].role]
    <3>3. member' = [member EXCEPT ![e] = w]
      BY <1>6, <2>4, <3>2
    <3>4. w \in Membership /\ w.role = request[n].role
      BY <1>3 DEF Membership
    <3> HIDE DEF w, same
    <3>5. member' \in [DOMAIN member' -> Membership] /\ rowsMade' \in Nat
      BY <1>1, <1>3, <3>3, <3>4
    <3>6. \A x \in Email : x # e => Members!RowsOf(x)' = Members!RowsOf(x)
      BY <1>3, <3>3, RowIs
    <3>7. RoledNow(e)' = {request[n].role}
      BY <1>3, <3>1, <3>3, <3>4, RowIs DEF RoledNow
    <3>8. Undisturbed(n)'
      BY <1>1, <2>1, <2>2, <3>7 DEF Undisturbed
    <3>9. QED BY <1>1, <2>1, <2>2, <3>5, <3>6, <3>8, MembersWrite
  <2>5. QED BY <2>3, <2>4
<1>7. QED BY <1>2, <1>5, <1>6 DEF Members!Update

LEMMA MembersDelete ==
  ASSUME MembersIInv, NEW n \in Nat, Members!Delete(n) PROVE MembersIInv'
<1>1. /\ n \in DOMAIN request /\ request[n].at = "write" /\ request[n].op = "remove"
      /\ Members!Answer(n, "ok") /\ UNCHANGED <<password, before, rowsMade>>
  BY DEF Members!Delete, Members!At
<1>2. PICK e \in Email : e = request[n].email
  BY <1>1 DEF MembersIInv, MembersTyped, Request
<1>3. member \in [DOMAIN member -> Membership] /\ rowsMade \in Nat
  BY DEF MembersIInv, MembersTyped
<1>4. PICK r \in Request : Goes(n, r) /\ r.at = "end" /\ r.answer = "ok"
  BY <1>1, AnswerGoes DEF MembersIInv
<1>5. request'[n] = r /\ r.email = e /\ r.op = "remove"
  BY <1>1, <1>2, <1>4, GoesAlong DEF MembersIInv, Goes
<1>6. member' = member \/ member' = [x \in DOMAIN member \ {e} |-> member[x]]
  <2>1. DOMAIN member \cap (DOMAIN member \ {e}) = DOMAIN member \ {e}
    OBVIOUS
  <2>2. QED BY <1>2, <2>1 DEF Members!Delete, Members!Restrict
<1>7. member' \in [DOMAIN member' -> Membership] /\ rowsMade' \in Nat
  BY <1>1, <1>3, <1>6
<1>8. \A x \in Email : x # e => Members!RowsOf(x)' = Members!RowsOf(x)
  BY <1>6, RowIs
<1>9. ASSUME request[n].alone, Latest(n) PROVE Undisturbed(n)'
  <2>1. request[n].found = Members!RowsOf(e) /\ request[n].found # {}
    BY <1>1, <1>2, <1>9 DEF MembersIInv, LatestIsUndisturbed, Undisturbed
  <2>2. Members!Kept(n) # {}
    BY <1>2, <2>1, RowIs DEF Members!Kept
  <2>3. member' = [x \in DOMAIN member \ {e} |-> member[x]]
    BY <1>2, <2>2 DEF Members!Delete, Members!Restrict
  <2>4. Members!RowsOf(e)' = {}
    BY <2>3, RowIs
  <2>5. RoledNow(e)' = {}
    BY <2>4 DEF RoledNow
  <2>6. QED BY <1>4, <1>5, <2>5 DEF Undisturbed
<1>10. QED BY <1>1, <1>4, <1>5, <1>7, <1>8, <1>9, MembersWrite

LEMMA MembersCreateUser ==
  ASSUME MembersIInv, NEW n \in Nat, Members!CreateUser(n) PROVE MembersIInv'
<1>1. n \in DOMAIN request /\ request[n].at = "create" /\ UNCHANGED <<member, rowsMade, before>>
  BY DEF Members!CreateUser, Members!At
<1>2. PICK e \in Email : e = request[n].email
  BY <1>1 DEF MembersIInv, MembersTyped, Request
<1>3. \A x : Members!RowsOf(x)' = Members!RowsOf(x)
  BY <1>1 DEF Members!RowsOf
<1>4. ASSUME request[n].alone, Latest(n) PROVE Members!RowsOf(e) = before[n]
  BY <1>1, <1>2, <1>4 DEF MembersIInv, LatestIsUndisturbed, Undisturbed
<1>5. CASE e \in DOMAIN password /\ Members!Answer(n, "error") /\ UNCHANGED password
  <2>1. PICK r \in Request : Goes(n, r) /\ r.at = "end" /\ r.answer = "error"
    BY <1>1, <1>5, AnswerGoes DEF MembersIInv
  <2>2. request'[n] = r /\ r.email = e
    BY <1>1, <1>2, <2>1, GoesAlong DEF MembersIInv, Goes
  <2>3. ASSUME request[n].alone, Latest(n) PROVE Undisturbed(n)'
    <3>1. Members!RowsOf(e)' = before'[n]
      BY <1>1, <1>3, <1>4, <2>3
    <3>2. QED BY <2>1, <2>2, <3>1 DEF Undisturbed
  <2>4. QED BY <1>1, <1>2, <1>5, <2>1, <2>3, MembersRest
<1>6. CASE e \notin DOMAIN password /\ Members!Goto(n, "look") /\ password' = Members!With(password, e, n)
  <2>1. PICK r \in Request : Goes(n, r) /\ r.at = "look"
    BY <1>1, <1>6, GotoGoes
  <2>2. /\ DOMAIN request' = DOMAIN request /\ request'[n] = r
        /\ \A m \in DOMAIN request : m # n => request'[m] = request[m]
        /\ \A m \in DOMAIN request : /\ request'[m].email = request[m].email /\ request'[m].op = request[m].op
                                     /\ request'[m].alone = request[m].alone
        /\ DOMAIN request \subseteq Nat
    BY <1>1, <2>1, GoesAlong DEF MembersIInv
  <2>3. r.email = e /\ r.op = request[n].op /\ r.answer = "none" /\ Invites(n)
    BY <1>1, <1>2, <2>1 DEF MembersIInv, AnswersLast, Goes
  <2>4. ASSUME request[n].alone, Latest(n) PROVE Undisturbed(n)'
    <3>1. Members!RowsOf(e)' = before'[n]
      BY <1>1, <1>3, <1>4, <2>4
    <3>2. QED BY <2>1, <2>2, <2>3, <3>1 DEF Undisturbed
  <2>5. MembersTyped' /\ AloneIsLatest' /\ LatestIsUndisturbed' /\ AnswersLast'
    <3>1. member' \in [DOMAIN member' -> Membership] /\ rowsMade' \in Nat
      BY <1>1 DEF MembersIInv, MembersTyped
    <3>2. QED BY <1>1, <1>3, <2>1, <2>4, <3>1, MembersGoOn
  <2>6. /\ DOMAIN password' = DOMAIN password \cup {e} /\ password'[e] = n
        /\ \A x \in DOMAIN password : x # e /\ password'[x] = password[x]
    BY <1>6 DEF Members!With
  <2>7. /\ \A m \in DOMAIN request : Invites(m)' = Invites(m)
        /\ \A m \in DOMAIN request : m # n => GotOn(m)' = GotOn(m)
    BY <2>2 DEF Invites, GotOn
  <2>8. InvitedHasUser'
    BY <1>2, <2>2, <2>6, <2>7 DEF MembersIInv, InvitedHasUser
  <2>9. UserWasInvited'
    <3> SUFFICES ASSUME NEW x \in DOMAIN password'
                 PROVE  \E m \in DOMAIN request : /\ password'[x] = m /\ Invites(m)
                                                  /\ request[m].email = x /\ request'[m].at \notin {"user", "create"}
      BY <2>2, <2>7 DEF UserWasInvited
    <3>1. CASE x = e
      BY <1>1, <1>2, <2>1, <2>2, <2>3, <2>6, <3>1
    <3>2. CASE x \in DOMAIN password
      <4>1. PICK m \in DOMAIN request : /\ password[x] = m /\ Invites(m)
                                        /\ request[m].email = x /\ request[m].at \notin {"user", "create"}
        BY <3>2 DEF MembersIInv, UserWasInvited
      <4>2. m # n
        BY <1>1, <4>1
      <4>3. QED BY <2>2, <2>6, <3>2, <4>1, <4>2
    <3>3. QED BY <2>6, <3>1, <3>2
  <2>10. ASSUME NEW k \in DOMAIN request, request[k].alone, request[k].email \in DOMAIN password',
                password'[request[k].email] = k,
                NEW m \in DOMAIN request, Invites(m), request[m].email = request[k].email, m < k
         PROVE  request'[m].answer = "crash"
    <3>1. CASE request[k].email = e
      <4>1. k = n /\ m # n
        BY <2>2, <2>6, <2>10, <3>1
      <4>2. request[m].at = "end"
        BY <2>10 DEF MembersIInv, AloneIsLatest
      <4>3. ~GotOn(m)
        BY <1>6, <2>10, <3>1 DEF MembersIInv, InvitedHasUser
      <4>4. QED BY <2>2, <4>1, <4>2, <4>3 DEF GotOn
    <3>2. CASE request[k].email # e
      <4>1. request[k].email \in DOMAIN password /\ password[request[k].email] = k
        BY <2>6, <2>10, <3>2
      <4>2. request[m].answer = "crash" /\ m # n
        BY <1>2, <2>10, <3>2, <4>1 DEF MembersIInv, MakerWasFirst
      <4>3. QED BY <2>2, <4>2
    <3>3. QED BY <3>1, <3>2
  <2>11. MakerWasFirst'
    BY <2>2, <2>7, <2>10 DEF MakerWasFirst
  <2>12. ASSUME NEW k \in DOMAIN request, request[k].alone, Invites(k), GotOn(k)',
                \A m \in DOMAIN request : request[m].email = request[k].email /\ Invites(m) => m >= k
         PROVE  request[k].email \in DOMAIN password' /\ password'[request[k].email] = k
    <3>1. CASE k = n
      BY <1>2, <2>6, <3>1
    <3>2. CASE k # n
      <4>1. GotOn(k)
        BY <2>7, <2>12, <3>2
      <4>2. request[k].email \in DOMAIN password /\ password[request[k].email] = k
        BY <2>12, <4>1 DEF MembersIInv, FirstIsMaker
      <4>3. QED BY <2>6, <4>2
    <3>3. QED BY <3>1, <3>2
  <2>13. FirstIsMaker'
    BY <2>2, <2>7, <2>12 DEF FirstIsMaker
  <2>14. QED BY <2>5, <2>8, <2>9, <2>11, <2>13 DEF MembersIInv
<1>7. QED BY <1>2, <1>5, <1>6 DEF Members!CreateUser

LEMMA MembersNext == MembersIInv /\ [Next]_vars => MembersIInv'
<1> SUFFICES ASSUME MembersIInv, [Next]_vars PROVE MembersIInv'
  OBVIOUS
<1>1. CASE UNCHANGED memberVars
  <2>1. UNCHANGED <<password, member, rowsMade, request, before>>
    BY <1>1 DEF memberVars
  <2>2. MembersTyped' /\ AloneIsLatest' /\ AnswersLast'
    BY <2>1 DEF MembersIInv, MembersTyped, AloneIsLatest, AnswersLast, Invites
  <2>3. LatestIsUndisturbed'
    BY <2>1 DEF MembersIInv, LatestIsUndisturbed, Latest, Undisturbed, RoledNow, Members!RowsOf
  <2>4. InvitedHasUser' /\ UserWasInvited' /\ MakerWasFirst' /\ FirstIsMaker'
    BY <2>1 DEF MembersIInv, InvitedHasUser, UserWasInvited, MakerWasFirst, FirstIsMaker, Invites, GotOn
  <2>5. QED BY <2>2, <2>3, <2>4 DEF MembersIInv
<1>2. CASE \E a \in Asked : Members!Send(a)
  BY <1>2, MembersSendInv
<1>3. ASSUME NEW n \in 1..MaxAsked,
             \/ Members!FindUser(n) \/ Members!CreateUser(n) \/ Members!Look(n) \/ Members!Insert(n)
             \/ Members!Update(n) \/ Members!Delete(n) \/ Members!Reread(n) \/ Members!Crash(n)
      PROVE  MembersIInv'
  <2>1. n \in Nat
    OBVIOUS
  <2>2. QED BY <1>3, <2>1, MembersFindUser, MembersCreateUser, MembersLook, MembersInsert, MembersUpdate,
               MembersDelete, MembersReread, MembersCrash
<1>4. QED BY <1>1, <1>2, <1>3, OneService DEF Members!Next

\* What the latest request for an address is told is so, if it ran alone, and the
\* password given out with the first invitation is the stored one: in
\* attach_user_to_tenant(), rbac_routes.py, for all addresses, roles and requests.
THEOREM ServicesLatestAnswerHolds == Services => []LatestAnswerHolds
<1>1. Services => []MembersIInv
  BY MembersInit, MembersNext, PTL DEF Services
<1>2. QED BY <1>1, MembersImplies, PTL

-----------------------------------------------------------------------------
(* The rate limit (RateLimit) *)

LimitIInv ==
  /\ second \in Nat
  /\ stamps \in [Bucket -> SUBSET Nat] /\ requested \in [Bucket -> SUBSET Nat]
  /\ answer \in [Bucket -> {"ok", "429"}]
  /\ \A b \in Bucket : stamps[b] \subseteq requested[b] /\ IsFiniteSet(requested[b])

LEMMA LimitCount ==
  ASSUME NEW S, NEW U, S \subseteq U, IsFiniteSet(U), NEW k \in Nat, Limiter!Cardinality(S) > k
  PROVE  Limiter!Cardinality(U) > k
<1>1. \A W : Limiter!Cardinality(W) = Cardinality(W)
  BY Zenon DEF Limiter!Cardinality, Cardinality, Limiter!IsFiniteSet, IsFiniteSet
<1>2. /\ Cardinality(S) <= Cardinality(U)
      /\ Cardinality(S) \in Nat /\ Cardinality(U) \in Nat
  BY FS_Subset, FS_CardinalityType
<1>3. QED BY <1>1, <1>2

LEMMA LimitInit == Init => LimitIInv
<1> SUFFICES ASSUME Limiter!Init PROVE LimitIInv
  BY DEF Init, ApiInit
<1>1. IsFiniteSet({})
  BY FS_EmptySet
<1>2. QED BY <1>1 DEF Limiter!Init, LimitIInv

\* The members that a request counts are requests of the window.
LEMMA LimitRequest ==
  ASSUME LimitIInv, NEW b \in Bucket, Limiter!Request(b)
  PROVE  /\ LimitIInv'
         /\ answer'[b] = "429" => Limiter!Cardinality({x \in requested'[b] : x + WindowSize > second}) > LimitOf[b]
         /\ \A c \in Bucket \ {b} : answer'[c] = answer[c] /\ requested'[c] = requested[c]
<1> DEFINE members == Limiter!Recent(stamps[b]) \cup {second}
           said == IF Limiter!Cardinality(members) > LimitOf[b] THEN "429" ELSE "ok"
           busy == {x \in requested'[b] : x + WindowSize > second}
<1>1. /\ stamps' = [stamps EXCEPT ![b] = members]
      /\ requested' = [requested EXCEPT ![b] = requested[b] \cup {second}]
      /\ answer' = [answer EXCEPT ![b] = said] /\ second' = second
  BY DEF Limiter!Request
<1>2. /\ second \in Nat /\ WindowSize \in Nat \ {0} /\ LimitOf[b] \in Nat
  BY ApiAssumption DEF LimitIInv, Limiter!RateLimitAssumption
<1>3. Limiter!Recent(stamps[b]) = {x \in stamps[b] : x + WindowSize > second}
  BY DEF Limiter!Recent
<1>4. members \subseteq requested[b] \cup {second} /\ requested[b] \cup {second} \in SUBSET Nat
  BY <1>2, <1>3 DEF LimitIInv
<1>5. requested'[b] = requested[b] \cup {second}
  BY <1>1 DEF LimitIInv
<1>6. IsFiniteSet(requested'[b])
  <2>1. IsFiniteSet(requested[b])
    BY DEF LimitIInv
  <2>2. QED BY <1>5, <2>1, FS_AddElement
<1>7. said \in {"ok", "429"}
  OBVIOUS
<1>8. members \subseteq busy /\ IsFiniteSet(busy)
  <2>1. IsFiniteSet(busy)
    BY <1>6, FS_Subset
  <2>2. second + WindowSize > second
    BY <1>2
  <2>3. QED BY <1>3, <1>4, <1>5, <2>1, <2>2
<1>9. answer'[b] = said
  BY <1>1 DEF LimitIInv
<1>10. said = "429" => Limiter!Cardinality(busy) > LimitOf[b]
  <2>1. said = "429" => Limiter!Cardinality(members) > LimitOf[b]
    OBVIOUS
  <2> HIDE DEF members, busy, said
  <2>2. QED BY <1>2, <1>8, <2>1, LimitCount
<1> HIDE DEF members, said
<1>11. LimitIInv'
  BY <1>1, <1>4, <1>5, <1>6, <1>7 DEF LimitIInv
<1>12. \A c \in Bucket \ {b} : answer'[c] = answer[c] /\ requested'[c] = requested[c]
  BY <1>1 DEF LimitIInv
<1>13. QED BY <1>9, <1>10, <1>11, <1>12

LEMMA LimitNext ==
  ASSUME LimitIInv, [Next]_vars
  PROVE  /\ LimitIInv'
         /\ \A b \in Bucket : answer'[b] = "429" /\ <<requested[b], answer[b]>>' # <<requested[b], answer[b]>> =>
              Limiter!Cardinality({x \in requested'[b] : x + WindowSize > second}) > LimitOf[b]
<1>1. Limiter!Next \/ UNCHANGED limitVars
  BY DEF Next, vars, apiVars, ApiNext, OthersRest
<1>2. CASE UNCHANGED limitVars \/ Limiter!Pass
  BY <1>2 DEF limitVars, Limiter!Pass, LimitIInv
<1>3. ASSUME NEW b \in Bucket, Limiter!RequestUnchecked(b) \/ Limiter!Expire(b)
      PROVE  /\ LimitIInv' /\ requested' = requested
             /\ \A c \in Bucket : answer'[c] = answer[c] \/ answer'[c] = "ok"
  BY <1>3 DEF Limiter!RequestUnchecked, Limiter!Expire, LimitIInv
<1>4. ASSUME NEW b \in Bucket, Limiter!Request(b)
      PROVE  /\ LimitIInv'
             /\ \A c \in Bucket : answer'[c] = "429" /\ <<requested[c], answer[c]>>' # <<requested[c], answer[c]>> =>
                  Limiter!Cardinality({x \in requested'[c] : x + WindowSize > second}) > LimitOf[c]
  BY <1>4, LimitRequest
<1>5. QED BY <1>1, <1>2, <1>3, <1>4 DEF Limiter!Next

\* enforce_tenant_rate_limit(), rate_limit.py, refuses a request only if its tenant
\* has sent requests in more seconds of the window than its limit, for all buckets,
\* limits and windows.
THEOREM ServicesRefuseBusy == Services => RefusedIsBusy
<1>1. LimitIInv /\ [Next]_vars => LimitIInv'
  BY LimitNext
<1>2. LimitIInv /\ [Next]_vars =>
        [\A b \in Bucket : answer'[b] = "429" /\ <<requested[b], answer[b]>>' # <<requested[b], answer[b]>> =>
           Limiter!Cardinality({x \in requested'[b] : x + WindowSize > second}) > LimitOf[b]]_(Limiter!limitVars)
  BY LimitNext
<1>3. QED BY LimitInit, <1>1, <1>2, PTL DEF Services, RefusedIsBusy, Limiter!RefusedIsBusy

-----------------------------------------------------------------------------
(* The daily golden run (GoldenRuns) *)

AtWork ==
  [at : {"look", "insert", "execute"} \cup Golden!Judging, tick : Nat, left : Seq(STRING) \ {<<>>},
   name : Nat, row : Nat, prior : Nat]
AtRest == [at : {"idle"}, tick : Nat, left : Seq(STRING), name : Nat, row : Nat, prior : Nat]
GoldenRun == [tenant : STRING, day : Nat, status : {"running", "completed", "failed"}, high : BOOLEAN]

GoldenTyped ==
  /\ day \in Nat
  /\ loop \in [Process -> AtWork \cup AtRest]
  /\ lastRun \in [Process -> Nat]
  /\ rows \in Seq(GoldenRun)
  /\ compared \subseteq DOMAIN rows
  /\ \A a \in alerts : a[1] \in compared

Judges(p) == loop[p].at \in Golden!Judging
Holds(p) == loop[p].at = "execute" \/ Judges(p)
Works(p) == loop[p].at = "insert" \/ Holds(p)

\* A process works on the run that it looked for, and holds its row alone.
HoldsItsRow ==
  \A p \in Process :
    /\ Works(p) => loop[p].name <= day
    /\ Holds(p) =>
         /\ loop[p].row \in DOMAIN rows \ compared
         /\ rows[loop[p].row].tenant = Golden!TenantOf(p) /\ rows[loop[p].row].day = loop[p].name
    /\ loop[p].at = "execute" => rows[loop[p].row].status = "running"
HeldByOneProcess == \A p, q \in Process : Holds(p) /\ Holds(q) /\ p # q => loop[p].row # loop[q].row

\* Two processes work on a tenant only after a race.
WorkOverlaps ==
  \A p, q \in Process :
    Works(p) /\ Works(q) /\ p # q /\ Golden!TenantOf(p) = Golden!TenantOf(q) => Golden!TenantOf(p) \in overlap

\* Without a race, a process works on the latest run of its tenant, which is new.
WorksOnLatest ==
  \A p \in Process :
    Works(p) =>
      \/ Golden!TenantOf(p) \in overlap
      \/ /\ \A i \in DOMAIN rows : rows[i].tenant = Golden!TenantOf(p) => rows[i].day <= loop[p].name
         /\ loop[p].at = "insert" => Golden!RowOf(Golden!TenantOf(p), loop[p].name) = {}

RowsOfThePast == \A i \in DOMAIN rows : rows[i].day <= day

\* No run that is older than one that was compared is still at work.
ComparedIsSettled ==
  \A i \in compared :
    /\ rows[i].status = "completed"
    /\ \/ rows[i].tenant \in overlap
       \/ \A p \in Process : Works(p) /\ Golden!TenantOf(p) = rows[i].tenant => loop[p].name >= rows[i].day

\* A process judges a completed run, and is about to alert of one that is worse.
AlertIsDue ==
  \A p \in Process : \A i \in DOMAIN rows :
    loop[p].row = i =>
      /\ loop[p].at \in {"previous", "alert"} => rows[i].status = "completed"
      /\ loop[p].at = "alert" =>
           \/ Golden!TenantOf(p) \in overlap
           \/ Golden!Dropped(i) /\ loop[p].prior \in Golden!Earlier(i)

\* The parts of DaysAreJudgedOnce.
Executed(i) == \E p \in Process : loop[p].at = "execute" /\ loop[p].row = i
RunningIsExecuted == \A i \in DOMAIN rows : rows[i].status = "running" => i \in stranded \/ Executed(i)
DaysHaveOneRow ==
  \A i, j \in DOMAIN rows :
    rows[i].tenant = rows[j].tenant /\ rows[i].day = rows[j].day /\ i # j => rows[i].tenant \in overlap
Alerted(i) == \E j \in Golden!Earlier(i) : <<i, j>> \in alerts
DropIsAlerted == \A i \in compared : rows[i].tenant \in overlap \/ (Golden!Dropped(i) <=> Alerted(i))

GoldenIInv ==
  /\ GoldenTyped /\ HoldsItsRow /\ HeldByOneProcess /\ WorkOverlaps /\ WorksOnLatest /\ RowsOfThePast
  /\ ComparedIsSettled /\ AlertIsDue /\ RunningIsExecuted /\ DaysHaveOneRow /\ DropIsAlerted
  /\ Golden!JudgedOrStranded

LEMMA GoldenImplies == GoldenIInv => DaysAreJudgedOnce
<1> SUFFICES ASSUME GoldenIInv PROVE Golden!OneRunPerDay /\ Golden!RegressionIsAlerted /\ Golden!JudgedOrStranded
  BY DEF DaysAreJudgedOnce, Golden!DaysAreJudgedOnce
<1>1. Golden!OneRunPerDay
  BY DEF GoldenIInv, RunningIsExecuted, DaysHaveOneRow, Executed, Golden!OneRunPerDay, Golden!RunningIsExecuted
<1>2. Golden!RegressionIsAlerted
  BY DEF GoldenIInv, DropIsAlerted, Alerted, Golden!RegressionIsAlerted
<1>3. QED BY <1>1, <1>2 DEF GoldenIInv

\* The greatest of some rows is one of them.
LEMMA LatestRow ==
  ASSUME GoldenTyped, NEW S \in SUBSET DOMAIN rows, S # {}
  PROVE  Golden!Max(S) \in S /\ \A j \in S : Golden!Max(S) >= j
<1>1. DOMAIN rows = 1..Len(rows) /\ Len(rows) \in Nat
  BY DEF GoldenTyped
<1>2. IsFiniteSet(S) /\ S \in SUBSET Nat
  <2>1. IsFiniteSet(DOMAIN rows)
    BY <1>1, FS_Interval
  <2>2. QED BY <1>1, <2>1, FS_Subset
<1>3. \E x \in S : \A y \in S : x >= y
  BY <1>2, Greatest
<1>4. QED BY <1>3 DEF Golden!Max

LEMMA GoldenInit == Init => GoldenIInv
<1> SUFFICES ASSUME Golden!Init PROVE GoldenIInv
  BY DEF Init
<1>1. Golden!Idle \in AtRest /\ Golden!Idle.at = "idle"
  BY DEF Golden!Idle, AtRest
<1>2. /\ day = 1 /\ rows = <<>> /\ DOMAIN rows = {} /\ compared = {} /\ alerts = {}
      /\ loop = [p \in Process |-> Golden!Idle] /\ lastRun = [p \in Process |-> 0]
  BY DEF Golden!Init
<1>3. GoldenTyped
  BY <1>1, <1>2 DEF GoldenTyped
<1>4. \A p \in Process : ~Works(p) /\ ~Holds(p)
  BY <1>1, <1>2 DEF Works, Holds, Judges, Golden!Judging
<1>5. HoldsItsRow /\ HeldByOneProcess /\ WorkOverlaps /\ WorksOnLatest
  BY <1>1, <1>2, <1>4 DEF HoldsItsRow, HeldByOneProcess, WorkOverlaps, WorksOnLatest
<1>6. RowsOfThePast /\ ComparedIsSettled /\ RunningIsExecuted /\ DaysHaveOneRow /\ DropIsAlerted
  BY <1>2 DEF RowsOfThePast, ComparedIsSettled, RunningIsExecuted, DaysHaveOneRow, DropIsAlerted
<1>7. AlertIsDue /\ Golden!JudgedOrStranded
  BY <1>2 DEF AlertIsDue, Golden!JudgedOrStranded
<1>8. QED BY <1>3, <1>5, <1>6, <1>7 DEF GoldenIInv

\* The earlier runs of a run, and whether it is worse, are those of the rows.
LEMMA SameRows ==
  ASSUME UNCHANGED rows
  PROVE  \A i \in DOMAIN rows : Golden!Earlier(i)' = Golden!Earlier(i) /\ Golden!Dropped(i)' = Golden!Dropped(i)
BY DEF Golden!Earlier, Golden!Dropped, Golden!Completed, Golden!Max

\* What another process is about to alert of stays worse than what was before it.
LEMMA DueStays ==
  ASSUME GoldenIInv, NEW p \in Process, loop'[p].at \notin {"previous", "alert"}, overlap \subseteq overlap',
         DOMAIN rows \subseteq DOMAIN rows',
         \A q \in Process : q # p => loop'[q] = loop[q] /\ Golden!TenantOf(q)' = Golden!TenantOf(q),
         \A q \in Process : q # p /\ Judges(q) => rows'[loop[q].row].status = rows[loop[q].row].status,
         \A q \in Process : \A i \in DOMAIN rows :
           q # p /\ Judges(q) /\ loop[q].row = i /\ rows[i].tenant \notin overlap =>
             Golden!Earlier(i)' = Golden!Earlier(i) /\ Golden!Dropped(i)' = Golden!Dropped(i)
  PROVE  AlertIsDue'
<1> SUFFICES ASSUME NEW q \in Process, NEW i \in DOMAIN rows', loop'[q].row = i, loop'[q].at \in {"previous", "alert"}
             PROVE  /\ rows'[i].status = "completed"
                    /\ loop'[q].at = "alert" =>
                         \/ Golden!TenantOf(q)' \in overlap'
                         \/ Golden!Dropped(i)' /\ loop'[q].prior \in Golden!Earlier(i)'
  BY DEF AlertIsDue
<1>1. q # p /\ loop'[q] = loop[q] /\ Judges(q) /\ Golden!TenantOf(q)' = Golden!TenantOf(q)
  BY DEF Judges, Golden!Judging
<1>2. i \in DOMAIN rows /\ rows[i].tenant = Golden!TenantOf(q)
  BY <1>1 DEF GoldenIInv, HoldsItsRow, Holds
<1>3. /\ rows[i].status = "completed"
      /\ loop[q].at = "alert" =>
           \/ Golden!TenantOf(q) \in overlap
           \/ Golden!Dropped(i) /\ loop[q].prior \in Golden!Earlier(i)
  BY <1>1, <1>2 DEF GoldenIInv, AlertIsDue
<1>4. QED BY <1>1, <1>2, <1>3

\* A process that takes a step becomes t.
Turns(p, t) == loop' = [loop EXCEPT ![p] = t] /\ t \in AtWork \cup AtRest

LEMMA TurnsOne ==
  ASSUME GoldenTyped, NEW p \in Process, NEW t, Turns(p, t)
  PROVE  /\ loop' \in [Process -> AtWork \cup AtRest] /\ loop'[p] = t
         /\ \A q \in Process : q # p => loop'[q] = loop[q]
BY DEF GoldenTyped, Turns

\* A process leaves its run, or had none.
LEMMA GoldenLeaves ==
  ASSUME GoldenIInv, NEW p \in Process, NEW t, Turns(p, t), t.at \in {"idle", "look"},
         UNCHANGED <<day, rows, alerts, compared, overlap>>, lastRun' \in [Process -> Nat],
         stranded \subseteq stranded', loop[p].at = "execute" => loop[p].row \in stranded',
         Judges(p) /\ rows[loop[p].row].status = "completed" => loop[p].row \in stranded'
  PROVE  GoldenIInv'
<1>1. /\ loop' \in [Process -> AtWork \cup AtRest] /\ loop'[p] = t
      /\ \A q \in Process : q # p => loop'[q] = loop[q]
  BY TurnsOne DEF GoldenIInv
<1>2. GoldenTyped'
  BY <1>1 DEF GoldenIInv, GoldenTyped
<1>3. \A q \in Process : /\ Works(q)' => q # p /\ Works(q)
                         /\ Holds(q)' => q # p /\ Holds(q)
                         /\ loop'[q].at = "execute" => q # p
  BY <1>1 DEF Works, Holds, Judges, Golden!Judging
<1>4. \A q \in Process : q # p => Golden!TenantOf(q)' = Golden!TenantOf(q)
  BY <1>1 DEF Golden!TenantOf
<1>5. HoldsItsRow'
  BY <1>1, <1>3, <1>4 DEF GoldenIInv, HoldsItsRow
<1>6. HeldByOneProcess' /\ WorkOverlaps'
  BY <1>1, <1>3, <1>4 DEF GoldenIInv, HeldByOneProcess, WorkOverlaps
<1>7. WorksOnLatest'
  BY <1>1, <1>3, <1>4 DEF GoldenIInv, WorksOnLatest, Golden!RowOf
<1>8. RowsOfThePast' /\ DaysHaveOneRow'
  BY DEF GoldenIInv, RowsOfThePast, DaysHaveOneRow
<1>9. ComparedIsSettled'
  BY <1>1, <1>3, <1>4 DEF GoldenIInv, ComparedIsSettled
<1>10. RunningIsExecuted'
  BY <1>1 DEF GoldenIInv, RunningIsExecuted, Executed
<1>11. DropIsAlerted'
  BY SameRows DEF GoldenIInv, GoldenTyped, DropIsAlerted, Alerted
<1>12. AlertIsDue'
  BY <1>1, <1>4, SameRows, DueStays
<1>13. Golden!JudgedOrStranded'
  BY <1>1 DEF GoldenIInv, Golden!JudgedOrStranded, Judges
<1>14. QED BY <1>2, <1>5, <1>6, <1>7, <1>8, <1>9, <1>10, <1>11, <1>12, <1>13 DEF GoldenIInv

LEMMA GoldenBegin ==
  ASSUME GoldenIInv, NEW p \in Process, Golden!Begin(p) PROVE GoldenIInv'
<1>1. PICK w \in AtRest : w = Golden!Idle
  <2>1. Golden!Idle \in AtRest
    BY DEF Golden!Idle, AtRest
  <2>2. QED BY <2>1
<1> DEFINE t == [w EXCEPT !.at = "look", !.tick = day, !.left = Tenants]
<1>2. loop[p].at = "idle" /\ loop' = [loop EXCEPT ![p] = t]
  BY <1>1 DEF Golden!Begin
<1>3. UNCHANGED <<day, lastRun, rows, alerts, compared, overlap, stranded, errors>>
  BY DEF Golden!Begin, Golden!history
<1>4. t \in AtWork /\ t.at = "look"
  <2>1. day \in Nat /\ Tenants \in Seq(STRING) \ {<<>>}
    BY ServicesAssumption DEF Golden!GoldenRunsAssumption, GoldenIInv, GoldenTyped
  <2>2. QED BY <2>1 DEF AtWork, AtRest
<1> HIDE DEF t
<1>5. lastRun' \in [Process -> Nat] /\ Turns(p, t)
  BY <1>2, <1>3, <1>4 DEF GoldenIInv, GoldenTyped, Turns
<1>6. ~Judges(p)
  BY <1>2 DEF Judges, Golden!Judging
<1>7. QED BY <1>2, <1>3, <1>4, <1>5, <1>6, GoldenLeaves

LEMMA GoldenNextTenant ==
  ASSUME GoldenTyped, NEW p \in Process, loop[p].at # "idle", Golden!NextTenant(p)
  PROVE  /\ \E t : Turns(p, t) /\ t.at \in {"idle", "look"}
         /\ lastRun' \in [Process -> Nat]
<1>1. PICK w \in AtWork : w = loop[p]
  BY DEF GoldenTyped, AtRest
<1>2. lastRun \in [Process -> Nat] /\ w.tick \in Nat /\ w.left \in Seq(STRING)
  BY DEF GoldenTyped, AtWork
<1>3. CASE Len(loop[p].left) > 1
  <2> DEFINE t == [at |-> "look", tick |-> w.tick, left |-> Tail(w.left), name |-> 0, row |-> 0, prior |-> 0]
  <2>1. loop' = [loop EXCEPT ![p] = t] /\ UNCHANGED lastRun
    BY <1>1, <1>3 DEF Golden!NextTenant, Golden!Idle
  <2>2. Tail(w.left) \in Seq(STRING) \ {<<>>}
    BY <1>1, <1>2, <1>3, SMTT(30)
  <2>3. t \in AtWork /\ t.at = "look"
    BY <1>2, <2>2 DEF AtWork
  <2> HIDE DEF t
  <2>4. QED BY <1>2, <2>1, <2>3 DEF Turns
<1>4. CASE ~(Len(loop[p].left) > 1)
  <2>1. loop' = [loop EXCEPT ![p] = Golden!Idle] /\ lastRun' = [lastRun EXCEPT ![p] = w.tick]
    BY <1>1, <1>4 DEF Golden!NextTenant
  <2>2. Golden!Idle \in AtRest /\ Golden!Idle.at = "idle"
    BY DEF Golden!Idle, AtRest
  <2>3. QED BY <1>2, <2>1, <2>2 DEF Turns
<1>5. QED BY <1>3, <1>4

LEMMA GoldenFound ==
  ASSUME GoldenIInv, NEW p \in Process, Golden!Found(p) PROVE GoldenIInv'
<1>1. /\ loop[p].at = "look" /\ Golden!NextTenant(p)
      /\ UNCHANGED <<day, rows, alerts, compared, overlap, stranded, errors>>
  BY DEF Golden!Found, Golden!history
<1>2. PICK t : Turns(p, t) /\ t.at \in {"idle", "look"}
  BY <1>1, GoldenNextTenant DEF GoldenIInv
<1>3. lastRun' \in [Process -> Nat]
  BY <1>1, GoldenNextTenant DEF GoldenIInv
<1>4. ~Judges(p)
  BY <1>1 DEF Judges, Golden!Judging
<1>5. QED BY <1>1, <1>2, <1>3, <1>4, GoldenLeaves

LEMMA GoldenStops ==
  ASSUME GoldenIInv, NEW p \in Process, Golden!TickFails(p) \/ Golden!Restart(p) PROVE GoldenIInv'
<1>1. /\ loop' = [loop EXCEPT ![p] = Golden!Idle]
      /\ stranded' = IF loop[p].at \in {"execute"} \cup Golden!Judging THEN stranded \cup {loop[p].row} ELSE stranded
      /\ UNCHANGED <<day, rows, alerts, compared, overlap>>
      /\ lastRun' = lastRun \/ lastRun' = [lastRun EXCEPT ![p] = 0]
  BY DEF Golden!TickFails, Golden!Restart, Golden!Stop
<1>2. Golden!Idle \in AtRest /\ Golden!Idle.at = "idle"
  BY DEF Golden!Idle, AtRest
<1>3. lastRun' \in [Process -> Nat] /\ Turns(p, Golden!Idle)
  BY <1>1, <1>2 DEF GoldenIInv, GoldenTyped, Turns
<1>4. stranded \subseteq stranded' /\ (loop[p].at = "execute" \/ Judges(p) => loop[p].row \in stranded')
  BY <1>1 DEF Judges
<1>5. QED BY <1>1, <1>2, <1>3, <1>4, GoldenLeaves

LEMMA GoldenDayPasses ==
  ASSUME GoldenIInv, Golden!NextDay PROVE GoldenIInv'
<1>1. day' = day + 1 /\ UNCHANGED <<loop, lastRun, rows, alerts, compared, overlap, stranded, errors>>
  <2>1. day' = day + 1
    BY DEF Golden!NextDay
  <2>2. UNCHANGED <<loop, lastRun, rows, alerts, compared, overlap, stranded, errors>>
    BY DEF Golden!NextDay, Golden!history
  <2>3. QED BY <2>1, <2>2
<1>2. GoldenTyped'
  BY <1>1 DEF GoldenIInv, GoldenTyped
<1>3. \A n \in Nat : n <= day => n <= day'
  BY <1>1 DEF GoldenIInv, GoldenTyped
<1>4. RowsOfThePast'
  <2>1. \A i \in DOMAIN rows : rows[i] \in GoldenRun
    BY DEF GoldenIInv, GoldenTyped
  <2>2. \A i \in DOMAIN rows : rows[i].day \in Nat
    BY <2>1 DEF GoldenRun
  <2>3. QED BY <1>1, <1>3, <2>2 DEF GoldenIInv, RowsOfThePast
<1>5. HoldsItsRow'
  <2>1. \A p \in Process : Works(p)' = Works(p) /\ Holds(p)' = Holds(p) /\ Golden!TenantOf(p)' = Golden!TenantOf(p)
    BY <1>1 DEF Works, Holds, Judges, Golden!Judging, Golden!TenantOf
  <2>2. \A p \in Process : loop[p].name \in Nat
    BY DEF GoldenIInv, GoldenTyped, AtWork, AtRest
  <2>3. QED BY <1>1, <1>3, <2>1, <2>2 DEF GoldenIInv, HoldsItsRow
<1>6. HeldByOneProcess' /\ WorkOverlaps' /\ WorksOnLatest'
  BY <1>1 DEF GoldenIInv, HeldByOneProcess, WorkOverlaps, WorksOnLatest, Works, Holds, Judges, Golden!Judging, Golden!TenantOf, Golden!RowOf
<1>7. ComparedIsSettled' /\ RunningIsExecuted' /\ DaysHaveOneRow'
  BY <1>1 DEF GoldenIInv, ComparedIsSettled, RunningIsExecuted, Executed, DaysHaveOneRow, Works, Holds, Judges, Golden!Judging, Golden!TenantOf
<1>8. DropIsAlerted' /\ AlertIsDue' /\ Golden!JudgedOrStranded'
  <2>1. DropIsAlerted'
    BY <1>1, SameRows DEF GoldenIInv, GoldenTyped, DropIsAlerted, Alerted
  <2>2. AlertIsDue'
    BY <1>1, SameRows DEF GoldenIInv, AlertIsDue, Golden!TenantOf
  <2>3. Golden!JudgedOrStranded'
    BY <1>1 DEF GoldenIInv, Golden!JudgedOrStranded
  <2>4. QED BY <2>1, <2>2, <2>3
<1>9. QED BY <1>2, <1>4, <1>5, <1>6, <1>7, <1>8 DEF GoldenIInv

\* Two processes that look for the run of a tenant at a time are a race.
LEMMA GoldenLook ==
  ASSUME GoldenIInv, NEW p \in Process, Golden!Look(p) PROVE GoldenIInv'
<1>1. PICK w \in AtWork : w = loop[p] /\ w.at = "look"
  BY DEF Golden!Look, GoldenIInv, GoldenTyped, AtRest
<1> DEFINE t == [w EXCEPT !.at = "insert", !.name = day]
           tenant == Golden!TenantOf(p)
<1>2. /\ loop' = [loop EXCEPT ![p] = t] /\ Golden!RowOf(tenant, day) = {}
      /\ overlap' = IF Golden!Busy(tenant) # {} THEN overlap \cup {tenant} ELSE overlap
      /\ UNCHANGED <<day, lastRun, rows, alerts, compared, stranded, errors>>
  BY <1>1 DEF Golden!Look, Golden!Missing
<1>3. day \in Nat
  BY DEF GoldenIInv, GoldenTyped
<1>4. t \in AtWork /\ t.at = "insert" /\ t.name = day /\ t.left = w.left
  BY <1>3 DEF AtWork
<1>5. overlap \subseteq overlap'
  BY <1>2
<1> HIDE DEF t
<1>6. Turns(p, t)
  BY <1>2, <1>4 DEF Turns
<1>7. /\ loop' \in [Process -> AtWork \cup AtRest] /\ loop'[p] = t
      /\ \A q \in Process : q # p => loop'[q] = loop[q]
  BY <1>6, TurnsOne DEF GoldenIInv
<1>8. GoldenTyped'
  BY <1>2, <1>7 DEF GoldenIInv, GoldenTyped
<1>9. \A q \in Process : Golden!TenantOf(q)' = Golden!TenantOf(q)
  BY <1>1, <1>4, <1>7 DEF Golden!TenantOf
<1>10. /\ Works(p)' /\ ~Holds(p)' /\ ~Works(p)
       /\ \A q \in Process : q # p => Works(q)' = Works(q) /\ Holds(q)' = Holds(q)
  BY <1>1, <1>4, <1>7 DEF Works, Holds, Judges, Golden!Judging
<1>11. ASSUME NEW q \in Process, q # p, Works(q), Golden!TenantOf(q) = tenant PROVE tenant \in overlap'
  <2>1. q \in Golden!Busy(tenant)
    BY <1>11 DEF Golden!Busy, Works, Holds, Judges, Golden!Judging
  <2>2. QED BY <1>2, <2>1
<1> HIDE DEF tenant
<1>12. HoldsItsRow'
  BY <1>2, <1>3, <1>4, <1>7, <1>9, <1>10 DEF GoldenIInv, HoldsItsRow
<1>13. HeldByOneProcess'
  BY <1>7, <1>10 DEF GoldenIInv, HeldByOneProcess
<1>14. WorkOverlaps'
  BY <1>5, <1>9, <1>10, <1>11 DEF GoldenIInv, WorkOverlaps, tenant
<1>15. WorksOnLatest'
  <2> SUFFICES ASSUME NEW q \in Process, Works(q)'
               PROVE  \/ Golden!TenantOf(q) \in overlap'
                      \/ /\ \A i \in DOMAIN rows : rows[i].tenant = Golden!TenantOf(q) => rows[i].day <= loop'[q].name
                         /\ loop'[q].at = "insert" => Golden!RowOf(Golden!TenantOf(q), loop'[q].name) = {}
    BY <1>2, <1>9 DEF WorksOnLatest, Golden!RowOf
  <2>1. CASE q = p
    BY <1>2, <1>4, <1>7, <2>1 DEF GoldenIInv, RowsOfThePast, tenant
  <2>2. CASE q # p
    BY <1>5, <1>7, <1>10, <2>2 DEF GoldenIInv, WorksOnLatest
  <2>3. QED BY <2>1, <2>2
<1>16. RowsOfThePast' /\ DaysHaveOneRow'
  BY <1>2, <1>5 DEF GoldenIInv, RowsOfThePast, DaysHaveOneRow
<1>17. ComparedIsSettled'
  <2> SUFFICES ASSUME NEW i \in compared
               PROVE  /\ rows[i].status = "completed"
                      /\ \/ rows[i].tenant \in overlap'
                         \/ \A q \in Process : Works(q)' /\ Golden!TenantOf(q) = rows[i].tenant => loop'[q].name >= rows[i].day
    BY <1>2, <1>9 DEF ComparedIsSettled
  <2>1. i \in DOMAIN rows /\ rows[i].day <= day /\ rows[i].day \in Nat
    <3>1. i \in DOMAIN rows /\ rows \in Seq(GoldenRun)
      BY DEF GoldenIInv, GoldenTyped
    <3>2. rows[i] \in GoldenRun
      BY <3>1
    <3>3. QED BY <3>1, <3>2 DEF GoldenRun, GoldenIInv, RowsOfThePast
  <2>2. loop'[p].name >= rows[i].day
    BY <1>3, <1>4, <1>7, <2>1
  <2>3. QED BY <1>5, <1>7, <1>10, <2>2 DEF GoldenIInv, ComparedIsSettled
<1>18. RunningIsExecuted'
  BY <1>1, <1>2, <1>7 DEF GoldenIInv, RunningIsExecuted, Executed
<1>19. DropIsAlerted'
  BY <1>2, <1>5, SameRows DEF GoldenIInv, GoldenTyped, DropIsAlerted, Alerted
<1>20. AlertIsDue'
  <2>1. loop'[p].at \notin {"previous", "alert"}
    BY <1>4, <1>7
  <2>2. QED BY <1>2, <1>5, <1>7, <1>9, <2>1, SameRows, DueStays
<1>21. Golden!JudgedOrStranded'
  BY <1>1, <1>2, <1>7 DEF GoldenIInv, Golden!JudgedOrStranded, Golden!Judging
<1>22. QED BY <1>8, <1>12, <1>13, <1>14, <1>15, <1>16, <1>17, <1>18, <1>19, <1>20, <1>21 DEF GoldenIInv

LEMMA GoldenInsert ==
  ASSUME GoldenIInv, NEW p \in Process, Golden!Insert(p) PROVE GoldenIInv'
<1>1. PICK w \in AtWork : w = loop[p] /\ w.at = "insert"
  BY DEF Golden!Insert, GoldenIInv, GoldenTyped, AtRest
<1> DEFINE k == Len(rows) + 1
           tenant == Golden!TenantOf(p)
           t == [w EXCEPT !.at = "execute", !.row = k]
           new == [tenant |-> tenant, day |-> w.name, status |-> "running", high |-> FALSE]
<1>2. rows' = Append(rows, new) /\ loop' = [loop EXCEPT ![p] = t]
  BY <1>1 DEF Golden!Insert
<1>3. UNCHANGED <<day, lastRun, alerts, compared, overlap, stranded, errors>>
  BY DEF Golden!Insert, Golden!history
<1>4. rows \in Seq(GoldenRun) /\ day \in Nat
  BY DEF GoldenIInv, GoldenTyped
<1>5. k \in Nat /\ k \notin DOMAIN rows
  BY <1>4
<1>6. t \in AtWork /\ t.at = "execute" /\ t.row = k /\ t.left = w.left /\ t.name = w.name
  <2> HIDE DEF k
  <2>1. QED BY <1>5 DEF AtWork
<1>7. new \in GoldenRun /\ new.status = "running" /\ new.tenant = tenant /\ new.day = w.name
  <2>1. w.left \in Seq(STRING) \ {<<>>} /\ w.name \in Nat
    BY DEF AtWork
  <2>2. tenant \in STRING
    <3>1. tenant = Head(w.left)
      BY <1>1 DEF Golden!TenantOf
    <3>2. QED BY <2>1, <3>1
  <2> HIDE DEF tenant
  <2>3. QED BY <2>1, <2>2 DEF GoldenRun
<1> HIDE DEF t, new
<1>8. /\ DOMAIN rows' = DOMAIN rows \cup {k} /\ rows'[k] = new /\ rows' \in Seq(GoldenRun)
      /\ \A i \in DOMAIN rows : rows'[i] = rows[i]
  BY <1>2, <1>4, <1>7
<1> HIDE DEF k
<1>9. /\ loop' \in [Process -> AtWork \cup AtRest] /\ loop'[p] = t
      /\ \A q \in Process : q # p => loop'[q] = loop[q]
  <2>1. Turns(p, t)
    BY <1>2, <1>6 DEF Turns
  <2>2. QED BY <2>1, TurnsOne DEF GoldenIInv
<1>10. compared \subseteq DOMAIN rows /\ \A q \in Process : Holds(q) => loop[q].row \in DOMAIN rows
  BY DEF GoldenIInv, GoldenTyped, HoldsItsRow
<1>11. GoldenTyped'
  BY <1>3, <1>8, <1>9 DEF GoldenIInv, GoldenTyped
<1>12. \A q \in Process : Golden!TenantOf(q)' = Golden!TenantOf(q)
  BY <1>1, <1>6, <1>9 DEF Golden!TenantOf
<1>13. /\ Works(p) /\ Works(p)' /\ Holds(p)' /\ ~Holds(p)
       /\ \A q \in Process : q # p => Works(q)' = Works(q) /\ Holds(q)' = Holds(q)
  BY <1>1, <1>6, <1>9 DEF Works, Holds, Judges, Golden!Judging
<1>14. \A q \in Process : loop'[q].name = loop[q].name
  BY <1>1, <1>6, <1>9
<1>15. w.name <= day
  BY <1>1, <1>13 DEF GoldenIInv, HoldsItsRow
<1>16. ASSUME NEW q \in Process, q # p, Works(q), Golden!TenantOf(q) = tenant PROVE tenant \in overlap
  BY <1>13, <1>16 DEF GoldenIInv, WorkOverlaps
<1>17. \/ tenant \in overlap
       \/ /\ \A i \in DOMAIN rows : rows[i].tenant = tenant => rows[i].day <= w.name
          /\ \A i \in DOMAIN rows : rows[i].tenant = tenant => rows[i].day # w.name
  BY <1>1, <1>13 DEF GoldenIInv, WorksOnLatest, Golden!RowOf
<1> HIDE DEF tenant
<1>18. HoldsItsRow'
  <2> SUFFICES ASSUME NEW q \in Process
               PROVE  /\ Works(q)' => loop'[q].name <= day
                      /\ Holds(q)' =>
                           /\ loop'[q].row \in DOMAIN rows' \ compared
                           /\ rows'[loop'[q].row].tenant = Golden!TenantOf(q) /\ rows'[loop'[q].row].day = loop'[q].name
                      /\ loop'[q].at = "execute" => rows'[loop'[q].row].status = "running"
    BY <1>3, <1>12 DEF HoldsItsRow
  <2>1. CASE q = p
    BY <1>1, <1>5, <1>6, <1>7, <1>8, <1>9, <1>10, <1>15, <2>1 DEF tenant
  <2>2. CASE q # p
    <3>1. loop[q].at = "execute" => Holds(q)
      BY DEF Holds, Judges, Golden!Judging
    <3>2. QED BY <1>8, <1>9, <1>13, <2>2, <3>1 DEF GoldenIInv, HoldsItsRow
  <2>3. QED BY <2>1, <2>2
<1>19. HeldByOneProcess'
  BY <1>5, <1>6, <1>9, <1>10, <1>13 DEF GoldenIInv, HeldByOneProcess
<1>20. WorkOverlaps'
  BY <1>3, <1>12, <1>13 DEF GoldenIInv, WorkOverlaps
<1>21. WorksOnLatest'
  <2> SUFFICES ASSUME NEW q \in Process, Works(q)'
               PROVE  \/ Golden!TenantOf(q) \in overlap
                      \/ /\ \A i \in DOMAIN rows' : rows'[i].tenant = Golden!TenantOf(q) => rows'[i].day <= loop'[q].name
                         /\ loop'[q].at = "insert" =>
                              \A i \in DOMAIN rows' : rows'[i].tenant = Golden!TenantOf(q) => rows'[i].day # loop'[q].name
    BY <1>3, <1>12 DEF WorksOnLatest, Golden!RowOf
  <2>1. CASE q = p
    <3>1. w.name <= w.name
      BY DEF AtWork
    <3>2. QED BY <1>6, <1>7, <1>8, <1>9, <1>17, <2>1, <3>1 DEF tenant
  <2>2. CASE q # p /\ Golden!TenantOf(q) = tenant
    BY <1>13, <1>16, <2>2
  <2>3. CASE q # p /\ Golden!TenantOf(q) # tenant
    <3>1. \/ Golden!TenantOf(q) \in overlap
          \/ /\ \A i \in DOMAIN rows : rows[i].tenant = Golden!TenantOf(q) => rows[i].day <= loop[q].name
             /\ loop[q].at = "insert" =>
                  \A i \in DOMAIN rows : rows[i].tenant = Golden!TenantOf(q) => rows[i].day # loop[q].name
      BY <1>13, <2>3 DEF GoldenIInv, WorksOnLatest, Golden!RowOf
    <3>2. QED BY <1>7, <1>8, <1>9, <2>3, <3>1
  <2>4. QED BY <2>1, <2>2, <2>3
<1>22. RowsOfThePast'
  BY <1>3, <1>7, <1>8, <1>15 DEF GoldenIInv, RowsOfThePast
<1>23. DaysHaveOneRow'
  BY <1>3, <1>7, <1>8, <1>17 DEF GoldenIInv, DaysHaveOneRow
<1>24. ComparedIsSettled'
  <2>1. \A i \in compared : rows'[i] = rows[i]
    BY <1>8, <1>10
  <2>2. \A q \in Process : Works(q)' => Works(q)
    BY <1>13
  <2>3. QED BY <1>3, <1>12, <1>14, <2>1, <2>2 DEF GoldenIInv, ComparedIsSettled
<1>25. RunningIsExecuted'
  <2> SUFFICES ASSUME NEW i \in DOMAIN rows', rows'[i].status = "running"
               PROVE  i \in stranded \/ \E q \in Process : loop'[q].at = "execute" /\ loop'[q].row = i
    BY <1>3 DEF RunningIsExecuted, Executed
  <2>1. CASE i = k
    BY <1>6, <1>9, <2>1
  <2>2. CASE i \in DOMAIN rows
    <3>1. i \in stranded \/ \E q \in Process : loop[q].at = "execute" /\ loop[q].row = i
      BY <1>8, <2>2 DEF GoldenIInv, RunningIsExecuted, Executed
    <3>2. loop[p].at # "execute"
      BY <1>1
    <3>3. QED BY <1>9, <3>1, <3>2
  <2>3. QED BY <1>8, <2>1, <2>2
<1>26. ASSUME NEW i \in DOMAIN rows
       PROVE  Golden!Earlier(i)' = Golden!Earlier(i) /\ Golden!Dropped(i)' = Golden!Dropped(i)
  <2>1. rows'[i] = rows[i]
    BY <1>8
  <2>2. Golden!Completed(rows[i].tenant)' = Golden!Completed(rows[i].tenant)
    BY <1>5, <1>7, <1>8, <2>1 DEF Golden!Completed
  <2>3. Golden!Earlier(i)' = Golden!Earlier(i) /\ Golden!Earlier(i) \subseteq DOMAIN rows
    BY <1>8, <2>1, <2>2 DEF Golden!Earlier, Golden!Completed
  <2>4. Golden!Earlier(i) # {} => Golden!Max(Golden!Earlier(i)) \in DOMAIN rows
    <3>1. GoldenTyped
      BY DEF GoldenIInv
    <3>2. QED BY <2>3, <3>1, LatestRow
  <2>5. Golden!Max(Golden!Earlier(i))' = Golden!Max(Golden!Earlier(i))
    BY <2>3 DEF Golden!Max
  <2>6. Golden!Dropped(i)' = Golden!Dropped(i)
    BY <1>8, <2>1, <2>3, <2>4, <2>5 DEF Golden!Dropped
  <2>7. QED BY <2>3, <2>6
<1>27. DropIsAlerted'
  BY <1>3, <1>8, <1>10, <1>26 DEF GoldenIInv, DropIsAlerted, Alerted
<1>28. AlertIsDue'
  <2>1. loop'[p].at \notin {"previous", "alert"}
    BY <1>6, <1>9
  <2>2. ASSUME NEW q \in Process, q # p, Judges(q) PROVE rows'[loop[q].row].status = rows[loop[q].row].status
    BY <1>8, <1>10, <2>2 DEF Holds
  <2>3. QED BY <1>3, <1>8, <1>9, <1>12, <1>26, <2>1, <2>2, DueStays
<1>29. Golden!JudgedOrStranded'
  <2> SUFFICES ASSUME NEW i \in DOMAIN rows', rows'[i].status = "completed"
               PROVE  i \in compared \cup stranded \/ \E q \in Process : loop'[q].at \in Golden!Judging /\ loop'[q].row = i
    BY <1>3 DEF Golden!JudgedOrStranded
  <2>1. i \in DOMAIN rows /\ rows[i].status = "completed"
    BY <1>7, <1>8
  <2>2. loop[p].at \notin Golden!Judging
    BY <1>1 DEF Golden!Judging
  <2>3. QED BY <1>9, <2>1, <2>2 DEF GoldenIInv, Golden!JudgedOrStranded
<1>30. QED BY <1>11, <1>18, <1>19, <1>20, <1>21, <1>22, <1>23, <1>24, <1>25, <1>27, <1>28, <1>29 DEF GoldenIInv

\* A run that ends is not older than one that was compared.
LEMMA GoldenExecute ==
  ASSUME GoldenIInv, NEW p \in Process, Golden!Execute(p) PROVE GoldenIInv'
<1>1. PICK w \in AtWork : w = loop[p] /\ w.at = "execute"
  BY DEF Golden!Execute, GoldenIInv, GoldenTyped, AtRest
<1> DEFINE k == loop[p].row
           t == [w EXCEPT !.at = "compare"]
<1>2. loop' = [loop EXCEPT ![p] = t] /\ UNCHANGED <<day, lastRun, alerts, compared, overlap, stranded, errors>>
  <2>1. loop' = [loop EXCEPT ![p] = t]
    BY <1>1 DEF Golden!Execute
  <2>2. UNCHANGED <<day, lastRun, alerts, compared, overlap, stranded, errors>>
    BY DEF Golden!Execute, Golden!history
  <2>3. QED BY <2>1, <2>2
<1>3. Works(p) /\ Holds(p)
  BY <1>1 DEF Works, Holds, Judges, Golden!Judging
<1>4. /\ k \in DOMAIN rows \ compared /\ rows[k].tenant = Golden!TenantOf(p)
      /\ rows[k].day = loop[p].name /\ rows[k].status = "running"
  BY <1>1, <1>3 DEF GoldenIInv, HoldsItsRow
<1>5. rows \in Seq(GoldenRun) /\ compared \subseteq DOMAIN rows
  BY DEF GoldenIInv, GoldenTyped
<1>6. PICK q \in GoldenRun : q = rows[k]
  BY <1>4, <1>5
<1>7. PICK new \in GoldenRun :
        /\ rows' = [rows EXCEPT ![k] = new]
        /\ new.tenant = q.tenant /\ new.day = q.day /\ new.status \in {"completed", "failed"}
  <2>1. PICK outcome \in Outcomes(Golden!TenantOf(p), loop[p].name) :
          rows' = [rows EXCEPT ![k].status = IF outcome = "failed" THEN "failed" ELSE "completed",
                               ![k].high = (outcome = "high")]
    BY DEF Golden!Execute
  <2> DEFINE status == IF outcome = "failed" THEN "failed" ELSE "completed"
             high == (outcome = "high")
             v == [q EXCEPT !.status = status, !.high = high]
  <2>2. rows' = [rows EXCEPT ![k] = v]
    BY <1>6, <2>1
  <2>3. status \in {"completed", "failed"} /\ high \in BOOLEAN
    OBVIOUS
  <2> HIDE DEF status, high
  <2>4. v \in GoldenRun /\ v.tenant = q.tenant /\ v.day = q.day /\ v.status \in {"completed", "failed"}
    BY <2>3 DEF GoldenRun
  <2> HIDE DEF v
  <2>5. QED BY <2>2, <2>4
<1>8. /\ DOMAIN rows' = DOMAIN rows /\ rows'[k] = new /\ rows' \in Seq(GoldenRun)
      /\ \A i \in DOMAIN rows : i # k => rows'[i] = rows[i]
      /\ \A i \in DOMAIN rows : rows'[i].tenant = rows[i].tenant /\ rows'[i].day = rows[i].day
  <2>1. rows' \in Seq(GoldenRun)
    BY <1>4, <1>5, <1>7
  <2>2. QED BY <1>4, <1>6, <1>7, <2>1
<1>9. t \in AtWork /\ t.at = "compare" /\ t.left = w.left /\ t.name = w.name /\ t.row = k
  <2>1. t \in AtWork /\ t.at = "compare" /\ t.left = w.left /\ t.name = w.name /\ t.row = w.row
    BY DEF AtWork, Golden!Judging
  <2>2. QED BY <1>1, <2>1
<1> HIDE DEF t
<1>10. /\ loop' \in [Process -> AtWork \cup AtRest] /\ loop'[p] = t
       /\ \A r \in Process : r # p => loop'[r] = loop[r]
  <2>1. Turns(p, t)
    BY <1>2, <1>9 DEF Turns
  <2>2. QED BY <2>1, TurnsOne DEF GoldenIInv
<1>11. /\ \A r \in Process : Golden!TenantOf(r)' = Golden!TenantOf(r) /\ Works(r)' = Works(r) /\ Holds(r)' = Holds(r)
       /\ \A r \in Process : loop'[r].name = loop[r].name
       /\ \A r \in Process : Holds(r) => loop'[r].row = loop[r].row
  BY <1>1, <1>3, <1>9, <1>10 DEF Golden!TenantOf, Works, Holds, Judges, Golden!Judging
<1>12. GoldenTyped'
  BY <1>2, <1>8, <1>10 DEF GoldenIInv, GoldenTyped
<1> HIDE DEF k
<1>13. \A r \in Process : r # p /\ Holds(r) => loop[r].row # k
  BY <1>3 DEF GoldenIInv, HeldByOneProcess, k
<1>14. HoldsItsRow'
  <2> SUFFICES ASSUME NEW r \in Process
               PROVE  /\ Works(r) => loop[r].name <= day
                      /\ Holds(r) =>
                           /\ loop[r].row \in DOMAIN rows \ compared
                           /\ rows[loop[r].row].tenant = Golden!TenantOf(r) /\ rows[loop[r].row].day = loop[r].name
                      /\ loop'[r].at = "execute" => rows'[loop'[r].row].status = "running"
    BY <1>2, <1>8, <1>11 DEF HoldsItsRow
  <2>1. loop'[r].at = "execute" => r # p /\ loop[r].at = "execute" /\ Holds(r)
    BY <1>9, <1>10 DEF Holds, Judges, Golden!Judging
  <2>2. loop'[r].at = "execute" => rows'[loop'[r].row].status = "running"
    BY <1>8, <1>10, <1>13, <2>1 DEF GoldenIInv, HoldsItsRow
  <2>3. QED BY <2>2 DEF GoldenIInv, HoldsItsRow
<1>15. HeldByOneProcess'
  BY <1>11 DEF GoldenIInv, HeldByOneProcess
<1>16. WorkOverlaps'
  BY <1>2, <1>11 DEF GoldenIInv, WorkOverlaps
<1>17. WorksOnLatest'
  <2> SUFFICES ASSUME NEW r \in Process, Works(r)
               PROVE  \/ Golden!TenantOf(r) \in overlap
                      \/ /\ \A i \in DOMAIN rows : rows[i].tenant = Golden!TenantOf(r) => rows[i].day <= loop[r].name
                         /\ loop'[r].at = "insert" =>
                              \A i \in DOMAIN rows : rows[i].tenant = Golden!TenantOf(r) => rows[i].day # loop[r].name
    BY <1>2, <1>8, <1>11 DEF WorksOnLatest, Golden!RowOf
  <2>1. loop'[r].at = "insert" => loop[r].at = "insert"
    BY <1>9, <1>10
  <2>2. QED BY <2>1 DEF GoldenIInv, WorksOnLatest, Golden!RowOf
<1>18. RowsOfThePast' /\ DaysHaveOneRow'
  BY <1>2, <1>8 DEF GoldenIInv, RowsOfThePast, DaysHaveOneRow
<1>19. \A i \in compared : i \in DOMAIN rows /\ i # k /\ rows'[i] = rows[i]
  BY <1>4, <1>5, <1>8 DEF k
<1>20. ComparedIsSettled'
  BY <1>2, <1>11, <1>19 DEF GoldenIInv, ComparedIsSettled
<1>21. RunningIsExecuted'
  <2> SUFFICES ASSUME NEW i \in DOMAIN rows, rows'[i].status = "running"
               PROVE  i \in stranded \/ \E r \in Process : loop'[r].at = "execute" /\ loop'[r].row = i
    BY <1>2, <1>8 DEF RunningIsExecuted, Executed
  <2>1. i # k
    BY <1>7, <1>8
  <2>2. i \in stranded \/ \E r \in Process : loop[r].at = "execute" /\ loop[r].row = i
    BY <1>8, <2>1 DEF GoldenIInv, RunningIsExecuted, Executed
  <2>3. QED BY <1>10, <2>1, <2>2 DEF k
<1>22. ASSUME NEW i \in DOMAIN rows, i # k, rows[k].tenant = rows[i].tenant => rows[k].day >= rows[i].day
       PROVE  Golden!Earlier(i)' = Golden!Earlier(i) /\ Golden!Dropped(i)' = Golden!Dropped(i)
  <2>0. rows'[i] = rows[i]
    BY <1>8, <1>22
  <2>1. rows[k].tenant = rows[i].tenant => ~(rows[k].day < rows[i].day)
    <3>1. rows[k] \in GoldenRun /\ rows[i] \in GoldenRun
      BY <1>4, <1>5 DEF k
    <3>2. rows[k].day \in Nat /\ rows[i].day \in Nat
      BY <3>1 DEF GoldenRun
    <3>3. QED BY <1>22, <3>2
  <2>2. Golden!Earlier(i) = {j \in DOMAIN rows : rows[j].tenant = rows[i].tenant /\ rows[j].status = "completed" /\ rows[j].day < rows[i].day}
    BY DEF Golden!Earlier, Golden!Completed
  <2>3. Golden!Earlier(i)' = {j \in DOMAIN rows : rows[j].tenant = rows[i].tenant /\ rows'[j].status = "completed" /\ rows[j].day < rows[i].day}
    BY <1>8, <2>0 DEF Golden!Earlier, Golden!Completed
  <2>4. k \notin Golden!Earlier(i)
    BY <2>1, <2>2
  <2>5. Golden!Earlier(i)' = Golden!Earlier(i)
    BY <1>8, <2>1, <2>2, <2>3
  <2>6. Golden!Earlier(i) # {} => Golden!Max(Golden!Earlier(i)) \in Golden!Earlier(i)
    <3>1. GoldenTyped /\ Golden!Earlier(i) \subseteq DOMAIN rows
      BY <2>2 DEF GoldenIInv
    <3>2. QED BY <3>1, LatestRow
  <2>7. Golden!Max(Golden!Earlier(i))' = Golden!Max(Golden!Earlier(i))
    BY <2>5 DEF Golden!Max
  <2>8. Golden!Dropped(i)' = Golden!Dropped(i)
    BY <1>8, <2>0, <2>2, <2>4, <2>5, <2>6, <2>7 DEF Golden!Dropped
  <2>9. QED BY <2>5, <2>8
<1>23. DropIsAlerted'
  <2> SUFFICES ASSUME NEW i \in compared, rows[i].tenant \notin overlap PROVE (Golden!Dropped(i) <=> Alerted(i))'
    BY <1>2, <1>8, <1>19 DEF DropIsAlerted
  <2>1. rows[k].tenant = rows[i].tenant => rows[k].day >= rows[i].day
    BY <1>3, <1>4 DEF GoldenIInv, ComparedIsSettled, k
  <2>2. Golden!Earlier(i)' = Golden!Earlier(i) /\ Golden!Dropped(i)' = Golden!Dropped(i)
    BY <1>19, <1>22, <2>1
  <2>3. Golden!Dropped(i) <=> Alerted(i)
    BY DEF GoldenIInv, DropIsAlerted
  <2>4. QED BY <1>2, <2>2, <2>3 DEF Alerted
<1>24. AlertIsDue'
  <2>1. loop'[p].at \notin {"previous", "alert"}
    BY <1>9, <1>10
  <2>2. ASSUME NEW z \in Process, z # p, Judges(z) PROVE rows'[loop[z].row].status = rows[loop[z].row].status
    <3>1. Holds(z) /\ loop[z].row # k
      BY <1>13, <2>2 DEF Holds
    <3>2. QED BY <1>8, <3>1 DEF GoldenIInv, HoldsItsRow
  <2>3. ASSUME NEW z \in Process, NEW i \in DOMAIN rows, z # p, Judges(z), loop[z].row = i, rows[i].tenant \notin overlap
        PROVE  Golden!Earlier(i)' = Golden!Earlier(i) /\ Golden!Dropped(i)' = Golden!Dropped(i)
    <3>1. Holds(z) /\ Works(z) /\ i # k
      BY <1>13, <2>3 DEF Holds, Works
    <3>2. rows[i].tenant = Golden!TenantOf(z) /\ rows[k].tenant = Golden!TenantOf(p)
      BY <1>4, <2>3, <3>1 DEF GoldenIInv, HoldsItsRow, k
    <3>3. rows[k].tenant # rows[i].tenant
      BY <1>3, <2>3, <3>1, <3>2 DEF GoldenIInv, WorkOverlaps
    <3>4. QED BY <1>22, <3>1, <3>3
  <2>4. QED BY <1>2, <1>8, <1>10, <1>11, <2>1, <2>2, <2>3, DueStays
<1>25. Golden!JudgedOrStranded'
  <2> SUFFICES ASSUME NEW i \in DOMAIN rows, rows'[i].status = "completed"
               PROVE  i \in compared \cup stranded \/ \E r \in Process : loop'[r].at \in Golden!Judging /\ loop'[r].row = i
    BY <1>2, <1>8 DEF Golden!JudgedOrStranded
  <2>1. CASE i = k
    BY <1>9, <1>10, <2>1 DEF Golden!Judging
  <2>2. CASE i # k
    <3>1. loop[p].at \notin Golden!Judging
      BY <1>1 DEF Golden!Judging
    <3>2. QED BY <1>8, <1>10, <2>2, <3>1 DEF GoldenIInv, Golden!JudgedOrStranded
  <2>3. QED BY <2>1, <2>2
<1>26. QED BY <1>12, <1>14, <1>15, <1>16, <1>17, <1>18, <1>20, <1>21, <1>23, <1>24, <1>25 DEF GoldenIInv

\* Without a race, the newest completed run but one is that of an earlier day.
LEMMA GoldenPrevious ==
  ASSUME GoldenIInv, NEW i \in DOMAIN rows, rows[i].tenant \notin overlap,
         \A j \in DOMAIN rows : rows[j].tenant = rows[i].tenant => rows[j].day <= rows[i].day
  PROVE  Golden!Completed(rows[i].tenant) \ {i} = Golden!Earlier(i)
<1>1. \A j \in DOMAIN rows : rows[j] \in GoldenRun
  BY DEF GoldenIInv, GoldenTyped
<1>2. \A j \in DOMAIN rows : rows[j].day \in Nat
  BY <1>1 DEF GoldenRun
<1>3. \A j \in DOMAIN rows : rows[j].tenant = rows[i].tenant /\ j # i => rows[j].day # rows[i].day
  BY DEF GoldenIInv, DaysHaveOneRow
<1>4. \A j \in DOMAIN rows : rows[j].tenant = rows[i].tenant /\ j # i <=> rows[j].tenant = rows[i].tenant /\ rows[j].day < rows[i].day
  BY <1>2, <1>3
<1>5. QED BY <1>4 DEF Golden!Completed, Golden!Earlier

\* A process that judges a run goes on to the next step of it.
LEMMA GoldenGoesOn ==
  ASSUME GoldenIInv, NEW p \in Process, NEW t, Judges(p), Turns(p, t), t.at \in {"previous", "alert"},
         t.left = loop[p].left, t.name = loop[p].name, t.row = loop[p].row,
         rows[t.row].status = "completed",
         t.at = "alert" =>
           Golden!TenantOf(p) \in overlap \/ (Golden!Dropped(t.row) /\ t.prior \in Golden!Earlier(t.row)),
         UNCHANGED <<day, lastRun, rows, alerts, compared, overlap, stranded>>
  PROVE  GoldenIInv'
<1>1. /\ loop' \in [Process -> AtWork \cup AtRest] /\ loop'[p] = t
      /\ \A q \in Process : q # p => loop'[q] = loop[q]
  BY TurnsOne DEF GoldenIInv
<1>2. GoldenTyped'
  BY <1>1 DEF GoldenIInv, GoldenTyped
<1>3. /\ \A q \in Process : Golden!TenantOf(q)' = Golden!TenantOf(q) /\ (Judges(q)' <=> Judges(q))
      /\ \A q \in Process : (Works(q)' <=> Works(q)) /\ (Holds(q)' <=> Holds(q))
      /\ \A q \in Process : loop'[q].name = loop[q].name /\ loop'[q].row = loop[q].row
      /\ \A q \in Process : (loop'[q].at = "execute") <=> (loop[q].at = "execute")
      /\ \A q \in Process : (loop'[q].at = "insert") <=> (loop[q].at = "insert")
  BY <1>1 DEF Golden!TenantOf, Works, Holds, Judges, Golden!Judging
<1>4. HoldsItsRow' /\ HeldByOneProcess' /\ WorkOverlaps'
  <2>1. HoldsItsRow'
    BY <1>3 DEF GoldenIInv, HoldsItsRow
  <2>2. HeldByOneProcess'
    BY <1>3 DEF GoldenIInv, HeldByOneProcess
  <2>3. WorkOverlaps'
    BY <1>3 DEF GoldenIInv, WorkOverlaps
  <2>4. QED BY <2>1, <2>2, <2>3
<1>5. WorksOnLatest' /\ ComparedIsSettled'
  <2>1. WorksOnLatest'
    BY <1>3 DEF GoldenIInv, WorksOnLatest, Golden!RowOf
  <2>2. ComparedIsSettled'
    BY <1>3 DEF GoldenIInv, ComparedIsSettled
  <2>3. QED BY <2>1, <2>2
<1>6. RowsOfThePast' /\ DaysHaveOneRow'
  BY DEF GoldenIInv, RowsOfThePast, DaysHaveOneRow
<1>7. RunningIsExecuted'
  BY <1>3 DEF GoldenIInv, RunningIsExecuted, Executed
<1>8. DropIsAlerted'
  BY SameRows DEF GoldenIInv, GoldenTyped, DropIsAlerted, Alerted
<1>9. AlertIsDue'
  <2> SUFFICES ASSUME NEW q \in Process, NEW i \in DOMAIN rows, loop'[q].row = i
               PROVE  /\ loop'[q].at \in {"previous", "alert"} => rows[i].status = "completed"
                      /\ loop'[q].at = "alert" =>
                           \/ Golden!TenantOf(q) \in overlap
                           \/ Golden!Dropped(i) /\ loop'[q].prior \in Golden!Earlier(i)
    BY <1>3, SameRows DEF AlertIsDue
  <2>1. CASE q = p
    BY <1>1, <2>1
  <2>2. CASE q # p
    BY <1>1, <2>2 DEF GoldenIInv, AlertIsDue
  <2>3. QED BY <2>1, <2>2
<1>10. Golden!JudgedOrStranded'
  BY <1>3 DEF GoldenIInv, Golden!JudgedOrStranded, Judges
<1>11. QED BY <1>2, <1>4, <1>5, <1>6, <1>7, <1>8, <1>9, <1>10 DEF GoldenIInv

LEMMA GoldenCompare ==
  ASSUME GoldenIInv, NEW p \in Process, Golden!Compare(p) PROVE GoldenIInv'
<1>1. PICK w \in AtWork : w = loop[p] /\ w.at = "compare"
  BY DEF Golden!Compare, GoldenIInv, GoldenTyped, AtRest
<1>2. Judges(p) /\ UNCHANGED <<day, rows, alerts, compared, overlap, stranded, errors>>
  BY <1>1 DEF Golden!Compare, Golden!history, Judges, Golden!Judging
<1>3. CASE rows[w.row].status = "completed"
  <2> DEFINE t == [w EXCEPT !.at = "previous"]
  <2>1. loop' = [loop EXCEPT ![p] = t] /\ UNCHANGED lastRun
    BY <1>1, <1>3 DEF Golden!Compare
  <2>2. t \in AtWork /\ t.at = "previous" /\ t.left = w.left /\ t.name = w.name /\ t.row = w.row
    BY DEF AtWork, Golden!Judging
  <2> HIDE DEF t
  <2>3. Turns(p, t)
    BY <2>1, <2>2 DEF Turns
  <2>4. QED BY <1>1, <1>2, <1>3, <2>1, <2>2, <2>3, GoldenGoesOn
<1>4. CASE rows[w.row].status # "completed"
  <2>1. Golden!NextTenant(p) /\ GoldenTyped
    BY <1>1, <1>4 DEF Golden!Compare, GoldenIInv
  <2>2. PICK t : Turns(p, t) /\ t.at \in {"idle", "look"}
    BY <1>1, <2>1, GoldenNextTenant
  <2>3. lastRun' \in [Process -> Nat]
    BY <1>1, <2>1, GoldenNextTenant
  <2>4. QED BY <1>1, <1>2, <1>4, <2>2, <2>3, GoldenLeaves
<1>5. QED BY <1>3, <1>4

\* Without a race, the run is worse than the previous one if and only if it is worse
\* than the last one of an earlier day.
LEMMA GoldenWorse ==
  ASSUME GoldenIInv, NEW p \in Process, NEW k, k = loop[p].row, Judges(p), Golden!TenantOf(p) \notin overlap
  PROVE  /\ Golden!Worse(k) # {} <=> Golden!Dropped(k)
         /\ Golden!Worse(k) \subseteq Golden!Earlier(k)
<1>1. Works(p) /\ Holds(p)
  BY DEF Works, Holds
<1>2. k \in DOMAIN rows /\ rows[k].tenant = Golden!TenantOf(p) /\ rows[k].day = loop[p].name
  BY <1>1 DEF GoldenIInv, HoldsItsRow
<1>3. \A j \in DOMAIN rows : rows[j].tenant = rows[k].tenant => rows[j].day <= rows[k].day
  BY <1>1, <1>2 DEF GoldenIInv, WorksOnLatest
<1>4. Golden!Completed(rows[k].tenant) \ {k} = Golden!Earlier(k)
  BY <1>2, <1>3, GoldenPrevious
<1>5. Golden!Previous(k) = IF Golden!Earlier(k) = {} THEN {} ELSE {Golden!Max(Golden!Earlier(k))}
  BY <1>4 DEF Golden!Previous
<1>6. Golden!Earlier(k) # {} => Golden!Max(Golden!Earlier(k)) \in Golden!Earlier(k)
  <2>1. GoldenTyped /\ Golden!Earlier(k) \subseteq DOMAIN rows
    BY DEF GoldenIInv, Golden!Earlier, Golden!Completed
  <2>2. QED BY <2>1, LatestRow
<1>7. QED BY <1>5, <1>6 DEF Golden!Worse, Golden!Dropped

\* A run is judged: the alert of it is all that is inserted, and it is due.
LEMMA GoldenJudges ==
  ASSUME GoldenIInv, NEW p \in Process, Judges(p), NEW k, k = loop[p].row, rows[k].status = "completed",
         Golden!NextTenant(p), UNCHANGED <<day, rows, overlap, stranded, errors>>,
         NEW found, \A a \in found : \E j : a = <<k, j>>,
         alerts' = alerts \cup found, compared' = compared \cup {k},
         rows[k].tenant \notin overlap => (Golden!Dropped(k) <=> \E j \in Golden!Earlier(k) : <<k, j>> \in found)
  PROVE  GoldenIInv'
<1>1. loop[p].at # "idle"
  BY DEF Judges, Golden!Judging
<1>2. PICK t : Turns(p, t) /\ t.at \in {"idle", "look"}
  BY <1>1, GoldenNextTenant DEF GoldenIInv
<1>3. lastRun' \in [Process -> Nat]
  BY <1>1, GoldenNextTenant DEF GoldenIInv
<1>4. Works(p) /\ Holds(p)
  BY <1>1 DEF Works, Holds, Judges, Golden!Judging
<1>5. k \in DOMAIN rows \ compared /\ rows[k].tenant = Golden!TenantOf(p) /\ rows[k].day = loop[p].name
  BY <1>4 DEF GoldenIInv, HoldsItsRow
<1>6. /\ loop' \in [Process -> AtWork \cup AtRest] /\ loop'[p] = t
      /\ \A q \in Process : q # p => loop'[q] = loop[q]
  BY <1>2, TurnsOne DEF GoldenIInv
<1>7. \A q \in Process : /\ Works(q)' => q # p /\ Works(q)
                         /\ Holds(q)' => q # p /\ Holds(q)
                         /\ loop'[q].at = "execute" => q # p
  BY <1>2, <1>6 DEF Works, Holds, Judges, Golden!Judging
<1>8. \A q \in Process : q # p => Golden!TenantOf(q)' = Golden!TenantOf(q)
  BY <1>6 DEF Golden!TenantOf
<1>9. GoldenTyped'
  <2>1. \A a \in found : a[1] = k
    OBVIOUS
  <2>2. QED BY <1>3, <1>5, <1>6, <2>1 DEF GoldenIInv, GoldenTyped
<1>10. HoldsItsRow'
  <2>1. \A q \in Process : q # p /\ Holds(q) => loop[q].row # k
    BY <1>4 DEF GoldenIInv, HeldByOneProcess
  <2>2. QED BY <1>6, <1>7, <1>8, <2>1 DEF GoldenIInv, HoldsItsRow
<1>11. HeldByOneProcess' /\ WorkOverlaps'
  BY <1>6, <1>7, <1>8 DEF GoldenIInv, HeldByOneProcess, WorkOverlaps
<1>12. WorksOnLatest'
  BY <1>6, <1>7, <1>8 DEF GoldenIInv, WorksOnLatest, Golden!RowOf
<1>13. RowsOfThePast' /\ DaysHaveOneRow'
  BY DEF GoldenIInv, RowsOfThePast, DaysHaveOneRow
<1>14. ComparedIsSettled'
  <2> SUFFICES ASSUME NEW i \in compared'
               PROVE  /\ rows[i].status = "completed"
                      /\ \/ rows[i].tenant \in overlap
                         \/ \A q \in Process :
                              Works(q)' /\ Golden!TenantOf(q)' = rows[i].tenant => loop'[q].name >= rows[i].day
    BY DEF ComparedIsSettled
  <2>1. CASE i \in compared
    BY <1>6, <1>7, <1>8, <2>1 DEF GoldenIInv, ComparedIsSettled
  <2>2. CASE i = k
    <3>1. ASSUME NEW q \in Process, Works(q)', Golden!TenantOf(q)' = rows[k].tenant PROVE rows[k].tenant \in overlap
      BY <1>4, <1>5, <1>7, <1>8, <3>1 DEF GoldenIInv, WorkOverlaps
    <3>2. QED BY <2>2, <3>1
  <2>3. QED BY <2>1, <2>2
<1>15. RunningIsExecuted'
  BY <1>6 DEF GoldenIInv, RunningIsExecuted, Executed
<1>16. \A i \in DOMAIN rows : Golden!Earlier(i)' = Golden!Earlier(i) /\ Golden!Dropped(i)' = Golden!Dropped(i)
  BY SameRows
<1>17. ASSUME NEW i \in compared PROVE Alerted(i)' = Alerted(i)
  <2>1. i \in DOMAIN rows /\ i # k
    BY <1>5 DEF GoldenIInv, GoldenTyped
  <2>2. \A j : <<i, j>> \in alerts' <=> <<i, j>> \in alerts
    BY <2>1
  <2>3. Golden!Earlier(i)' = Golden!Earlier(i)
    BY <1>16, <2>1
  <2>4. QED BY <2>2, <2>3 DEF Alerted
<1>18. ASSUME rows[k].tenant \notin overlap PROVE Golden!Dropped(k) <=> Alerted(k)'
  <2>1. \A j : <<k, j>> \notin alerts
    <3>1. ASSUME NEW j, <<k, j>> \in alerts PROVE FALSE
      <4>1. <<k, j>>[1] \in compared
        BY <3>1 DEF GoldenIInv, GoldenTyped
      <4>2. QED BY <1>5, <4>1
    <3>2. QED BY <3>1
  <2>2. \A j : <<k, j>> \in alerts' <=> <<k, j>> \in found
    BY <2>1
  <2>3. Golden!Earlier(k)' = Golden!Earlier(k)
    BY <1>5, <1>16
  <2>4. QED BY <1>18, <2>2, <2>3 DEF Alerted
<1>19. DropIsAlerted'
  <2> SUFFICES ASSUME NEW i \in compared', rows[i].tenant \notin overlap PROVE Golden!Dropped(i)' <=> Alerted(i)'
    BY DEF DropIsAlerted
  <2>1. CASE i = k
    BY <1>5, <1>16, <1>18, <2>1
  <2>2. CASE i \in compared
    <3>1. Golden!Dropped(i) <=> Alerted(i)
      BY <2>2 DEF GoldenIInv, DropIsAlerted
    <3>2. Golden!Dropped(i)' = Golden!Dropped(i)
      BY <1>16, <2>2 DEF GoldenIInv, GoldenTyped
    <3>3. QED BY <1>17, <2>2, <3>1, <3>2
  <2>3. QED BY <2>1, <2>2
<1>20. AlertIsDue'
  <2>1. loop'[p].at \notin {"previous", "alert"}
    BY <1>2, <1>6
  <2>2. QED BY <1>6, <1>8, <1>16, <2>1, DueStays
<1>21. Golden!JudgedOrStranded'
  <2> SUFFICES ASSUME NEW i \in DOMAIN rows, rows[i].status = "completed"
               PROVE  \/ i \in compared' \cup stranded
                      \/ \E q \in Process : loop'[q].at \in Golden!Judging /\ loop'[q].row = i
    BY DEF Golden!JudgedOrStranded
  <2>1. i \in compared \cup stranded \/ \E q \in Process : loop[q].at \in Golden!Judging /\ loop[q].row = i
    BY DEF GoldenIInv, Golden!JudgedOrStranded
  <2>2. ASSUME NEW q \in Process, loop[q].at \in Golden!Judging, loop[q].row = i, i # k
        PROVE  loop'[q].at \in Golden!Judging /\ loop'[q].row = i
    BY <1>6, <2>2
  <2>3. QED BY <2>1, <2>2
<1>22. QED BY <1>9, <1>10, <1>11, <1>12, <1>13, <1>14, <1>15, <1>19, <1>20, <1>21 DEF GoldenIInv

LEMMA GoldenFindPrevious ==
  ASSUME GoldenIInv, NEW p \in Process, Golden!FindPrevious(p) PROVE GoldenIInv'
<1>1. PICK w \in AtWork : w = loop[p] /\ w.at = "previous"
  BY DEF Golden!FindPrevious, GoldenIInv, GoldenTyped, AtRest
<1>2. PICK k : k = loop[p].row
  OBVIOUS
<1>3. Judges(p) /\ UNCHANGED <<day, rows, alerts, overlap, stranded, errors>>
  BY <1>1 DEF Golden!FindPrevious, Judges, Golden!Judging
<1>4. /\ k \in DOMAIN rows /\ rows[k].tenant = Golden!TenantOf(p) /\ rows[k].status = "completed"
  BY <1>1, <1>2, <1>3 DEF GoldenIInv, HoldsItsRow, Holds, AlertIsDue
<1>5. Golden!TenantOf(p) \notin overlap => /\ Golden!Worse(k) # {} <=> Golden!Dropped(k)
                                          /\ Golden!Worse(k) \subseteq Golden!Earlier(k)
  BY <1>2, <1>3, GoldenWorse
<1>6. CASE Golden!Worse(k) = {}
  <2>1. Golden!NextTenant(p) /\ compared' = compared \cup {k}
    BY <1>2, <1>6 DEF Golden!FindPrevious
  <2>2. PICK found : found = {}
    OBVIOUS
  <2>3. (\A a \in found : \E j : a = <<k, j>>) /\ alerts' = alerts \cup found
    BY <1>3, <2>2
  <2>4. rows[k].tenant \notin overlap => (Golden!Dropped(k) <=> \E j \in Golden!Earlier(k) : <<k, j>> \in found)
    BY <1>4, <1>5, <1>6, <2>2
  <2>5. QED BY <1>2, <1>3, <1>4, <2>1, <2>3, <2>4, GoldenJudges
<1>7. CASE Golden!Worse(k) # {}
  <2>1. Golden!Worse(k) \subseteq DOMAIN rows
    <3>1. Golden!Completed(rows[k].tenant) \ {k} \subseteq DOMAIN rows
      BY DEF Golden!Completed
    <3>2. Golden!Previous(k) \subseteq DOMAIN rows
      BY <3>1, LatestRow DEF Golden!Previous, GoldenIInv
    <3>3. QED BY <3>2 DEF Golden!Worse
  <2>2. PICK j \in Golden!Worse(k) : j = Golden!Max(Golden!Worse(k))
    BY <1>7, <2>1, LatestRow DEF GoldenIInv
  <2>3. j \in Nat
    BY <2>1, <2>2 DEF GoldenIInv, GoldenTyped
  <2> DEFINE t == [w EXCEPT !.at = "alert", !.prior = j]
  <2>4. loop' = [loop EXCEPT ![p] = t] /\ UNCHANGED <<lastRun, compared>>
    BY <1>1, <1>2, <1>7, <2>2 DEF Golden!FindPrevious
  <2>5. t \in AtWork /\ t.at = "alert" /\ t.left = w.left /\ t.name = w.name /\ t.row = w.row /\ t.prior = j
    BY <2>3 DEF AtWork, Golden!Judging
  <2> HIDE DEF t
  <2>6. Turns(p, t)
    BY <2>4, <2>5 DEF Turns
  <2>7. Golden!TenantOf(p) \in overlap \/ (Golden!Dropped(k) /\ j \in Golden!Earlier(k))
    BY <1>5, <1>7, <2>2
  <2>8. t.row = k
    BY <1>1, <1>2, <2>5
  <2>9. QED BY <1>1, <1>3, <1>4, <2>4, <2>5, <2>6, <2>7, <2>8, GoldenGoesOn
<1>8. QED BY <1>6, <1>7

LEMMA GoldenAlert ==
  ASSUME GoldenIInv, NEW p \in Process, Golden!Alert(p) PROVE GoldenIInv'
<1>1. PICK k : k = loop[p].row
  OBVIOUS
<1>2. PICK found : found = {<<k, loop[p].prior>>}
  OBVIOUS
<1>3. /\ loop[p].at = "alert"
      /\ Golden!NextTenant(p)
      /\ UNCHANGED <<day, rows, overlap, stranded, errors>>
      /\ alerts' = alerts \cup found
      /\ compared' = compared \cup {k}
  BY <1>1, <1>2 DEF Golden!Alert
<1>4. Judges(p)
  BY <1>3 DEF Judges, Golden!Judging
<1>5. k \in DOMAIN rows /\ rows[k].tenant = Golden!TenantOf(p)
  BY <1>1, <1>4 DEF GoldenIInv, HoldsItsRow, Holds
<1>6. /\ rows[k].status = "completed"
      /\ Golden!TenantOf(p) \in overlap \/ (Golden!Dropped(k) /\ loop[p].prior \in Golden!Earlier(k))
  BY <1>1, <1>3, <1>5 DEF GoldenIInv, AlertIsDue
<1>7. rows[k].tenant \notin overlap => (Golden!Dropped(k) <=> \E j \in Golden!Earlier(k) : <<k, j>> \in found)
  BY <1>2, <1>5, <1>6
<1>8. \A a \in found : \E j : a = <<k, j>>
  BY <1>2
<1>9. Golden!NextTenant(p) /\ rows[k].status = "completed"
  BY <1>3, <1>6
<1>10. UNCHANGED <<day, rows, overlap, stranded, errors>>
  BY <1>3
<1>11. alerts' = alerts \cup found /\ compared' = compared \cup {k}
  BY <1>3
<1>12. QED BY <1>1, <1>4, <1>7, <1>8, <1>9, <1>10, <1>11, GoldenJudges

LEMMA GoldenNext == GoldenIInv /\ [Next]_vars => GoldenIInv'
<1> SUFFICES ASSUME GoldenIInv, [Next]_vars PROVE GoldenIInv'
  OBVIOUS
<1>1. CASE UNCHANGED goldenVars
  <2>1. UNCHANGED <<day, loop, lastRun, rows, alerts, compared, overlap, stranded, errors>>
    BY <1>1 DEF goldenVars
  <2>2. GoldenTyped' /\ HoldsItsRow' /\ HeldByOneProcess' /\ WorkOverlaps'
    BY <2>1 DEF GoldenIInv, GoldenTyped, HoldsItsRow, HeldByOneProcess, WorkOverlaps, Works, Holds, Judges, Golden!Judging, Golden!TenantOf
  <2>3. WorksOnLatest' /\ RowsOfThePast' /\ ComparedIsSettled'
    BY <2>1 DEF GoldenIInv, WorksOnLatest, RowsOfThePast, ComparedIsSettled, Works, Holds, Judges, Golden!Judging, Golden!TenantOf, Golden!RowOf
  <2>4. RunningIsExecuted' /\ DaysHaveOneRow'
    BY <2>1 DEF GoldenIInv, RunningIsExecuted, Executed, DaysHaveOneRow
  <2>5. DropIsAlerted' /\ AlertIsDue' /\ Golden!JudgedOrStranded'
    <3>1. DropIsAlerted'
      BY <2>1, SameRows DEF GoldenIInv, GoldenTyped, DropIsAlerted, Alerted
    <3>2. AlertIsDue'
      BY <2>1, SameRows DEF GoldenIInv, AlertIsDue, Golden!TenantOf
    <3>3. Golden!JudgedOrStranded'
      BY <2>1 DEF GoldenIInv, Golden!JudgedOrStranded
    <3>4. QED BY <3>1, <3>2, <3>3
  <2>6. QED BY <2>2, <2>3, <2>4, <2>5 DEF GoldenIInv
<1>2. CASE Golden!NextDay
  BY <1>2, GoldenDayPasses
<1>3. ASSUME NEW p \in Process, Golden!Step(p) PROVE GoldenIInv'
  BY <1>3, GoldenBegin, GoldenLook, GoldenFound, GoldenInsert, GoldenExecute, GoldenCompare,
     GoldenFindPrevious, GoldenAlert DEF Golden!Step
<1>4. ASSUME NEW p \in Process, Golden!TickFails(p) \/ Golden!Restart(p) PROVE GoldenIInv'
  BY <1>4, GoldenStops
<1>5. QED BY <1>1, <1>2, <1>3, <1>4, OneService DEF Golden!Next

\* daily_golden_regression_loop(), worker.py: a tenant has one run a day.  A run that is
\* compared alerts if and only if it is worse than the one before; every completed run
\* is compared, unless its tick stopped before.  Two processes that worked on the
\* tenant at a time are excepted.
THEOREM ServicesJudgeDaysOnce == Services => []DaysAreJudgedOnce
<1>1. Services => []GoldenIInv
  BY GoldenInit, GoldenNext, PTL DEF Services
<1>2. QED BY <1>1, GoldenImplies, PTL

-----------------------------------------------------------------------------
(* The readers of the failures (FailureFeed) *)

\* The committed rows that are newer than r.
NewerThan(r) == {x \in visible : at[x] > at[r]}

FeedTyped ==
  /\ now \in Nat \ {0}
  /\ at \in [DOMAIN at -> 1..now]
  /\ visible \subseteq DOMAIN at /\ IsFiniteSet(visible)
  /\ last \in Nat
  /\ sent \in Seq(visible)
  /\ cursor = [step |-> cursor.step, offset |-> cursor.offset, total |-> cursor.total, rows |-> cursor.rows]
  /\ cursor.step \in {"begin", "count", "select", "end"} /\ cursor.offset \in Nat
  /\ owed \subseteq visible

\* The stream is at the newest row that it has sent.
StreamGoesOn ==
  /\ Feed!StreamSkipsOnlyLate
  /\ \A i \in DOMAIN sent : at[sent[i]] <= last

\* A row that a client is owed and has not got is on a page to come: the newer ones
\* fill the pages up to the offset.
PageToCome ==
  /\ cursor.step = "begin" => cursor.offset = 0 /\ owed = {}
  /\ cursor.step = "select" /\ ~between => cursor.total = Cardinality(visible)
  /\ cursor.step \in {"count", "select"} =>
       \A r \in owed : r \in cursor.rows \/ Feed!Tied(r, visible) \/ Cardinality(NewerThan(r)) >= cursor.offset

FeedIInv == FeedTyped /\ StreamGoesOn /\ PageToCome /\ Feed!PagesShowAll

LEMMA FeedCardinality == \A S : Feed!Cardinality(S) = Cardinality(S)
BY Zenon DEF Feed!Cardinality, Cardinality, Feed!IsFiniteSet, IsFiniteSet

\* The greatest of the instants of some rows.
LEMMA LatestOf ==
  ASSUME FeedTyped, NEW b \in SUBSET visible, b # {}
  PROVE  LET m == Feed!Max({at[r] : r \in b})
         IN  m \in Nat /\ (\A r \in b : at[r] <= m) /\ \E r \in b : at[r] = m
<1> DEFINE T == {at[r] : r \in b}
<1>1. \A r \in b : at[r] \in 1..now /\ at[r] \in Nat
  BY DEF FeedTyped
<1>2. T \in SUBSET Nat /\ T # {} /\ \A x \in T : x <= now
  BY <1>1 DEF FeedTyped
<1>3. IsFiniteSet(T)
  <2> HIDE DEF T
  <2>1. now \in Nat
    BY DEF FeedTyped
  <2>2. QED BY <1>2, <2>1, FS_BoundedSetOfNaturals
<1>4. Feed!Max(T) \in T /\ \A y \in T : Feed!Max(T) >= y
  <2> HIDE DEF T
  <2>1. \E x \in T : \A y \in T : x >= y
    BY <1>2, <1>3, Greatest
  <2>2. QED BY <2>1 DEF Feed!Max
<1>5. QED BY <1>1, <1>4

\* In its place in an ordered page a row without a tie comes after the newer ones.
LEMMA PlaceOf ==
  ASSUME FeedTyped, NEW q \in Feed!Ordered, NEW r \in visible, ~Feed!Tied(r, visible)
  PROVE  /\ Len(q) = Cardinality(visible) /\ Len(q) \in Nat
         /\ \E p \in 1..Len(q) : q[p] = r /\ Cardinality(NewerThan(r)) = p - 1
<1> DEFINE n == Cardinality(visible)
<1>1. n \in Nat
  BY FS_CardinalityType DEF FeedTyped
<1>2. /\ q \in [1..n -> visible] /\ \A i, j \in 1..n : i # j => q[i] # q[j]
      /\ \A i, j \in 1..n : i < j => at[q[i]] >= at[q[j]]
  BY FeedCardinality DEF Feed!Ordered, Feed!SetToSeqs
<1>3. Len(q) = n /\ DOMAIN q = 1..n
  BY <1>1, <1>2
<1>4. IsFiniteSet(1..n) /\ Cardinality(1..n) = n
  BY <1>1, FS_Interval
<1>5. q \in Surjection(1..n, visible)
  <2>1. q \in Injection(1..n, visible)
    BY <1>2 DEF Injection, IsInjective
  <2>2. IsFiniteSet(visible)
    BY DEF FeedTyped
  <2>3. QED BY <1>4, <2>1, <2>2, FS_Injection
<1>6. PICK p \in 1..n : q[p] = r
  BY <1>5 DEF Surjection
<1>7. \A x \in visible : at[x] \in Nat
  BY DEF FeedTyped
<1>8. \A i \in 1..n : q[i] \in NewerThan(r) <=> i < p
  <2> SUFFICES ASSUME NEW i \in 1..n PROVE q[i] \in NewerThan(r) <=> i < p
    OBVIOUS
  <2>1. q[i] \in visible /\ at[q[i]] \in Nat /\ at[r] \in Nat
    BY <1>2, <1>7
  <2>2. CASE i < p
    <3>1. at[q[i]] >= at[r] /\ q[i] # r
      BY <1>2, <1>6, <2>2
    <3>2. at[q[i]] # at[r]
      BY <2>1, <3>1 DEF Feed!Tied
    <3>3. QED BY <2>1, <2>2, <3>1, <3>2 DEF NewerThan
  <2>3. CASE i = p
    BY <1>6, <2>1, <2>3 DEF NewerThan
  <2>4. CASE i > p
    <3>1. at[r] >= at[q[i]]
      BY <1>2, <1>6, <2>4
    <3>2. QED BY <1>1, <2>1, <2>4, <3>1 DEF NewerThan
  <2>5. QED BY <1>1, <2>2, <2>3, <2>4
<1>9. Cardinality(NewerThan(r)) = p - 1
  <2> DEFINE f == [i \in 1..p - 1 |-> q[i]]
  <2>1. 1..p - 1 \subseteq 1..n /\ p - 1 \in Nat /\ \A i \in 1..n : i < p <=> i \in 1..p - 1
    BY <1>1
  <2>2. f \in [1..p - 1 -> NewerThan(r)] /\ \A i, j \in 1..p - 1 : f[i] = f[j] => i = j
    BY <1>2, <1>8, <2>1
  <2>3. \A x \in NewerThan(r) : \E i \in 1..p - 1 : f[i] = x
    <3> SUFFICES ASSUME NEW x \in NewerThan(r) PROVE \E i \in 1..p - 1 : f[i] = x
      OBVIOUS
    <3>1. PICK i \in 1..n : q[i] = x
      BY <1>5 DEF Surjection, NewerThan
    <3>2. QED BY <1>8, <2>1, <3>1
  <2>4. f \in Bijection(1..p - 1, NewerThan(r))
    <3> HIDE DEF f
    <3>1. QED BY <2>2, <2>3 DEF Bijection, Injection, Surjection, IsInjective
  <2>5. ExistsBijection(1..p - 1, NewerThan(r))
    <3> HIDE DEF f
    <3>1. QED BY <2>4 DEF ExistsBijection
  <2>6. IsFiniteSet(1..p - 1) /\ Cardinality(1..p - 1) = p - 1
    BY <2>1, FS_Interval
  <2>7. QED BY <2>5, <2>6, FS_Bijection
<1>10. QED BY <1>1, <1>3, <1>6, <1>9

LEMMA FeedInit == Init => FeedIInv
<1> SUFFICES ASSUME Feed!Init PROVE FeedIInv
  BY DEF Init, ApiInit
<1>1. /\ now = 1 /\ at = [r \in {} |-> 0] /\ visible = {} /\ last = 0 /\ sent = <<>> /\ owed = {}
      /\ cursor = [step |-> "begin", offset |-> 0, total |-> 0, rows |-> {}]
  BY DEF Feed!Init
<1>2. DOMAIN at = {} /\ at \in [DOMAIN at -> 1..now]
  BY <1>1
<1>3. FeedTyped
  BY <1>1, <1>2, FS_EmptySet DEF FeedTyped
<1>4. StreamGoesOn
  BY <1>1 DEF StreamGoesOn, Feed!StreamSkipsOnlyLate
<1>5. PageToCome /\ Feed!PagesShowAll
  BY <1>1 DEF PageToCome, Feed!PagesShowAll
<1>6. QED BY <1>3, <1>4, <1>5 DEF FeedIInv

\* The readers see the committed rows only.
LEMMA ReadersRest ==
  ASSUME FeedIInv, UNCHANGED <<visible, last, sent, late, cursor, owed, between>>,
         \A x \in visible : at'[x] = at[x]
  PROVE  StreamGoesOn' /\ PageToCome' /\ Feed!PagesShowAll'
<1>1. \A i \in DOMAIN sent : sent[i] \in visible
  BY DEF FeedIInv, FeedTyped
<1>2. owed \subseteq visible
  BY DEF FeedIInv, FeedTyped
<1>3. \A r \in visible : NewerThan(r)' = NewerThan(r)
  BY DEF NewerThan
<1>4. \A r \in visible : Feed!Tied(r, visible)' <=> Feed!Tied(r, visible)
  BY DEF Feed!Tied
<1>5. Feed!ToSet(sent) \subseteq visible
  BY <1>1 DEF Feed!ToSet
<1>6. \A r \in visible : Feed!Tied(r, Feed!ToSet(sent))' <=> Feed!Tied(r, Feed!ToSet(sent))
  BY <1>5 DEF Feed!Tied, Feed!ToSet
<1>7. StreamGoesOn'
  BY <1>1, <1>6 DEF FeedIInv, StreamGoesOn, Feed!StreamSkipsOnlyLate, Feed!ToSet
<1>8. PageToCome'
  BY <1>2, <1>3, <1>4 DEF FeedIInv, PageToCome
<1>9. Feed!PagesShowAll'
  BY <1>2, <1>4 DEF FeedIInv, Feed!PagesShowAll
<1>10. QED BY <1>7, <1>8, <1>9

LEMMA FeedWrite == ASSUME FeedIInv, NEW r \in Row, Feed!Write(r) PROVE FeedIInv'
<1>1. /\ r \notin DOMAIN at
      /\ at' = [x \in DOMAIN at \cup {r} |-> IF x = r THEN now ELSE at[x]]
      /\ UNCHANGED <<now, visible, last, sent, late, cursor, owed, between>>
  BY DEF Feed!Write
<1>2. at \in [DOMAIN at -> 1..now] /\ now \in Nat \ {0} /\ visible \subseteq DOMAIN at
  BY DEF FeedIInv, FeedTyped
<1>3. DOMAIN at' = DOMAIN at \cup {r} /\ at' \in [DOMAIN at' -> 1..now] /\ \A x \in visible : at'[x] = at[x]
  BY <1>1, <1>2
<1>4. FeedTyped'
  BY <1>1, <1>2, <1>3 DEF FeedIInv, FeedTyped
<1>5. QED BY <1>1, <1>3, <1>4, ReadersRest DEF FeedIInv

\* A row that is committed late is newer than some, and older than none that was sent.
LEMMA FeedCommit == ASSUME FeedIInv, NEW r \in Row, Feed!Commit(r) PROVE FeedIInv'
<1>1. /\ r \in DOMAIN at /\ r \notin visible /\ visible' = visible \cup {r}
      /\ late' = (IF at[r] <= last THEN late \cup {r} ELSE late)
      /\ between' = (between \/ cursor.step = "select")
      /\ UNCHANGED <<now, at, last, sent, cursor, owed>>
  BY DEF Feed!Commit
<1>2. IsFiniteSet(visible')
  BY <1>1, FS_AddElement DEF FeedIInv, FeedTyped
<1>3. sent \in Seq(visible')
  BY <1>1 DEF FeedIInv, FeedTyped
<1>4. FeedTyped'
  BY <1>1, <1>2, <1>3 DEF FeedIInv, FeedTyped
<1>5. StreamGoesOn'
  <2>1. Feed!ToSet(sent)' = Feed!ToSet(sent)
    BY <1>1 DEF Feed!ToSet
  <2>2. \A x : Feed!Tied(x, Feed!ToSet(sent))' <=> Feed!Tied(x, Feed!ToSet(sent))
    BY <1>1, <2>1 DEF Feed!Tied
  <2>3. \A x \in visible' \ Feed!ToSet(sent) : at[x] <= last => x \in late' \/ Feed!Tied(x, Feed!ToSet(sent))
    BY <1>1 DEF FeedIInv, StreamGoesOn, Feed!StreamSkipsOnlyLate
  <2>4. QED BY <1>1, <2>1, <2>2, <2>3 DEF FeedIInv, StreamGoesOn, Feed!StreamSkipsOnlyLate
<1>6. \A x : Feed!Tied(x, visible) => Feed!Tied(x, visible)'
  BY <1>1 DEF Feed!Tied
<1>7. ASSUME NEW x \in visible PROVE Cardinality(NewerThan(x)') >= Cardinality(NewerThan(x))
  <2>1. NewerThan(x) \subseteq NewerThan(x)' /\ NewerThan(x)' \subseteq visible'
    BY <1>1 DEF NewerThan
  <2>2. IsFiniteSet(NewerThan(x)')
    BY <1>2, <2>1, FS_Subset
  <2>3. Cardinality(NewerThan(x)) <= Cardinality(NewerThan(x)') /\ IsFiniteSet(NewerThan(x))
    BY <2>1, <2>2, FS_Subset
  <2>4. Cardinality(NewerThan(x)) \in Nat /\ Cardinality(NewerThan(x)') \in Nat
    BY <2>2, <2>3, FS_CardinalityType
  <2>5. QED BY <2>3, <2>4
<1>8. PageToCome'
  <2>1. ASSUME cursor.step \in {"count", "select"}, NEW x \in owed
        PROVE  x \in cursor.rows \/ Feed!Tied(x, visible)' \/ Cardinality(NewerThan(x)') >= cursor.offset
    <3>1. x \in visible /\ cursor.offset \in Nat /\ IsFiniteSet(visible)
      BY DEF FeedIInv, FeedTyped
    <3>2. x \in cursor.rows \/ Feed!Tied(x, visible) \/ Cardinality(NewerThan(x)) >= cursor.offset
      BY <2>1 DEF FeedIInv, PageToCome
    <3>3. Cardinality(NewerThan(x)) \in Nat /\ Cardinality(NewerThan(x)') \in Nat
      <4>1. NewerThan(x) \subseteq visible /\ NewerThan(x)' \subseteq visible'
        BY DEF NewerThan
      <4>2. QED BY <1>2, <3>1, <4>1, FS_Subset, FS_CardinalityType
    <3>4. QED BY <1>6, <1>7, <3>1, <3>2, <3>3
  <2>2. QED BY <1>1, <2>1 DEF FeedIInv, PageToCome
<1>9. Feed!PagesShowAll'
  BY <1>1, <1>6 DEF FeedIInv, Feed!PagesShowAll
<1>10. QED BY <1>4, <1>5, <1>8, <1>9 DEF FeedIInv

\* A sequence of all rows of a set has each of them once.
LEMMA SeqsOf ==
  ASSUME NEW b, IsFiniteSet(b), NEW q \in Feed!SetToSeqs(b)
  PROVE  /\ q \in Seq(b) /\ DOMAIN q = 1..Len(q) /\ Len(q) \in Nat
         /\ \A i, j \in DOMAIN q : i # j => q[i] # q[j]
         /\ \A x \in b : \E i \in DOMAIN q : q[i] = x
<1> DEFINE n == Cardinality(b)
<1>1. n \in Nat
  BY FS_CardinalityType
<1>2. q \in [1..n -> b] /\ \A i, j \in 1..n : i # j => q[i] # q[j]
  BY FeedCardinality DEF Feed!SetToSeqs
<1>3. IsFiniteSet(1..n) /\ Cardinality(1..n) = n
  BY <1>1, FS_Interval
<1>4. q \in Surjection(1..n, b)
  <2>1. q \in Injection(1..n, b)
    BY <1>2 DEF Injection, IsInjective
  <2>2. QED BY <1>3, <2>1, FS_Injection
<1>5. QED BY <1>1, <1>2, <1>4 DEF Surjection

\* A batch is sent after older rows; what it leaves of its last instant is tied.
LEMMA FeedPoll == ASSUME FeedIInv, Feed!Poll PROVE FeedIInv'
<1>0. PICK b \in Feed!Oldest :
        /\ Feed!Newer # {} /\ last' = Feed!Max({at[r] : r \in b})
        /\ \E q \in Feed!Sorted(b) : sent' = sent \o q
  BY DEF Feed!Poll
<1>1. PICK q \in Feed!Sorted(b) : sent' = sent \o q
  BY <1>0
<1>2. UNCHANGED <<now, at, visible, late, cursor, owed, between>>
  BY DEF Feed!Poll
<1>3. /\ b \subseteq Feed!Newer /\ \A r \in b, s \in Feed!Newer \ b : at[r] <= at[s]
      /\ Cardinality(b) = Feed!Min({Batch, Cardinality(Feed!Newer)})
  BY FeedCardinality DEF Feed!Oldest
<1>4. Feed!Newer = {r \in visible : at[r] > last} /\ IsFiniteSet(visible) /\ last \in Nat /\ sent \in Seq(visible)
      /\ \A r \in visible : at[r] \in Nat
  BY DEF Feed!Newer, FeedIInv, FeedTyped
<1>5. IsFiniteSet(Feed!Newer) /\ IsFiniteSet(b) /\ b \in SUBSET visible
  BY <1>3, <1>4, FS_Subset
<1>6. b # {}
  <2> DEFINE c == Cardinality(Feed!Newer)
  <2>1. c \in Nat /\ c # 0
    BY <1>0, <1>5, FS_CardinalityType, FS_EmptySet
  <2>2. Batch \in Nat \ {0}
    BY ApiAssumption DEF Feed!FailureFeedAssumption
  <2> HIDE DEF c
  <2>3. \E x \in {Batch, c} : \A y \in {Batch, c} : x <= y
    BY <2>1, <2>2
  <2>4. Feed!Min({Batch, c}) \in {Batch, c}
    BY <2>3 DEF Feed!Min
  <2>5. Cardinality(b) # 0
    BY <1>3, <2>1, <2>2, <2>4 DEF c
  <2>6. QED BY <2>5, FS_EmptySet
<1>7. last' \in Nat /\ (\A r \in b : at[r] <= last') /\ \E r \in b : at[r] = last'
  BY <1>0, <1>5, <1>6, LatestOf DEF FeedIInv
<1>8. /\ q \in Seq(b) /\ DOMAIN q = 1..Len(q) /\ Len(q) \in Nat
      /\ \A i, j \in DOMAIN q : i # j => q[i] # q[j]
      /\ \A x \in b : \E i \in DOMAIN q : q[i] = x
      /\ \A i, j \in DOMAIN q : i < j => at[q[i]] <= at[q[j]]
  BY <1>5, SeqsOf DEF Feed!Sorted
<1> DEFINE m == Len(sent)
<1>9. /\ m \in Nat /\ DOMAIN sent = 1..m /\ DOMAIN sent' = 1..m + Len(q)
      /\ \A i \in 1..m : sent'[i] = sent[i] /\ sent[i] \in visible
      /\ \A i \in DOMAIN sent' : i \notin 1..m => i - m \in DOMAIN q /\ sent'[i] = q[i - m] /\ q[i - m] \in b
      /\ sent' \in Seq(visible)
  <2>1. q \in Seq(visible)
    BY <1>5, <1>8
  <2>2. /\ m \in Nat /\ DOMAIN sent = 1..m /\ DOMAIN sent' = 1..m + Len(q)
        /\ \A i \in 1..m : sent'[i] = sent[i] /\ sent[i] \in visible
        /\ \A i \in DOMAIN sent' : i \notin 1..m => i - m \in DOMAIN q /\ sent'[i] = q[i - m]
        /\ sent' \in Seq(visible)
    BY <1>1, <1>4, <1>8, <2>1
  <2>3. \A i \in DOMAIN q : q[i] \in b
    BY <1>8
  <2>4. QED BY <2>2, <2>3
<1> HIDE DEF m
<1>10. FeedTyped'
  BY <1>2, <1>7, <1>9 DEF FeedIInv, FeedTyped
<1>11. \A i \in 1..m : at[sent[i]] <= last
  BY <1>9 DEF FeedIInv, StreamGoesOn
<1>12. \A x \in b : at[x] > last /\ x \in visible /\ at[x] \in Nat
  BY <1>3, <1>4
<1>13. ASSUME NEW i \in DOMAIN sent', NEW j \in DOMAIN sent', i < j
       PROVE  sent'[i] # sent'[j] /\ at[sent'[i]] <= at[sent'[j]]
  <2>1. CASE j \in 1..m
    <3>1. i \in 1..m
      BY <1>9, <1>13, <2>1
    <3>2. QED BY <1>9, <1>13, <2>1, <3>1 DEF FeedIInv, StreamGoesOn, Feed!StreamSkipsOnlyLate
  <2>2. CASE i \in 1..m /\ j \notin 1..m
    <3>1. sent'[i] = sent[i] /\ at[sent[i]] <= last /\ sent[i] \in visible
      BY <1>9, <1>11, <2>2
    <3>2. sent'[j] \in b
      BY <1>9, <2>2
    <3>3. QED BY <1>4, <1>12, <3>1, <3>2
  <2>3. CASE i \notin 1..m /\ j \notin 1..m
    <3>1. i - m < j - m /\ i - m # j - m
      BY <1>8, <1>9, <1>13
    <3>2. QED BY <1>8, <1>9, <2>3, <3>1
  <2>4. QED BY <2>1, <2>2, <2>3
<1>14. \A i \in DOMAIN sent' : at[sent'[i]] <= last'
  <2>1. last < last'
    BY <1>4, <1>7, <1>12
  <2>2. QED BY <1>4, <1>7, <1>9, <1>11, <2>1
<1>15. Feed!ToSet(sent)' = Feed!ToSet(sent) \cup b
  <2>1. Feed!ToSet(sent)' = {sent'[i] : i \in DOMAIN sent'}
    BY DEF Feed!ToSet
  <2>2. Feed!ToSet(sent) = {sent[i] : i \in 1..m}
    BY <1>9 DEF Feed!ToSet
  <2>3. ASSUME NEW x \in b PROVE \E i \in DOMAIN sent' : sent'[i] = x
    <3>1. PICK i \in 1..Len(q) : q[i] = x
      BY <1>8
    <3>2. m + i \in DOMAIN sent' /\ m + i \notin 1..m /\ (m + i) - m = i
      BY <1>8, <1>9
    <3>3. QED BY <1>9, <3>1, <3>2
  <2>4. \A i \in 1..m : i \in DOMAIN sent'
    BY <1>8, <1>9
  <2>5. QED BY <1>9, <2>1, <2>2, <2>3, <2>4
<1>16. ASSUME NEW x \in visible \ Feed!ToSet(sent)', at[x] <= last'
       PROVE  x \in late \/ Feed!Tied(x, Feed!ToSet(sent))'
  <2>1. CASE at[x] <= last
    <3>1. x \in late \/ Feed!Tied(x, Feed!ToSet(sent))
      BY <1>15, <2>1 DEF FeedIInv, StreamGoesOn, Feed!StreamSkipsOnlyLate
    <3>2. QED BY <1>2, <1>15, <3>1 DEF Feed!Tied
  <2>2. CASE ~(at[x] <= last)
    <3>1. x \in Feed!Newer \ b
      BY <1>4, <1>15, <2>2
    <3>2. PICK r \in b : at[r] = last'
      BY <1>7
    <3>3. at[r] <= at[x] /\ at[x] \in Nat
      BY <1>3, <1>4, <3>1
    <3>4. at[x] = at[r] /\ x # r
      BY <1>7, <1>16, <3>1, <3>2, <3>3
    <3>5. QED BY <1>2, <1>15, <3>4 DEF Feed!Tied
  <2>3. QED BY <2>1, <2>2
<1>17. StreamGoesOn'
  BY <1>2, <1>13, <1>14, <1>16 DEF StreamGoesOn, Feed!StreamSkipsOnlyLate
<1>18. PageToCome' /\ Feed!PagesShowAll'
  BY <1>2 DEF FeedIInv, PageToCome, NewerThan, Feed!Tied, Feed!PagesShowAll
<1>19. QED BY <1>10, <1>17, <1>18 DEF FeedIInv

LEMMA FeedCount == ASSUME FeedIInv, Feed!Count PROVE FeedIInv'
<1>1. /\ cursor.step \in {"begin", "count"}
      /\ cursor' = [cursor EXCEPT !.step = "select", !.total = Cardinality(visible)]
      /\ owed' = IF cursor.step = "begin" THEN visible ELSE owed
      /\ UNCHANGED <<now, at, visible, last, sent, late, between>>
  BY FeedCardinality DEF Feed!Count
<1>2. /\ cursor = [step |-> cursor.step, offset |-> cursor.offset, total |-> cursor.total, rows |-> cursor.rows]
      /\ cursor.offset \in Nat /\ IsFiniteSet(visible)
  BY DEF FeedIInv, FeedTyped
<1>3. cursor' = [step |-> "select", offset |-> cursor.offset, total |-> Cardinality(visible), rows |-> cursor.rows]
  BY <1>1, <1>2
<1>4. FeedTyped'
  BY <1>1, <1>2, <1>3 DEF FeedIInv, FeedTyped
<1>5. \A r : NewerThan(r)' = NewerThan(r) /\ (Feed!Tied(r, visible)' <=> Feed!Tied(r, visible))
  BY <1>1 DEF NewerThan, Feed!Tied
<1>6. ASSUME NEW r \in owed'
      PROVE  r \in cursor.rows \/ Feed!Tied(r, visible) \/ Cardinality(NewerThan(r)) >= cursor.offset
  <2>1. CASE cursor.step = "begin"
    <3>1. cursor.offset = 0
      BY <2>1 DEF FeedIInv, PageToCome
    <3>2. NewerThan(r) \subseteq visible
      BY DEF NewerThan
    <3>3. Cardinality(NewerThan(r)) \in Nat
      BY <1>2, <3>2, FS_Subset, FS_CardinalityType
    <3>4. QED BY <3>1, <3>3
  <2>2. CASE cursor.step # "begin"
    BY <1>1, <2>2 DEF FeedIInv, PageToCome
  <2>3. QED BY <2>1, <2>2
<1>7. PageToCome'
  BY <1>1, <1>3, <1>5, <1>6 DEF PageToCome
<1>8. Feed!PagesShowAll'
  BY <1>3 DEF Feed!PagesShowAll
<1>9. StreamGoesOn'
  BY <1>1 DEF FeedIInv, StreamGoesOn, Feed!StreamSkipsOnlyLate, Feed!Tied, Feed!ToSet
<1>10. QED BY <1>4, <1>7, <1>8, <1>9 DEF FeedIInv

\* What is not on the page is on a later one, and the last page leaves nothing.
LEMMA FeedSelect == ASSUME FeedIInv, Feed!Select PROVE FeedIInv'
<1>1. PICK q \in Feed!Ordered :
        cursor' = [cursor EXCEPT !.rows = @ \cup Feed!ToSet(SubSeq(q, cursor.offset + 1,
                                                                  Feed!Min({cursor.offset + Limit, Len(q)}))),
                                 !.offset = IF Feed!More THEN @ + Limit ELSE @,
                                 !.step = IF Feed!More THEN "count" ELSE "end"]
  BY DEF Feed!Select
<1> DEFINE o == cursor.offset
           z == Feed!Min({o + Limit, Len(q)})
           page == Feed!ToSet(SubSeq(q, o + 1, z))
<1>2. cursor.step = "select" /\ UNCHANGED <<now, at, visible, last, sent, late, owed, between>>
  BY DEF Feed!Select
<1>3. /\ cursor = [step |-> cursor.step, offset |-> o, total |-> cursor.total, rows |-> cursor.rows]
      /\ o \in Nat /\ Limit \in Nat \ {0} /\ IsFiniteSet(visible) /\ owed \subseteq visible
  BY ApiAssumption DEF FeedIInv, FeedTyped, Feed!FailureFeedAssumption
<1>4. cursor' = [step |-> IF Feed!More THEN "count" ELSE "end", offset |-> IF Feed!More THEN o + Limit ELSE o,
                 total |-> cursor.total, rows |-> cursor.rows \cup page]
  <2> DEFINE next == IF Feed!More THEN o + Limit ELSE o
             step == IF Feed!More THEN "count" ELSE "end"
             all == cursor.rows \cup page
  <2>1. cursor' = [cursor EXCEPT !.rows = all, !.offset = next, !.step = step]
    BY <1>1
  <2> HIDE DEF next, step, all
  <2>2. cursor' = [step |-> step, offset |-> next, total |-> cursor.total, rows |-> all]
    BY <1>3, <2>1
  <2>3. QED BY <2>2 DEF next, step, all
<1>5. FeedTyped'
  <2> HIDE DEF page
  <2>1. cursor'.offset \in Nat /\ cursor'.step \in {"count", "end"}
    BY <1>3, <1>4
  <2>2. QED BY <1>2, <1>4, <2>1 DEF FeedIInv, FeedTyped
<1>6. StreamGoesOn'
  BY <1>2 DEF FeedIInv, StreamGoesOn, Feed!StreamSkipsOnlyLate, Feed!Tied, Feed!ToSet
<1>7. \A r : NewerThan(r)' = NewerThan(r) /\ (Feed!Tied(r, visible)' <=> Feed!Tied(r, visible))
  BY <1>2 DEF NewerThan, Feed!Tied
<1>8. Feed!More <=> o + Limit < cursor.total
  BY DEF Feed!More
<1>9. ~between => cursor.total = Cardinality(visible)
  BY <1>2 DEF FeedIInv, PageToCome
\* A row that is owed and not tied is on the page, or after it.
<1>10. ASSUME NEW r \in owed, r \notin cursor'.rows, ~Feed!Tied(r, visible)
       PROVE  Cardinality(NewerThan(r)) >= o + Limit /\ (~between => Feed!More)
  <2>1. /\ Len(q) = Cardinality(visible) /\ Len(q) \in Nat
        /\ \E p \in 1..Len(q) : q[p] = r /\ Cardinality(NewerThan(r)) = p - 1
    BY <1>3, <1>10, PlaceOf DEF FeedIInv
  <2>2. PICK p \in 1..Len(q) : q[p] = r /\ Cardinality(NewerThan(r)) = p - 1
    BY <2>1
  <2>3. p > o
    <3>1. r \notin cursor.rows
      BY <1>4, <1>10
    <3>2. Cardinality(NewerThan(r)) >= o
      BY <1>2, <1>10, <3>1 DEF FeedIInv, PageToCome
    <3>3. QED BY <1>3, <2>1, <2>2, <3>2
  <2>4. p > o + Limit
    <3> SUFFICES ASSUME p <= o + Limit PROVE FALSE
      BY <1>3, <2>1
    <3>1. z \in Nat /\ p <= z /\ z <= Len(q)
      <4> DEFINE x == o + Limit
                 y == Len(q)
      <4>1. x \in Nat /\ y \in Nat /\ p <= x /\ p <= y /\ p \in Nat
        BY <1>3, <2>1
      <4> HIDE DEF x, y
      <4>2. Feed!Min({x, y}) \in {x, y} /\ Feed!Min({x, y}) <= y
        <5>1. \E k \in {x, y} : \A l \in {x, y} : k <= l
          BY <4>1
        <5>2. Feed!Min({x, y}) \in {x, y} /\ \A l \in {x, y} : Feed!Min({x, y}) <= l
          BY <5>1 DEF Feed!Min
        <5>3. QED BY <5>2
      <4>3. QED BY <4>1, <4>2 DEF x, y
    <3>2. q \in Seq(visible)
      <4>1. q \in Feed!SetToSeqs(visible)
        BY DEF Feed!Ordered
      <4>2. QED BY <1>3, <4>1, SeqsOf
    <3> HIDE DEF z
    <3>3. /\ SubSeq(q, o + 1, z) = [i \in 1..z - o |-> q[i + o]]
          /\ p - o \in 1..z - o /\ (p - o) + o = p
      <4>1. o + 1 \in Nat /\ 1..Len(q) = DOMAIN q
        BY <1>3, <3>2
      <4>2. SubSeq(q, o + 1, z) = [i \in 1..(1 + z - (o + 1)) |-> q[i + (o + 1) - 1]]
        BY <3>1, <3>2, <4>1, SMTT(30)
      <4>3. 1 + z - (o + 1) = z - o /\ \A i \in 1..z - o : i + (o + 1) - 1 = i + o
        BY <1>3, <3>1
      <4>4. p - o \in 1..z - o /\ (p - o) + o = p
        BY <1>3, <2>1, <2>3, <3>1
      <4>5. QED BY <4>2, <4>3, <4>4
    <3>4. q[p] \in Feed!ToSet(SubSeq(q, o + 1, z))
      BY <3>3 DEF Feed!ToSet
    <3>5. QED BY <1>4, <1>10, <2>2, <3>4 DEF z
  <2>5. Cardinality(NewerThan(r)) >= o + Limit
    BY <1>3, <2>1, <2>2, <2>4
  <2>6. ~between => Feed!More
    BY <1>3, <1>8, <1>9, <2>1, <2>4
  <2>7. QED BY <2>5, <2>6
<1> HIDE DEF page, z
<1>11. PageToCome'
  <2>1. ASSUME cursor'.step \in {"count", "select"}, NEW r \in owed
        PROVE  r \in cursor'.rows \/ Feed!Tied(r, visible) \/ Cardinality(NewerThan(r)) >= cursor'.offset
    <3>1. cursor'.offset = o + Limit
      BY <1>4, <2>1
    <3>2. QED BY <1>10, <3>1
  <2>2. cursor'.step \notin {"begin", "select"}
    BY <1>4
  <2>3. QED BY <1>2, <1>7, <2>1, <2>2 DEF PageToCome
<1>12. Feed!PagesShowAll'
  <2>1. ASSUME cursor'.step = "end", ~between, NEW r \in owed
        PROVE  r \in cursor'.rows \/ Feed!Tied(r, visible)
    <3>1. ~Feed!More
      BY <1>4, <2>1
    <3>2. QED BY <1>10, <2>1, <3>1
  <2>2. QED BY <1>2, <1>7, <2>1 DEF Feed!PagesShowAll
<1>13. QED BY <1>5, <1>6, <1>11, <1>12 DEF FeedIInv

LEMMA FeedNext == FeedIInv /\ [Next]_vars => FeedIInv'
<1> SUFFICES ASSUME FeedIInv, [Next]_vars PROVE FeedIInv'
  OBVIOUS
<1>1. CASE UNCHANGED feedVars \/ Feed!Tick
  <2>1. /\ UNCHANGED <<at, visible, last, sent, late, cursor, owed, between>>
        /\ now' = now \/ now' = now + 1
    BY <1>1 DEF feedVars, Feed!Tick
  <2>2. FeedTyped'
    <3>1. now' \in Nat \ {0} /\ at \in [DOMAIN at -> 1..now']
      BY <2>1 DEF FeedIInv, FeedTyped
    <3>2. QED BY <2>1, <3>1 DEF FeedIInv, FeedTyped
  <2>3. QED BY <2>1, <2>2, ReadersRest DEF FeedIInv
<1>2. CASE Feed!Poll \/ Feed!Count \/ Feed!Select
  BY <1>2, FeedPoll, FeedCount, FeedSelect
<1>3. CASE \E r \in Row : Feed!Write(r) \/ Feed!Commit(r)
  BY <1>3, FeedWrite, FeedCommit
<1>4. QED BY <1>1, <1>2, <1>3, OneService DEF Feed!Next

\* stream_failures() and a client that follows next_cursor, routes.py, miss a row only
\* by the races that ReadersMissOnlyLate names, for all rows, batches and pages.
THEOREM ServicesReadersMissOnlyLate == Services => []ReadersMissOnlyLate
<1>1. FeedIInv => ReadersMissOnlyLate
  BY DEF FeedIInv, StreamGoesOn, ReadersMissOnlyLate, Feed!ReadersMissOnlyLate
<1>2. QED BY <1>1, FeedInit, FeedNext, PTL DEF Services

=============================================================================
