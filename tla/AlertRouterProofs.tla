-------------------------- MODULE AlertRouterProofs --------------------------
(***************************************************************************)
(* Proofs about AlertRouter, for any dispatchers, rules, channels and      *)
(* windows.                                                                *)
(*                                                                         *)
(* A window starts when the channel answers and its key is set one call    *)
(* later.  The invariant says what the dispatcher in between knows of the  *)
(* window, as long as no other dispatcher fires for the same key.          *)
(***************************************************************************)
EXTENDS AlertRouter, TLAPS

\* The key that dispatcher d fires for, with rule r.
KeyNow(d, r) == KeyOf(r, task[d].type)

OneRule == \A d \in Dispatcher : task[d].rule # {} => \E r \in Rule : task[d].rule = {r}

\* Two dispatchers do not fire for a key without being seen to race.
RacesAreSeen ==
  \A d, e \in Dispatcher : \A r \in task[d].rule, q \in task[e].rule :
    d # e /\ KeyNow(d, r) = KeyNow(e, q) => KeyNow(d, r) \in raced

\* When a dispatcher fires, no window of the key runs.
FiresAfterWindow ==
  \A d \in Dispatcher : \A r \in task[d].rule :
    task[d].at = "fire" => owed[KeyNow(d, r)] = 0 \/ KeyNow(d, r) \in unmarked \cup raced

\* When it is about to set the key, the window that runs is that of its rule.
MarksItsWindow ==
  \A d \in Dispatcher : \A r \in task[d].rule :
    task[d].at = "mark" =>
      /\ owed[KeyNow(d, r)] <= Window[r] \/ KeyNow(d, r) \in raced
      /\ KeyNow(d, r) \in alerted

IInv ==
  /\ TypeOK /\ OneRule /\ RacesAreSeen /\ FiresAfterWindow /\ MarksItsWindow
  /\ WindowGuarded /\ SuppressionExplained

Firing == OneRule /\ RacesAreSeen /\ FiresAfterWindow /\ MarksItsWindow

-----------------------------------------------------------------------------
LEMMA KeyType == \A r \in Rule, y \in Type : KeyOf(r, y) \in Key
BY AlertRouterAssumption DEF KeyOf, Key

LEMMA WindowType == \A r \in Rule : Window[r] \in 0..MaxWindow /\ Window[r] \in Nat
BY AlertRouterAssumption

\* What is known of a dispatcher from its type.
LEMMA TaskType ==
  ASSUME IInv, NEW d \in Dispatcher
  PROVE  /\ task[d] \in Task /\ task[d].type \in Type
         /\ task[d].rules \subseteq Rule /\ task[d].rule \subseteq Rule
         /\ task[d].at \notin {"fire", "mark"} => task[d].rule = {}
         /\ \A r \in task[d].rule : KeyNow(d, r) \in Key
BY KeyType DEF IInv, TypeOK, Task, KeyNow

\* A dispatcher without a current rule has nothing to race with, or to set.
LEMMA NotFiring ==
  ASSUME IInv, NEW d \in Dispatcher,
         \A e \in Dispatcher \ {d} : task'[e] = task[e],
         task'[d].rule = {},
         UNCHANGED <<owed, raced, alerted>>, unmarked \subseteq unmarked'
  PROVE  Firing'
<1>1. OneRule'
  BY DEF IInv, OneRule
<1>2. RacesAreSeen'
  BY DEF IInv, RacesAreSeen, KeyNow
<1>3. FiresAfterWindow' /\ MarksItsWindow'
  BY DEF IInv, FiresAfterWindow, MarksItsWindow, KeyNow
<1>4. QED BY <1>1, <1>2, <1>3 DEF Firing

\* As long as the one that marks is left alone, windows stay guarded.
LEMMA StillGuarded ==
  ASSUME IInv, NEW d \in Dispatcher, task[d].at # "mark",
         \A e \in Dispatcher \ {d} : task'[e] = task[e],
         UNCHANGED <<dedup, owed, raced, alerted>>, unmarked \subseteq unmarked'
  PROVE  WindowGuarded' /\ SuppressionExplained'
<1>1. \A k \in Key : Marking(k) => Marking(k)'
  BY DEF Marking
<1>2. QED BY <1>1 DEF IInv, WindowGuarded, SuppressionExplained

LEMMA InitInv == Init => IInv
<1> SUFFICES ASSUME Init PROVE IInv
  OBVIOUS
<1>1. \A d \in Dispatcher : /\ task[d] \in Task /\ task[d].at = "idle"
                            /\ task[d].rules = {} /\ task[d].rule = {}
  BY DEF Init, Idle, Task
<1>2. task \in [Dispatcher -> Task]
  BY <1>1 DEF Init
<1>3. TypeOK
  BY <1>1, <1>2, AlertRouterAssumption DEF Init, TypeOK
<1>4. OneRule /\ RacesAreSeen /\ FiresAfterWindow /\ MarksItsWindow
  BY <1>1 DEF OneRule, RacesAreSeen, FiresAfterWindow, MarksItsWindow
<1>5. WindowGuarded /\ SuppressionExplained
  BY DEF Init, WindowGuarded, SuppressionExplained
<1>6. QED BY <1>3, <1>4, <1>5 DEF IInv

LEMMA DispatchInv ==
  ASSUME IInv, NEW d \in Dispatcher, NEW y \in Type, Dispatch(d, y) PROVE IInv'
<1> DEFINE matching == {r \in Rule : y \in Matches[r]}
<1>1. /\ task[d].at = "idle"
      /\ dispatched < MaxFailures /\ dispatched' = dispatched + 1
      /\ task' = [task EXCEPT ![d] = [at |-> "next", type |-> y, rules |-> matching, rule |-> {}]]
      /\ UNCHANGED <<dedup, owed, alerted, unmarked, raced>>
  BY DEF Dispatch
<1>2. matching \subseteq Rule /\ \A r \in matching : y \in Matches[r]
  OBVIOUS
<1> HIDE DEF matching
<1>3. /\ task'[d].at = "next" /\ task'[d].type = y /\ task'[d].rules = matching
      /\ task'[d].rule = {} /\ task'[d] \in Task
      /\ \A e \in Dispatcher \ {d} : task'[e] = task[e]
  BY <1>1, <1>2 DEF IInv, TypeOK, Task
<1>4. TypeOK'
  <2>1. dispatched' \in 0..MaxFailures
    BY <1>1, AlertRouterAssumption DEF IInv, TypeOK
  <2>2. QED BY <1>1, <1>2, <1>3, <2>1 DEF IInv, TypeOK
<1>5. Firing'
  BY <1>1, <1>3, NotFiring
<1>6. WindowGuarded' /\ SuppressionExplained'
  BY <1>1, <1>3, StillGuarded
<1>7. QED BY <1>4, <1>5, <1>6 DEF IInv, Firing

\* A key that does not exist owes no window, or another dispatcher is about to set it,
\* which is a race, or there is one already.
LEMMA FireInv ==
  ASSUME IInv, NEW d \in Dispatcher, NEW r \in Rule,
         task[d].at = "next", r \in task[d].rules,
         dedup[KeyNow(d, r)] = 0, Fire(d, r),
         UNCHANGED <<dedup, owed, alerted, unmarked, dispatched>>
  PROVE  IInv'
<1> DEFINE k == KeyNow(d, r)
<1>1. k \in Key /\ k = KeyOf(r, task[d].type)
  BY KeyType, TaskType DEF KeyNow
<1>2. /\ task' = [task EXCEPT ![d].rules = @ \ {r}, ![d].at = "fire", ![d].rule = {r}]
      /\ raced' = IF Busy(d, k) THEN raced \cup {k}
                  ELSE IF owed[k] = 0 THEN raced \ {k} ELSE raced
  BY DEF Fire, KeyNow
<1>3. task[d] \in Task /\ task[d].rule = {}
  BY TaskType
<1>4. /\ task'[d] = [at |-> "fire", type |-> task[d].type, rules |-> task[d].rules \ {r}, rule |-> {r}]
      /\ \A e \in Dispatcher \ {d} : task'[e] = task[e]
  <2>1. task \in [Dispatcher -> Task]
    BY DEF IInv, TypeOK
  <2>2. QED BY <1>2, <1>3, <2>1 DEF Task
<1>5. /\ task'[d].at = "fire" /\ task'[d].type = task[d].type /\ task'[d].rule = {r}
      /\ task'[d].rules = task[d].rules \ {r} /\ task'[d] \in Task
  BY <1>3, <1>4 DEF Task
<1>6. /\ \A e \in Dispatcher \ {d} : \A q \in task[e].rule : KeyNow(e, q) = k => Busy(d, k)
      /\ \A q \in task'[d].rule : KeyNow(d, q)' = k
      /\ \A e \in Dispatcher \ {d} : \A q \in Rule : KeyNow(e, q)' = KeyNow(e, q)
  BY <1>4, <1>5 DEF Busy, KeyNow
<1>7. /\ raced' \subseteq Key
      /\ \A x \in Key \ {k} : x \in raced' <=> x \in raced
      /\ Busy(d, k) => k \in raced'
      /\ k \in raced /\ k \notin raced' => owed[k] = 0
  <2>1. raced \subseteq Key
    BY DEF IInv, TypeOK
  <2> HIDE DEF k
  <2>2. QED BY <1>1, <1>2, <2>1
<1>8. owed[k] = 0 \/ k \in unmarked \/ k \in raced'
  <2>1. dedup[k] >= owed[k] \/ Marking(k) \/ k \in unmarked \cup raced
    BY <1>1 DEF IInv, WindowGuarded
  <2>2. Marking(k) => Busy(d, k)
    BY DEF Marking, Busy, IInv, TypeOK
  <2>3. dedup[k] = 0 /\ owed[k] \in Nat
    BY <1>1 DEF IInv, TypeOK
  <2>4. QED BY <1>7, <2>1, <2>2, <2>3
<1> HIDE DEF k
<1>9. TypeOK'
  BY <1>2, <1>4, <1>5, <1>7 DEF IInv, TypeOK
<1>10. OneRule'
  BY <1>4, <1>5 DEF IInv, OneRule
<1>11. \A e \in Dispatcher : task'[e].rule \subseteq Rule /\ \A q \in task'[e].rule : KeyNow(e, q)' \in Key
  BY <1>1, <1>4, <1>5, <1>6, TaskType
<1>12. RacesAreSeen'
  <2> SUFFICES ASSUME NEW e \in Dispatcher, NEW g \in Dispatcher,
                      NEW p \in task'[e].rule, NEW q \in task'[g].rule,
                      e # g, KeyNow(e, p)' = KeyNow(g, q)'
               PROVE  KeyNow(e, p)' \in raced'
    BY DEF RacesAreSeen
  <2>1. CASE e = d \/ g = d
    BY <1>4, <1>6, <1>7, <1>11, <2>1
  <2>2. CASE e # d /\ g # d
    <3>1. KeyNow(e, p) \in raced /\ KeyNow(e, p)' = KeyNow(e, p)
      BY <1>4, <1>6, <1>11, <2>2 DEF IInv, RacesAreSeen
    <3>2. CASE KeyNow(e, p) = k
      BY <1>4, <1>6, <1>7, <2>2, <3>1, <3>2
    <3>3. QED BY <1>7, <1>11, <3>1, <3>2
  <2>3. QED BY <2>1, <2>2
<1>13. FiresAfterWindow' /\ MarksItsWindow'
  <2> SUFFICES ASSUME NEW e \in Dispatcher, NEW q \in task'[e].rule
               PROVE  /\ task'[e].at = "fire" =>
                           owed[KeyNow(e, q)'] = 0 \/ KeyNow(e, q)' \in unmarked \cup raced'
                      /\ task'[e].at = "mark" =>
                           /\ owed[KeyNow(e, q)'] <= Window[q] \/ KeyNow(e, q)' \in raced'
                           /\ KeyNow(e, q)' \in alerted
    BY DEF FiresAfterWindow, MarksItsWindow
  <2>1. CASE e = d
    BY <1>5, <1>6, <1>8, <2>1
  <2>2. CASE e # d
    <3>1. /\ task'[e] = task[e] /\ KeyNow(e, q)' = KeyNow(e, q) /\ KeyNow(e, q) \in Key
          /\ KeyNow(e, q) \in raced => KeyNow(e, q) \in raced'
      BY <1>4, <1>6, <1>7, <1>11, <2>2
    <3>2. QED BY <2>2, <3>1 DEF IInv, FiresAfterWindow, MarksItsWindow
  <2>3. QED BY <2>1, <2>2
<1>14. WindowGuarded' /\ SuppressionExplained'
  <2>1. \A x \in Key : Marking(x) => Marking(x)'
    BY <1>4 DEF Marking
  <2>2. \A x \in Key : x \in raced => x \in raced' \/ owed[x] = 0
    BY <1>7
  <2>3. \A x \in Key : dedup[x] \in Nat
    BY DEF IInv, TypeOK
  <2>4. QED BY <2>1, <2>2, <2>3 DEF IInv, WindowGuarded, SuppressionExplained
<1>15. QED BY <1>9, <1>10, <1>12, <1>13, <1>14 DEF IInv

LEMMA CheckInv ==
  ASSUME IInv, NEW d \in Dispatcher, NEW r \in Rule, Check(d, r) PROVE IInv'
<1>1. /\ task[d].at = "next" /\ r \in task[d].rules
      /\ UNCHANGED <<dedup, owed, alerted, unmarked, dispatched>>
  BY DEF Check
<1>2. CASE dedup[KeyNow(d, r)] > 0
  <2>1. task' = [task EXCEPT ![d].rules = @ \ {r}] /\ UNCHANGED raced
    BY <1>2 DEF Check, KeyNow
  <2>2. task[d] \in Task /\ task \in [Dispatcher -> Task] /\ task[d].rule = {}
    BY <1>1, TaskType DEF IInv, TypeOK
  <2>3. /\ task'[d].at = "next" /\ task'[d].type = task[d].type /\ task'[d].rule = {}
        /\ task'[d].rules = task[d].rules \ {r} /\ task'[d] \in Task
        /\ \A e \in Dispatcher \ {d} : task'[e] = task[e]
    BY <1>1, <2>1, <2>2 DEF Task
  <2>4. TypeOK'
    BY <1>1, <2>1, <2>3 DEF IInv, TypeOK
  <2>5. QED BY <1>1, <2>1, <2>3, <2>4, NotFiring, StillGuarded DEF IInv, Firing
<1>3. CASE ~(dedup[KeyNow(d, r)] > 0)
  <2>1. KeyNow(d, r) \in Key
    BY TaskType, KeyType DEF KeyNow
  <2>2. dedup[KeyNow(d, r)] = 0
    BY <1>3, <2>1 DEF IInv, TypeOK
  <2>3. Fire(d, r)
    BY <1>3 DEF Check, KeyNow
  <2>4. QED BY <1>1, <2>2, <2>3, FireInv
<1>4. QED BY <1>2, <1>3

-----------------------------------------------------------------------------
(* The answer of the channel, and the SETEX. *)

\* A dispatcher is through with its rule, or with its rules.
LEMMA LetGo ==
  ASSUME IInv, NEW d \in Dispatcher, NEW t \in Task,
         task' = [task EXCEPT ![d] = t],
         t.at \in {"idle", "next"}, t.rule = {},
         \A r \in t.rules : t.type \in Matches[r],
         UNCHANGED <<owed, alerted, raced, dispatched>>,
         dedup' \in [Key -> 0..MaxWindow], unmarked \subseteq unmarked', unmarked' \subseteq Key
  PROVE  TypeOK' /\ Firing' /\ \A e \in Dispatcher \ {d} : task'[e] = task[e]
<1>1. task'[d] = t /\ \A e \in Dispatcher \ {d} : task'[e] = task[e]
  BY DEF IInv, TypeOK
<1>2. TypeOK'
  BY <1>1 DEF IInv, TypeOK
<1>3. QED BY <1>1, <1>2, NotFiring

\* Whoever fires or marks for the same key meanwhile was seen to race.
LEMMA FiredInv ==
  ASSUME IInv, NEW d \in Dispatcher, NEW r \in Rule, Fired(d, r) PROVE IInv'
<1> DEFINE k == KeyNow(d, r)
<1>1. /\ task[d].at = "fire" /\ r \in task[d].rule
      /\ task' = [task EXCEPT ![d].at = "mark"]
      /\ owed' = [owed EXCEPT ![k] = Window[r]]
      /\ alerted' = alerted \cup {k}
      /\ UNCHANGED <<dedup, unmarked, raced, dispatched>>
  BY DEF Fired, KeyNow
<1>2. k \in Key /\ k = KeyOf(r, task[d].type)
  BY KeyType, TaskType DEF KeyNow
<1>3. task[d] \in Task /\ task \in [Dispatcher -> Task] /\ task[d].rule = {r}
  BY <1>1, TaskType DEF IInv, TypeOK, OneRule
<1>4. /\ task'[d].at = "mark" /\ task'[d].type = task[d].type /\ task'[d].rule = {r}
      /\ task'[d].rules = task[d].rules /\ task'[d] \in Task
      /\ \A e \in Dispatcher \ {d} : task'[e] = task[e]
  BY <1>1, <1>3 DEF Task
<1>5. \A e \in Dispatcher : task'[e].rule = task[e].rule /\ task'[e].type = task[e].type
  BY <1>3, <1>4
<1>6. \A e \in Dispatcher : \A q \in task[e].rule : KeyNow(e, q)' = KeyNow(e, q)
  BY <1>5 DEF KeyNow
<1>7. \A e \in Dispatcher \ {d} : \A q \in task[e].rule : KeyNow(e, q) = k => k \in raced
  BY <1>1 DEF IInv, RacesAreSeen
<1>8. /\ owed'[k] = Window[r] /\ Window[r] \in Nat
      /\ \A x \in Key \ {k} : owed'[x] = owed[x]
  BY <1>1, <1>2, WindowType DEF IInv, TypeOK
<1> HIDE DEF k
<1>9. TypeOK'
  <2>1. owed' \in [Key -> 0..MaxWindow]
    BY <1>1, <1>2, WindowType DEF IInv, TypeOK
  <2>2. QED BY <1>1, <1>2, <1>3, <1>4, <2>1 DEF IInv, TypeOK
<1>10. OneRule' /\ RacesAreSeen'
  BY <1>1, <1>5, <1>6 DEF IInv, OneRule, RacesAreSeen
<1>11. FiresAfterWindow' /\ MarksItsWindow'
  <2> SUFFICES ASSUME NEW e \in Dispatcher, NEW q \in task[e].rule
               PROVE  /\ task'[e].at = "fire" =>
                           owed'[KeyNow(e, q)] = 0 \/ KeyNow(e, q) \in unmarked \cup raced
                      /\ task'[e].at = "mark" =>
                           /\ owed'[KeyNow(e, q)] <= Window[q] \/ KeyNow(e, q) \in raced
                           /\ KeyNow(e, q) \in alerted'
    BY <1>1, <1>5, <1>6 DEF FiresAfterWindow, MarksItsWindow
  <2>1. CASE e = d
    <3>1. q = r /\ KeyNow(e, q) = k
      BY <1>3, <2>1 DEF k
    <3>2. QED BY <1>1, <1>4, <1>8, <2>1, <3>1
  <2>2. CASE e # d
    <3>1. KeyNow(e, q) \in Key /\ task'[e] = task[e]
      BY <1>4, <2>2, TaskType
    <3>2. CASE KeyNow(e, q) = k
      BY <1>1, <1>7, <2>2, <3>2
    <3>3. CASE KeyNow(e, q) # k
      BY <1>1, <1>8, <2>2, <3>1, <3>3 DEF IInv, FiresAfterWindow, MarksItsWindow
    <3>4. QED BY <3>2, <3>3
  <2>3. QED BY <2>1, <2>2
<1>12. WindowGuarded' /\ SuppressionExplained'
  <2>1. \A x \in Key : x = k => Marking(x)'
    BY <1>2, <1>4 DEF Marking
  <2>2. \A x \in Key : Marking(x) => Marking(x)'
    BY <1>1, <1>4 DEF Marking
  <2>3. QED BY <1>1, <1>8, <2>1, <2>2 DEF IInv, WindowGuarded, SuppressionExplained
<1>13. QED BY <1>9, <1>10, <1>11, <1>12 DEF IInv

LEMMA NotFiredInv == ASSUME IInv, NEW d \in Dispatcher, NotFired(d) PROVE IInv'
<1> DEFINE t == [task[d] EXCEPT !.at = "next", !.rule = {}]
<1>1. /\ task[d].at = "fire"
      /\ task' = [task EXCEPT ![d].at = "next", ![d].rule = {}]
      /\ UNCHANGED <<dedup, owed, alerted, unmarked, raced, dispatched>>
  BY DEF NotFired
<1>2. task \in [Dispatcher -> Task] /\ task[d] \in Task
  BY TaskType DEF IInv, TypeOK
<1>3. /\ t \in Task /\ t.at = "next" /\ t.rule = {} /\ t.rules = task[d].rules
      /\ t.type = task[d].type /\ task' = [task EXCEPT ![d] = t]
  BY <1>1, <1>2 DEF Task
<1> HIDE DEF t
<1>4. (\A r \in t.rules : t.type \in Matches[r]) /\ dedup \in [Key -> 0..MaxWindow] /\ unmarked \subseteq Key
  BY <1>3 DEF IInv, TypeOK
<1>5. TypeOK' /\ Firing' /\ \A e \in Dispatcher \ {d} : task'[e] = task[e]
  BY <1>1, <1>3, <1>4, LetGo
<1>6. WindowGuarded' /\ SuppressionExplained'
  BY <1>1, <1>5, StillGuarded
<1>7. QED BY <1>5, <1>6 DEF IInv, Firing

\* The key then lives as long as the window that runs, unless a race has started one
\* of another length.
LEMMA MarkInv == ASSUME IInv, NEW d \in Dispatcher, NEW r \in Rule, Mark(d, r) PROVE IInv'
<1> DEFINE k == KeyNow(d, r)
           t == [task[d] EXCEPT !.at = "next", !.rule = {}]
<1>1. /\ task[d].at = "mark" /\ r \in task[d].rule
      /\ dedup' = [dedup EXCEPT ![k] = Window[r]]
      /\ task' = [task EXCEPT ![d].at = "next", ![d].rule = {}]
      /\ UNCHANGED <<owed, alerted, unmarked, raced, dispatched>>
  BY DEF Mark, KeyNow
<1>2. task \in [Dispatcher -> Task] /\ task[d] \in Task /\ task[d].rule = {r} /\ k \in Key
  BY <1>1, TaskType DEF IInv, TypeOK, OneRule
<1>3. /\ t \in Task /\ t.at = "next" /\ t.rule = {} /\ t.rules = task[d].rules
      /\ t.type = task[d].type /\ task' = [task EXCEPT ![d] = t]
  BY <1>1, <1>2 DEF Task
<1>4. (owed[k] <= Window[r] \/ k \in raced) /\ k \in alerted
  BY <1>1 DEF IInv, MarksItsWindow
<1>5. /\ dedup'[k] = Window[r] /\ \A x \in Key \ {k} : dedup'[x] = dedup[x]
      /\ dedup' \in [Key -> 0..MaxWindow]
      /\ Window[r] \in Nat /\ owed[k] \in Nat
  BY <1>1, <1>2, WindowType DEF IInv, TypeOK
<1>6. \A x \in Key \ {k} : \A q \in task[d].rule : KeyOf(q, task[d].type) # x
  BY <1>2 DEF KeyNow
<1> HIDE DEF t, k
<1>7. (\A q \in t.rules : t.type \in Matches[q]) /\ unmarked \subseteq Key
  BY <1>3 DEF IInv, TypeOK
<1>8. TypeOK' /\ Firing' /\ \A e \in Dispatcher \ {d} : task'[e] = task[e]
  BY <1>1, <1>3, <1>5, <1>7, LetGo
<1>9. WindowGuarded'
  <2>1. \A x \in Key \ {k} : Marking(x) => Marking(x)'
    BY <1>6, <1>8 DEF Marking
  <2>2. QED BY <1>1, <1>4, <1>5, <2>1 DEF IInv, WindowGuarded
<1>10. SuppressionExplained'
  BY <1>1, <1>4, <1>5 DEF IInv, SuppressionExplained
<1>11. QED BY <1>8, <1>9, <1>10 DEF IInv, Firing

LEMMA DoneInv == ASSUME IInv, NEW d \in Dispatcher, Done(d) PROVE IInv'
<1>1. /\ task[d].at = "next"
      /\ task' = [task EXCEPT ![d] = Idle(task[d].type)]
      /\ UNCHANGED <<dedup, owed, alerted, unmarked, raced, dispatched>>
  BY DEF Done
<1>2. /\ Idle(task[d].type) \in Task /\ Idle(task[d].type).at = "idle"
      /\ Idle(task[d].type).rule = {} /\ Idle(task[d].type).rules = {}
  BY TaskType DEF Idle, Task
<1>3. dedup' \in [Key -> 0..MaxWindow] /\ unmarked' \subseteq Key
  BY <1>1 DEF IInv, TypeOK
<1>4. TypeOK' /\ Firing' /\ \A e \in Dispatcher \ {d} : task'[e] = task[e]
  BY <1>1, <1>2, <1>3, LetGo
<1>5. WindowGuarded' /\ SuppressionExplained'
  BY <1>1, <1>4, StillGuarded
<1>6. QED BY <1>4, <1>5 DEF IInv, Firing

\* An exception of the SETEX is remembered in `unmarked`.
LEMMA RaisesInv == ASSUME IInv, NEW d \in Dispatcher, Raises(d) PROVE IInv'
<1> DEFINE missed == {KeyOf(r, task[d].type) : r \in {q \in task[d].rule : task[d].at = "mark"}}
<1>1. /\ task' = [task EXCEPT ![d] = Idle(task[d].type)]
      /\ unmarked' = unmarked \cup missed
      /\ UNCHANGED <<dedup, owed, alerted, raced, dispatched>>
  BY DEF Raises
<1>2. /\ Idle(task[d].type) \in Task /\ Idle(task[d].type).at = "idle"
      /\ Idle(task[d].type).rule = {} /\ Idle(task[d].type).rules = {}
  BY TaskType DEF Idle, Task
<1>3. missed \subseteq Key
  BY TaskType, KeyType
<1>4. \A x \in Key : task[d].at = "mark" /\ (\E r \in task[d].rule : KeyOf(r, task[d].type) = x) => x \in missed
  OBVIOUS
<1> HIDE DEF missed
<1>5. dedup' \in [Key -> 0..MaxWindow] /\ unmarked' \subseteq Key /\ unmarked \subseteq unmarked'
  BY <1>1, <1>3 DEF IInv, TypeOK
<1>6. TypeOK' /\ Firing' /\ \A e \in Dispatcher \ {d} : task'[e] = task[e]
  BY <1>1, <1>2, <1>5, LetGo
<1>7. WindowGuarded'
  <2>1. \A x \in Key : Marking(x) => Marking(x)' \/ x \in missed
    BY <1>4, <1>6 DEF Marking
  <2>2. QED BY <1>1, <2>1 DEF IInv, WindowGuarded
<1>8. SuppressionExplained'
  BY <1>1 DEF IInv, SuppressionExplained
<1>9. QED BY <1>6, <1>7, <1>8 DEF IInv, Firing

\* Key and window run down together.
LEMMA TickInv == IInv /\ Tick => IInv'
<1> SUFFICES ASSUME IInv, Tick PROVE IInv'
  OBVIOUS
<1>1. /\ dedup' = [k \in Key |-> Down(dedup[k])]
      /\ owed' = [k \in Key |-> Down(owed[k])]
      /\ UNCHANGED <<task, alerted, unmarked, raced, dispatched>>
  BY DEF Tick
<1>2. \A k \in Key : dedup[k] \in 0..MaxWindow /\ owed[k] \in 0..MaxWindow
  BY DEF IInv, TypeOK
<1>3. \A k \in Key :
        /\ dedup'[k] \in 0..MaxWindow /\ owed'[k] \in 0..MaxWindow
        /\ owed'[k] <= owed[k] /\ dedup'[k] <= dedup[k]
        /\ dedup[k] >= owed[k] => dedup'[k] >= owed'[k]
  BY <1>1, <1>2, AlertRouterAssumption DEF Down
<1>4. TypeOK'
  BY <1>1, <1>3 DEF IInv, TypeOK
<1>5. OneRule' /\ RacesAreSeen'
  BY <1>1 DEF IInv, OneRule, RacesAreSeen, KeyNow
<1>6. FiresAfterWindow' /\ MarksItsWindow'
  <2> SUFFICES ASSUME NEW d \in Dispatcher, NEW r \in task[d].rule
               PROVE  /\ task[d].at = "fire" =>
                           owed'[KeyNow(d, r)] = 0 \/ KeyNow(d, r) \in unmarked \cup raced
                      /\ task[d].at = "mark" =>
                           /\ owed'[KeyNow(d, r)] <= Window[r] \/ KeyNow(d, r) \in raced
                           /\ KeyNow(d, r) \in alerted
    BY <1>1 DEF FiresAfterWindow, MarksItsWindow, KeyNow
  <2>1. KeyNow(d, r) \in Key /\ r \in Rule
    BY TaskType
  <2>2. QED BY <1>2, <1>3, <2>1, WindowType DEF IInv, FiresAfterWindow, MarksItsWindow
<1>7. WindowGuarded' /\ SuppressionExplained'
  <2>1. \A k \in Key : Marking(k) => Marking(k)'
    BY <1>1 DEF Marking
  <2>2. QED BY <1>1, <1>2, <1>3, <2>1 DEF IInv, WindowGuarded, SuppressionExplained
<1>8. QED BY <1>4, <1>5, <1>6, <1>7 DEF IInv

-----------------------------------------------------------------------------
\* Every step keeps the invariant.
LEMMA NextInv == IInv /\ [Next]_vars => IInv'
<1> SUFFICES ASSUME IInv, [Next]_vars PROVE IInv'
  OBVIOUS
<1>1. CASE \E d \in Dispatcher :
             \/ \E y \in Type : Dispatch(d, y)
             \/ \E r \in Rule : Check(d, r) \/ Fired(d, r) \/ Mark(d, r)
             \/ NotFired(d) \/ Raises(d) \/ Done(d)
  BY <1>1, DispatchInv, CheckInv, FiredInv, MarkInv, NotFiredInv, RaisesInv, DoneInv
<1>2. CASE Tick
  BY <1>2, TickInv
<1>3. CASE UNCHANGED vars
  <2>1. \A k \in Key : Marking(k) => Marking(k)'
    BY <1>3 DEF vars, Marking
  <2>2. QED BY <1>3, <2>1 DEF vars, IInv, TypeOK, OneRule, RacesAreSeen, FiresAfterWindow,
                             MarksItsWindow, KeyNow, WindowGuarded, SuppressionExplained
<1>4. QED BY <1>1, <1>2, <1>3 DEF Next

\* The invariant holds in every state.
THEOREM AlertRouterInvariant == Spec => []IInv
BY InitInv, NextInv, PTL DEF Spec

\* An alert is suppressed while the window of the one before runs, and only after one
\* was sent (_is_deduped(), _record_dedup()).
THEOREM AlertRouterWindowsAreSafe == Spec => []WindowsAreSafe
<1>1. IInv => WindowsAreSafe
  BY DEF IInv, WindowsAreSafe
<1>2. QED BY <1>1, AlertRouterInvariant, PTL

\* No channel is notified again within the window (dispatch()), but for a race or a
\* SETEX that failed.
THEOREM AlertRouterNoDuplicate == Spec => NoDuplicateInWindow
<1> DEFINE Single ==
      \A d \in Dispatcher, r \in Rule :
        Fired(d, r) => LET k == KeyOf(r, task[d].type)
                       IN  owed[k] = 0 \/ k \in unmarked \cup raced
<1>1. IInv => Single
  BY DEF IInv, FiresAfterWindow, Fired, KeyNow
<1>2. IInv /\ [Next]_vars => [Single]_vars
  BY <1>1
<1>3. QED BY <1>2, AlertRouterInvariant, PTL DEF Spec, NoDuplicateInWindow

=============================================================================
