----------------------------- MODULE AlertRouter -----------------------------
(***************************************************************************)
(* otelmind/alerting/alert_router.py: dispatch() fires, for one failure,   *)
(* the channel of every matching rule, unless Redis holds a deduplication  *)
(* key that an earlier alert has left there for the rule's window.         *)
(*                                                                         *)
(* A dispatcher is a watchdog, which awaits one dispatch() at a time; it   *)
(* is interrupted at each Redis call and at the channel's HTTP or SMTP     *)
(* call.  The rules are those of one tenant.                               *)
(***************************************************************************)
EXTENDS Naturals, FiniteSets

CONSTANTS
  Dispatcher,   \* the watchdogs that dispatch alerts
  Rule,         \* the active alert rules
  Channel,      \* the channels they fire
  Type,         \* the failure types
  ChannelOf,    \* the channel of each rule
  Matches,      \* the failure types that a rule matches
  Window,       \* dedup_window_seconds of each rule, in ticks
  MaxWindow,    \* the longest window
  MaxFailures   \* bound: how many failures are dispatched

ASSUME AlertRouterAssumption ==
  /\ ChannelOf \in [Rule -> Channel]
  /\ Matches \in [Rule -> SUBSET Type]
  /\ MaxWindow \in Nat
  /\ Window \in [Rule -> 1..MaxWindow]
  /\ MaxFailures \in Nat

\* _dedup_key(): a tenant's channel and failure type, whatever the rule.
Key == Channel \X Type
KeyOf(r, y) == <<ChannelOf[r], y>>

VARIABLES
  task,         \* what each dispatcher does
  dedup,        \* Redis: for how long each key still exists
  owed,         \* history: for how long the window of the last alert still runs
  alerted,      \* history: the keys for which a channel was ever notified
  unmarked,     \* history: the keys whose SETEX failed after an alert
  raced,        \* history: the keys two dispatchers fire for at the same time
  dispatched    \* how many failures were dispatched

vars == <<task, dedup, owed, alerted, unmarked, raced, dispatched>>

\* at: between two failures; before the next rule; about to fire; about to
\* call setex.  `rules` are those not looked at yet, `rule` the current ones.
Task == [at : {"idle", "next", "fire", "mark"}, type : Type,
         rules : SUBSET Rule, rule : SUBSET Rule]

Idle(y) == [at |-> "idle", type |-> y, rules |-> {}, rule |-> {}]

Init ==
  /\ task \in [Dispatcher -> {Idle(y) : y \in Type}]
  /\ dedup = [k \in Key |-> 0]
  /\ owed = [k \in Key |-> 0]
  /\ alerted = {}
  /\ unmarked = {}
  /\ raced = {}
  /\ dispatched = 0

\* dispatch() is called and loads the active rules; _matches() selects.
Dispatch(d, y) ==
  /\ task[d].at = "idle"
  /\ dispatched < MaxFailures
  /\ dispatched' = dispatched + 1
  /\ task' = [task EXCEPT ![d] = [at |-> "next", type |-> y,
                rules |-> {r \in Rule : y \in Matches[r]}, rule |-> {}]]
  /\ UNCHANGED <<dedup, owed, alerted, unmarked, raced>>

\* Another dispatcher is between its look-up and its SETEX of the key.
Busy(d, k) ==
  \E e \in Dispatcher \ {d} : \E r \in task[e].rule : KeyOf(r, task[e].type) = k

\* Dispatcher d goes on to fire rule r.  A race is over when a key that nobody
\* else fires for, and that owes no window, is looked up.
Fire(d, r) ==
  LET k == KeyOf(r, task[d].type)
  IN  /\ task' = [task EXCEPT ![d].rules = @ \ {r}, ![d].at = "fire", ![d].rule = {r}]
      /\ raced' = IF Busy(d, k) THEN raced \cup {k}
                  ELSE IF owed[k] = 0 THEN raced \ {k} ELSE raced

\* Mutant of Check: the key is not looked up.
CheckNothing(d, r) ==
  /\ task[d].at = "next"
  /\ r \in task[d].rules
  /\ Fire(d, r)
  /\ UNCHANGED <<dedup, owed, alerted, unmarked, dispatched>>

\* _is_deduped(): EXISTS.  A suppressed rule is skipped.
Check(d, r) ==
  /\ task[d].at = "next"
  /\ r \in task[d].rules
  /\ IF dedup[KeyOf(r, task[d].type)] > 0
     THEN task' = [task EXCEPT ![d].rules = @ \ {r}] /\ UNCHANGED raced
     ELSE Fire(d, r)
  /\ UNCHANGED <<dedup, owed, alerted, unmarked, dispatched>>

\* _fire_channel() returned True.
Fired(d, r) ==
  /\ task[d].at = "fire"
  /\ r \in task[d].rule
  /\ task' = [task EXCEPT ![d].at = "mark"]
  /\ owed' = [owed EXCEPT ![KeyOf(r, task[d].type)] = Window[r]]
  /\ alerted' = alerted \cup {KeyOf(r, task[d].type)}
  /\ UNCHANGED <<dedup, unmarked, raced, dispatched>>

\* It returned False: not configured, or the channel refused.
NotFired(d) ==
  /\ task[d].at = "fire"
  /\ task' = [task EXCEPT ![d].at = "next", ![d].rule = {}]
  /\ UNCHANGED <<dedup, owed, alerted, unmarked, raced, dispatched>>

\* Mutant of Mark: the window is not the rule's own.
MarkOneTick(d, r) ==
  /\ task[d].at = "mark"
  /\ r \in task[d].rule
  /\ dedup' = [dedup EXCEPT ![KeyOf(r, task[d].type)] = 1]
  /\ task' = [task EXCEPT ![d].at = "next", ![d].rule = {}]
  /\ UNCHANGED <<owed, alerted, unmarked, raced, dispatched>>

\* _record_dedup(): SETEX with the rule's window.
Mark(d, r) ==
  /\ task[d].at = "mark"
  /\ r \in task[d].rule
  /\ dedup' = [dedup EXCEPT ![KeyOf(r, task[d].type)] = Window[r]]
  /\ task' = [task EXCEPT ![d].at = "next", ![d].rule = {}]
  /\ UNCHANGED <<owed, alerted, unmarked, raced, dispatched>>

\* Redis or the channel raises: dispatch() ends, and the watchdog logs it.
Raises(d) ==
  /\ task[d].at \in {"fire", "mark"} \/ task[d].rules # {}
  /\ unmarked' = unmarked \cup {KeyOf(r, task[d].type) :
                    r \in {q \in task[d].rule : task[d].at = "mark"}}
  /\ task' = [task EXCEPT ![d] = Idle(task[d].type)]
  /\ UNCHANGED <<dedup, owed, alerted, raced, dispatched>>

Done(d) ==
  /\ task[d].at = "next"
  /\ task[d].rules = {}
  /\ task' = [task EXCEPT ![d] = Idle(task[d].type)]
  /\ UNCHANGED <<dedup, owed, alerted, unmarked, raced, dispatched>>

Down(n) == IF n = 0 THEN 0 ELSE n - 1

\* Time passes: keys expire.
Tick ==
  /\ \E k \in Key : dedup[k] > 0 \/ owed[k] > 0
  /\ dedup' = [k \in Key |-> Down(dedup[k])]
  /\ owed' = [k \in Key |-> Down(owed[k])]
  /\ UNCHANGED <<task, alerted, unmarked, raced, dispatched>>

Next ==
  \/ \E d \in Dispatcher :
       \/ \E y \in Type : Dispatch(d, y)
       \/ \E r \in Rule : Check(d, r) \/ Fired(d, r) \/ Mark(d, r)
       \/ NotFired(d) \/ Raises(d) \/ Done(d)
  \/ Tick

Spec == Init /\ [][Next]_vars

-----------------------------------------------------------------------------
TypeOK ==
  /\ task \in [Dispatcher -> Task]
  /\ \A d \in Dispatcher :
       /\ task[d].rule # {} <=> task[d].at \in {"fire", "mark"}
       /\ \A r \in task[d].rules \cup task[d].rule : task[d].type \in Matches[r]
  /\ dedup \in [Key -> 0..MaxWindow]
  /\ owed \in [Key -> 0..MaxWindow]
  /\ alerted \subseteq Key
  /\ unmarked \subseteq Key
  /\ raced \subseteq Key
  /\ dispatched \in 0..MaxFailures

Marking(k) ==
  \E d \in Dispatcher : task[d].at = "mark" /\ \E r \in task[d].rule : KeyOf(r, task[d].type) = k

\* While the window of an alert runs, Redis suppresses the next one, or the
\* dispatcher that sent it is about to say so, or failed to, or another one
\* has sent the same alert meanwhile and set a shorter window.
WindowGuarded ==
  \A k \in Key : dedup[k] >= owed[k] \/ Marking(k) \/ k \in unmarked \cup raced

\* An alert is suppressed only after its channel was really notified of a
\* failure of that type: a channel that refuses an alert hides no other.
SuppressionExplained ==
  \A k \in Key : dedup[k] > 0 => k \in alerted

\* Watchdogs that race, windows of different length and channels that refuse: an
\* alert is suppressed while its window runs, and only after one was sent.
WindowsAreSafe == TypeOK /\ WindowGuarded /\ SuppressionExplained

\* What the model says of the window (models.py:240), "suppress duplicate
\* alerts within this window", holds unless a SETEX failed or two watchdogs
\* looked the key up before either set it.
NoDuplicateInWindow ==
  [][\A d \in Dispatcher, r \in Rule :
       Fired(d, r) => LET k == KeyOf(r, task[d].type)
                      IN  owed[k] = 0 \/ k \in unmarked \cup raced]_vars

=============================================================================
