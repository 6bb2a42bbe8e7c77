------------------------------ MODULE AlertRules ------------------------------
(***************************************************************************)
(* api/routes.py: the alert rules and channels of a tenant.  A rule names  *)
(* a channel type; _resolve_channel() looks for an active channel of the   *)
(* type and inserts a placeholder when it finds none.  Each request is one *)
(* transaction that reads first, and later writes and commits.             *)
(***************************************************************************)
EXTENDS Naturals, FiniteSets

CONSTANTS
  ChannelType,
  MaxRules,     \* bound: the requests that create or change a rule
  MaxChannels   \* bound: the channels that are created

\* Assumed by the module that instantiates this one.
AlertRulesAssumption == MaxRules \in Nat /\ MaxChannels \in Nat

VARIABLES
  channels,     \* the rows of alert_channels
  rules,        \* the rows of alert_rules, with the channel's id
  resolving,    \* the requests between their SELECT and their COMMIT
  channelsMade,
  resolved,     \* the requests that have looked for a channel
  excused       \* history: the types without an active channel in two requests at
                \* a time, or with one that was switched off


Init ==
  /\ channels = {}
  /\ rules = {}
  /\ resolving = {}
  /\ channelsMade = 0
  /\ resolved = 0
  /\ excused = {}

-----------------------------------------------------------------------------
(* create_alert_rule() and update_alert_rule() *)

Usable(ty) == {c.id : c \in {x \in channels : x.type = ty /\ x.active}}

\* The SELECTs of a request that finds its rule, or creates one, and a channel; any
\* active channel of the type may be the first.  0 stands for none.
Resolve(rule, changes, ty) ==
  /\ resolved < MaxRules
  /\ resolved' = resolved + 1
  /\ \E c \in IF Usable(ty) = {} THEN {0} ELSE Usable(ty) :
       /\ resolving' = resolving \cup
            {[n |-> resolved + 1, rule |-> rule, changes |-> changes, type |-> ty, channel |-> c]}
       /\ excused' = IF c = 0 /\ \E q \in resolving : q.type = ty /\ q.channel = 0
                     THEN excused \cup {ty} ELSE excused
  /\ UNCHANGED <<channels, rules, channelsMade>>

Create(ty) == Resolve(resolved + 1, FALSE, ty)

\* The other fields of body change the rule's row only.
Change(r, ty) ==
  /\ r \in rules
  /\ Resolve(r.id, TRUE, ty)

\* Mutant of Placeholder: every rule gets a channel of its own.
PlaceholderAlways(q) == TRUE

Placeholder(q) == q.channel = 0

\* flush() and COMMIT.
Save(q) ==
  LET id == IF Placeholder(q) THEN channelsMade + 1 ELSE q.channel
  IN  /\ q \in resolving
      /\ q.changes => \E r \in rules : r.id = q.rule
      /\ IF Placeholder(q)
         THEN /\ channelsMade < MaxChannels
              /\ channels' = channels \cup {[id |-> id, type |-> q.type, active |-> TRUE, placeholder |-> TRUE]}
         ELSE /\ \E c \in channels : c.id = id
              /\ UNCHANGED channels
      /\ channelsMade' = IF Placeholder(q) THEN id ELSE channelsMade
      /\ rules' = {r \in rules : r.id # q.rule} \cup {[id |-> q.rule, channel |-> id]}
      /\ resolving' = resolving \ {q}
      /\ UNCHANGED <<resolved, excused>>

\* The rule that is changed was deleted, or the channel was: the foreign key fails.
SaveFails(q) ==
  /\ q \in resolving
  /\ \/ q.changes /\ \A r \in rules : r.id # q.rule
     \/ q.channel # 0 /\ \A c \in channels : c.id # q.channel
  /\ resolving' = resolving \ {q}
  /\ UNCHANGED <<channels, rules, channelsMade, resolved, excused>>

DeleteRule(r) ==
  /\ r \in rules
  /\ rules' = rules \ {r}
  /\ UNCHANGED <<channels, resolving, channelsMade, resolved, excused>>

-----------------------------------------------------------------------------
(* create_alert_channel(), update_alert_channel() and delete_alert_channel() *)

CreateChannel(ty, active) ==
  /\ channelsMade < MaxChannels
  /\ channelsMade' = channelsMade + 1
  /\ channels' = channels \cup {[id |-> channelsMade + 1, type |-> ty, active |-> active, placeholder |-> FALSE]}
  /\ UNCHANGED <<rules, resolving, resolved, excused>>

\* The name and the configuration may change too.
SwitchChannel(c) ==
  /\ c \in channels
  /\ channels' = (channels \ {c}) \cup {[c EXCEPT !.active = ~@]}
  /\ excused' = IF c.active THEN excused \cup {c.type} ELSE excused
  /\ UNCHANGED <<rules, resolving, channelsMade, resolved>>

\* The rules of a channel are deleted with it.
DeleteChannel(c) ==
  /\ c \in channels
  /\ channels' = channels \ {c}
  /\ rules' = {r \in rules : r.channel # c.id}
  /\ UNCHANGED <<resolving, channelsMade, resolved, excused>>

Next ==
  \/ \E ty \in ChannelType : Create(ty) \/ \E active \in BOOLEAN : CreateChannel(ty, active)
  \/ \E r \in rules : DeleteRule(r) \/ \E ty \in ChannelType : Change(r, ty)
  \/ \E q \in resolving : Save(q) \/ SaveFails(q)
  \/ \E c \in channels : SwitchChannel(c) \/ DeleteChannel(c)

\* Every rule has its channel, and the rules of a type share one placeholder unless
\* two requests that found no channel overlapped, or a channel of the type was
\* switched off (routes.py:581, "creating a placeholder row if none exists").
RulesShareChannels ==
  /\ \A r \in rules : \E c \in channels : c.id = r.channel
  /\ \A c, d \in channels : c.placeholder /\ d.placeholder /\ c.type = d.type /\ c # d => c.type \in excused

=============================================================================
