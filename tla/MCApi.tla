--------------------------------- MODULE MCApi ---------------------------------
(* The small services of the REST API, for MCServices, where `service` names   *)
(* the one whose steps are taken.                                              *)
EXTENDS Naturals, FiniteSets

CONSTANTS Row, Batch, Limit, MaxNow
CONSTANTS Bucket, LimitOf, WindowSize, MaxSecond
CONSTANTS Email, Roles, Asked, MaxAsked
CONSTANTS ChannelType, MaxRules, MaxChannels

VARIABLES service
VARIABLES now, at, visible, last, sent, late, cursor, owed, between
VARIABLES second, stamps, requested, answer
VARIABLES password, member, rowsMade, request, before
VARIABLES channels, rules, resolving, channelsMade, resolved, excused

Feed == INSTANCE FailureFeed
Limiter == INSTANCE RateLimit
Members == INSTANCE Membership
Alerts == INSTANCE AlertRules

ASSUME ApiAssumption ==
  /\ Feed!FailureFeedAssumption /\ Limiter!RateLimitAssumption
  /\ Members!MembershipAssumption /\ Alerts!AlertRulesAssumption

feedVars == <<now, at, visible, last, sent, late, cursor, owed, between>>
limitVars == <<second, stamps, requested, answer>>
memberVars == <<password, member, rowsMade, request, before>>
ruleVars == <<channels, rules, resolving, channelsMade, resolved, excused>>
apiVars == <<feedVars, limitVars, memberVars, ruleVars>>

MCLimitOf == [b \in {"ingest", "read"} |-> IF b = "ingest" THEN 1 ELSE 2]
MCAsked == {[op |-> "invite", email |-> "ann", role |-> "viewer"],
            [op |-> "invite", email |-> "ann", role |-> "guest"],
            [op |-> "role", email |-> "ann", role |-> "owner"],
            [op |-> "remove", email |-> "ann", role |-> "none"],
            [op |-> "invite", email |-> "bob", role |-> "viewer"]}

ApiInit == Feed!Init /\ Limiter!Init /\ Members!Init /\ Alerts!Init

ApiNext ==
  \/ /\ service = "feed" /\ Feed!Next
     /\ UNCHANGED <<limitVars, memberVars, ruleVars>>
  \/ /\ service = "limit" /\ Limiter!Next
     /\ UNCHANGED <<feedVars, memberVars, ruleVars>>
  \/ /\ service = "members" /\ Members!Next
     /\ UNCHANGED <<feedVars, limitVars, ruleVars>>
  \/ /\ service = "alerts" /\ Alerts!Next
     /\ UNCHANGED <<feedVars, limitVars, memberVars>>

\* routes.py:330 and :196: the stream of failures passes over late rows only, and the
\* pages of a client show every row that it began with.
ReadersMissOnlyLate == Feed!ReadersMissOnlyLate
\* rate_limit.py:38: only a tenant above its limit is refused.
RefusedIsBusy == Limiter!RefusedIsBusy
\* rbac_routes.py:207: the latest answer about a member that ran alone holds.
LatestAnswerHolds == Members!LatestAnswerHolds
\* routes.py:594: rules have a channel, and share the placeholder of their type.
RulesShareChannels == Alerts!RulesShareChannels

=============================================================================
