------------------------------- MODULE RateLimit -------------------------------
(***************************************************************************)
(* api/rate_limit.py: enforce_tenant_rate_limit() keeps, per tenant and    *)
(* bucket, a sorted set of the seconds in which a request arrived, and     *)
(* refuses a request when the set has more members than the limit.         *)
(***************************************************************************)
EXTENDS Naturals, FiniteSets

CONSTANTS
  Bucket,       \* "ingest" and "read", of one tenant
  LimitOf,      \* settings.rate_limit_ingest, settings.rate_limit_read
  WindowSize,   \* 60 seconds
  MaxSecond     \* bound

\* Assumed by the module that instantiates this one.
RateLimitAssumption ==
  /\ WindowSize \in Nat \ {0}
  /\ LimitOf \in [Bucket -> Nat]
  /\ MaxSecond \in Nat

VARIABLES
  second,       \* int(time.time())
  stamps,       \* Redis: the members of the sorted set of each bucket
  requested,    \* history: the seconds in which requests reached Redis
  answer        \* of the last request of each bucket: "ok" or 429

limitVars == <<second, stamps, requested, answer>>

Init ==
  /\ second = 1
  /\ stamps = [b \in Bucket |-> {}]
  /\ requested = [b \in Bucket |-> {}]
  /\ answer = [b \in Bucket |-> "ok"]

Pass ==
  /\ second < MaxSecond
  /\ second' = second + 1
  /\ UNCHANGED <<stamps, requested, answer>>

\* Mutant of Recent: the members that have left the window are kept.
RecentAll(s) == s

\* zremrangebyscore from 0 to now - window.
Recent(s) == {x \in s : x + WindowSize > second}

Request(b) ==
  LET members == Recent(stamps[b]) \cup {second}
  IN  /\ stamps' = [stamps EXCEPT ![b] = members]
      /\ requested' = [requested EXCEPT ![b] = @ \cup {second}]
      /\ answer' = [answer EXCEPT ![b] = IF Cardinality(members) > LimitOf[b] THEN "429" ELSE "ok"]
      /\ UNCHANGED second

\* Redis does not answer: the check is skipped.
RequestUnchecked(b) ==
  /\ answer' = [answer EXCEPT ![b] = "ok"]
  /\ UNCHANGED <<second, stamps, requested>>

\* expire: a set that has not been written for window + 5 seconds is gone.
Expire(b) ==
  /\ stamps[b] # {}
  /\ \A x \in stamps[b] : x + WindowSize + 5 <= second
  /\ stamps' = [stamps EXCEPT ![b] = {}]
  /\ UNCHANGED <<second, requested, answer>>

Next == Pass \/ \E b \in Bucket : Request(b) \/ RequestUnchecked(b) \/ Expire(b)

Spec == Init /\ [][Next]_limitVars

\* A request is refused only if its tenant has sent requests to the bucket in more
\* seconds of the window than the limit: one bucket does not count for the other,
\* refused requests count, and what has left the window does not
\* (rate_limit.py:18, "if the tenant exceeded their plan limit for this bucket").
RefusedIsBusy ==
  [][\A b \in Bucket : answer'[b] = "429" /\ <<requested[b], answer[b]>>' # <<requested[b], answer[b]>> =>
        Cardinality({x \in requested'[b] : x + WindowSize > second}) > LimitOf[b]]_limitVars

=============================================================================
