------------------------------ MODULE Partitions ------------------------------
(***************************************************************************)
(* The monthly partitions of the telemetry tables: migration 003 creates   *)
(* them, storage/partitioning.py extends them on startup and once a day    *)
(* (api/main.py), and drops the expired ones.  One table stands for the    *)
(* five, which are treated alike.                                          *)
(*                                                                         *)
(* Days are numbered; a month has Days of them.                            *)
(***************************************************************************)
EXTENDS Integers, FiniteSets, FiniteSetsExt

CONSTANTS Tenant,
  Retention,   \* tenants.retention_days, which no operation changes
  Days,
  LegacyRows,  \* the rows that a database may have before migration 003
  FirstDay, LastDay, MaxRows, MaxFailures \* bounds

\* Assumed by the module that instantiates this one.
PartitionsAssumption ==
  /\ IsFiniteSet(Tenant)
  /\ Days \in Nat \ {0} /\ Retention \in [Tenant -> Nat] /\ {FirstDay, LastDay, MaxRows, MaxFailures} \subseteq Nat
  /\ LegacyRows \subseteq [tenant : Tenant, day : Int]

VARIABLES
  today,
  legacy,      \* the table before the migration, or {}
  partitions,  \* the months that have a partition; no months before the migration
  stored,      \* the rows of the partitioned table
  loop,        \* what the API process does, and on which day its loop wakes up
  made,        \* history: how many rows were inserted or refused
  refused,     \* history: the days of rows that found no partition
  ensured,     \* history: the month of the migration or of the last successful maintenance
  expired,     \* history: the partitions that the latest drop should not have left
  failures

vars == <<today, legacy, partitions, stored, loop, made, refused, ensured, expired, failures>>

Month(day) == day \div Days
FirstOf(month) == month * Days

Init ==
  /\ today = FirstDay
  /\ legacy \in SUBSET LegacyRows
  /\ partitions = {}
  /\ stored = {}
  /\ loop = [at |-> "off", wakes |-> FirstDay]
  /\ made = 0
  /\ refused = {}
  /\ ensured = Month(FirstDay)
  /\ expired = {}
  /\ failures = 0

NextDay ==
  /\ today < LastDay
  /\ today' = today + 1
  /\ UNCHANGED <<legacy, partitions, stored, loop, made, refused, ensured, expired, failures>>

\* The migration is one transaction: a row older than its five partitions makes
\* the copy fail, and the database stays as it was.
Upgrade ==
  LET window == Month(today) - 2 .. Month(today) + 2
  IN  /\ partitions = {}
      /\ \A row \in legacy : Month(row.day) \in window
      /\ partitions' = window
      /\ stored' = legacy
      /\ legacy' = {}
      /\ ensured' = Month(today)
      /\ UNCHANGED <<today, loop, made, refused, expired, failures>>

\* A row is created now; without a partition its INSERT fails.
Insert(tenant) ==
  /\ partitions # {} /\ made < MaxRows
  /\ made' = made + 1
  /\ IF Month(today) \in partitions
     THEN stored' = stored \cup {[tenant |-> tenant, day |-> today]} /\ UNCHANGED refused
     ELSE refused' = refused \cup {today} /\ UNCHANGED stored
  /\ UNCHANGED <<today, legacy, partitions, loop, ensured, expired, failures>>

-----------------------------------------------------------------------------

\* The migrations run before the process starts.
Start ==
  /\ loop.at = "off" /\ partitions # {}
  /\ loop' = [at |-> "start", wakes |-> today]
  /\ UNCHANGED <<today, legacy, partitions, stored, made, refused, ensured, expired, failures>>

\* Mutant of Window: the month at hand and those behind it.
WindowBehind == Month(today) - 1 .. Month(today)

Window == Month(today) - 1 .. Month(today) + 2

\* ensure_partitions(), in lifespan() and then in the loop
Ensure ==
  /\ loop.at = "start" \/ (loop.at = "loop" /\ loop.wakes <= today)
  /\ partitions' = partitions \cup Window
  /\ ensured' = Month(today)
  /\ loop' = [loop EXCEPT !.at = IF @ = "start" THEN "loop" ELSE "drop"]
  /\ UNCHANGED <<today, legacy, stored, made, refused, expired, failures>>

\* max_retention or 30
Longest ==
  LET positive == {Retention[t] : t \in Tenant} \ {0}
  IN  IF positive = {} THEN 30 ELSE Max(positive)

\* The month of the oldest day that the longest retention of all tenants keeps.
Cutoff == FirstOf(Month(today - Longest))

\* The bound of a partition as pg_get_expr() writes it: the bound of a timestamptz
\* column has a time of day.
UpperBound(month) == [day |-> FirstOf(month + 1), timeOfDay |-> TRUE]

\* Mutant of Expired: dates are read from any bound, and the lower one is taken.
ExpiredByLower(month) == FirstOf(month) <= Cutoff

\* The pattern of otelmind_drop_expired_partitions() ends with the quote after the date.
Expired(month) == ~UpperBound(month).timeOfDay /\ UpperBound(month).day <= Cutoff

Drop ==
  /\ loop.at = "drop"
  /\ partitions' = {m \in partitions : ~Expired(m)}
  /\ stored' = {row \in stored : Month(row.day) \in partitions'}
  /\ expired' = {m \in partitions' : FirstOf(m + 1) <= Cutoff}
  /\ loop' = [at |-> "loop", wakes |-> today + 1]
  /\ UNCHANGED <<today, legacy, made, refused, ensured, failures>>

\* An exception is logged: the startup goes on, the loop sleeps for a day.
MaintenanceFails ==
  /\ loop.at \in {"start", "drop"} \/ (loop.at = "loop" /\ loop.wakes <= today)
  /\ failures < MaxFailures
  /\ failures' = failures + 1
  /\ loop' = [at |-> "loop", wakes |-> IF loop.at = "start" THEN today ELSE today + 1]
  /\ UNCHANGED <<today, legacy, partitions, stored, made, refused, ensured, expired>>

Stop ==
  /\ loop.at # "off" /\ failures < MaxFailures
  /\ failures' = failures + 1
  /\ loop' = [at |-> "off", wakes |-> today]
  /\ UNCHANGED <<today, legacy, partitions, stored, made, refused, ensured, expired>>

Next ==
  \/ NextDay \/ Upgrade \/ Start \/ Ensure \/ Drop \/ MaintenanceFails \/ Stop
  \/ \E t \in Tenant : Insert(t)

Spec == Init /\ [][Next]_vars

-----------------------------------------------------------------------------
\* A row is dropped only after the retention of its own tenant, and refused only
\* when neither the migration nor a successful maintenance was in its month or in
\* the two before it (partitioning.py:11, "guarantees the current and next month
\* have a partition before any INSERT lands"; :89, "no tenant's data is dropped").
RowsKept ==
  [][ /\ \A row \in stored \ stored' : today - row.day > Retention[row.tenant]
      /\ \A date \in refused' \ refused : Month(date) > ensured + 2 ]_vars

\* A drop that succeeds leaves no partition whose upper bound is at or below the
\* cutoff (partitioning.py:86, "Drop monthly partitions whose upper bound is <= the
\* cutoff date").
ExpiredIsDropped == expired = {}

=============================================================================
