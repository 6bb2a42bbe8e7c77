----------------------------- MODULE MCGroupRuns -----------------------------
(* GroupRuns under names that it does not share with GroupSolve, so that the     *)
(* proofs about both can extend this module and that one.                        *)
CONSTANTS Process, Run, Limit, Hour, StuckAfter, MaxTime, MaxCrashes

VARIABLES now, up, starting, sweep, request, server, rowStatus, createdAt, task, orphaned, swept, overlap, crashes

Runs == INSTANCE GroupRuns WITH status <- rowStatus

ASSUME GroupRunsConstants == Runs!GroupRunsAssumption

RunsSpec == Runs!FairSpec

\* multiagent_routes.py:71 and main.py:34: the limit holds of requests that do not
\* overlap, and a process fails no run that it executes itself.
RunsAreSafe == Runs!RunsAreSafe
\* Only a run that the sweep of another process fails, or is about to, gets a second outcome.
SettledIsFinal == Runs!SettledIsFinal
\* An accepted run is settled, unless its task or its process ended before.
AcceptedIsSettled == Runs!AcceptedIsSettled

=============================================================================
