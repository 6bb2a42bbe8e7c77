------------------------------ MODULE FailureFeed ------------------------------
(***************************************************************************)
(* How a client of api/routes.py sees a table that grows while it reads:   *)
(* stream_failures() sends the rows that are newer than the last one it    *)
(* has sent; list_failures(), list_traces() and list_eval_runs() return    *)
(* pages from the newest row on, at an offset that the client hands back.  *)
(*                                                                         *)
(* A row has the time at which its transaction began (func.now()), and is  *)
(* seen from its commit on.                                                *)
(***************************************************************************)
EXTENDS Naturals, FiniteSets, SequencesExt

CONSTANTS
  Row,          \* bound: the rows that are written
  Batch,        \* LIMIT 20 of the stream
  Limit,        \* ?limit of the pages
  MaxNow        \* bound: the instants at which transactions begin

\* Assumed by the module that instantiates this one.
FailureFeedAssumption ==
  /\ Batch \in Nat \ {0} /\ Limit \in Nat \ {0} /\ MaxNow \in Nat

VARIABLES
  now,
  at,           \* created_at of the rows that are written, visible or not
  visible,      \* the rows that are committed
  last,         \* stream: last_ts, 0 for None
  sent,         \* stream: the rows in the order in which they were sent
  late,         \* history: the rows that were committed when last_ts had passed them
  cursor,       \* client: step, offset, total and the rows of its pages
  owed,         \* history: the rows that were visible when the client began
  between       \* history: a row was committed between a page's COUNT and its SELECT


Init ==
  /\ now = 1
  /\ at = [r \in {} |-> 0]
  /\ visible = {}
  /\ last = 0
  /\ sent = <<>>
  /\ late = {}
  /\ cursor = [step |-> "begin", offset |-> 0, total |-> 0, rows |-> {}]
  /\ owed = {}
  /\ between = FALSE

Tick ==
  /\ now < MaxNow
  /\ now' = now + 1
  /\ UNCHANGED <<at, visible, last, sent, late, cursor, owed, between>>

\* A transaction that inserts the row begins.
Write(r) ==
  /\ r \in Row \ DOMAIN at
  /\ at' = [x \in DOMAIN at \cup {r} |-> IF x = r THEN now ELSE at[x]]
  /\ UNCHANGED <<now, visible, last, sent, late, cursor, owed, between>>

Commit(r) ==
  /\ r \in DOMAIN at \ visible
  /\ visible' = visible \cup {r}
  /\ late' = IF at[r] <= last THEN late \cup {r} ELSE late
  /\ between' = (between \/ cursor.step = "select")
  /\ UNCHANGED <<now, at, last, sent, cursor, owed>>

-----------------------------------------------------------------------------
(* stream_failures(), every two seconds *)

Newer == {r \in visible : at[r] > last}

\* Mutant of Oldest: the newest rows first, as in the pages.
OldestReversed == {b \in SUBSET Newer : /\ Cardinality(b) = Min({Batch, Cardinality(Newer)})
                                        /\ \A r \in b, s \in Newer \ b : at[r] >= at[s]}

\* The first rows by created_at; which of those of one instant is left open.
Oldest == {b \in SUBSET Newer : /\ Cardinality(b) = Min({Batch, Cardinality(Newer)})
                                /\ \A r \in b, s \in Newer \ b : at[r] <= at[s]}

\* The rows from the oldest to the newest, those of one instant in any order.
Sorted(b) == {q \in SetToSeqs(b) : \A i, j \in DOMAIN q : i < j => at[q[i]] <= at[q[j]]}

Poll ==
  /\ Newer # {}
  /\ \E b \in Oldest :
       /\ \E q \in Sorted(b) : sent' = sent \o q
       /\ last' = Max({at[r] : r \in b})
  /\ UNCHANGED <<now, at, visible, late, cursor, owed, between>>

-----------------------------------------------------------------------------
(* A client that follows next_cursor *)

\* The COUNT of a page.
Count ==
  /\ cursor.step \in {"begin", "count"}
  /\ cursor' = [cursor EXCEPT !.step = "select", !.total = Cardinality(visible)]
  /\ owed' = IF cursor.step = "begin" THEN visible ELSE owed
  /\ UNCHANGED <<now, at, visible, last, sent, late, between>>

\* The rows from the newest to the oldest, those of one instant in any order.
Ordered == {s \in SetToSeqs(visible) : \A i, j \in DOMAIN s : i < j => at[s[i]] >= at[s[j]]}

\* Mutant of More: a page counts from one.
MoreFromOne == cursor.offset + Limit + 1 < cursor.total

More == cursor.offset + Limit < cursor.total

\* The SELECT of the page, and next_cursor.
Select ==
  /\ cursor.step = "select"
  /\ \E s \in Ordered :
       cursor' = [cursor EXCEPT !.rows = @ \cup ToSet(SubSeq(s, cursor.offset + 1, Min({cursor.offset + Limit, Len(s)}))),
                                !.offset = IF More THEN @ + Limit ELSE @,
                                !.step = IF More THEN "count" ELSE "end"]
  /\ UNCHANGED <<now, at, visible, last, sent, late, owed, between>>

Next ==
  \/ Tick \/ Poll \/ Count \/ Select
  \/ \E r \in Row : Write(r) \/ Commit(r)

\* Rows of one instant have no order of their own.
Tied(r, others) == \E s \in others \ {r} : at[s] = at[r]

\* The stream sends no failure twice, older ones first, and passes over a failure
\* only if it was committed after a later one was sent, or shares its created_at
\* with one that was the last of its batch (routes.py:330).
StreamSkipsOnlyLate ==
  /\ \A i, j \in DOMAIN sent : i < j => sent[i] # sent[j] /\ at[sent[i]] <= at[sent[j]]
  /\ \A r \in visible \ ToSet(sent) : at[r] <= last => r \in late \/ Tied(r, ToSet(sent))

\* A client that follows next_cursor to its end has seen every row that existed
\* when it began, whatever is inserted meanwhile, unless rows of one instant change
\* places or a row was committed between a page's COUNT and its SELECT.
PagesShowAll ==
  cursor.step = "end" /\ ~between => \A r \in owed : r \in cursor.rows \/ Tied(r, visible)

\* Neither the stream nor the pages hide a failure but for the races named above.
ReadersMissOnlyLate == StreamSkipsOnlyLate /\ PagesShowAll

=============================================================================
