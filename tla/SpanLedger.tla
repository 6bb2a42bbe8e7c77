----------------------------- MODULE SpanLedger -----------------------------
(***************************************************************************)
(* What a telemetry buffer promises, whatever it is built from.            *)
(*                                                                         *)
(* A record is "absent" until the buffer takes it, then "pending" while    *)
(* the process alone holds it, then "durable" once the store behind the    *)
(* buffer has it.  Only a buffer that is shutting down may give a pending  *)
(* record up ("lost"), and a buffer that is shutting down takes nothing    *)
(* more.  BatchWriter and SdkSpanQueue are each shown to implement         *)
(* this ledger.                                                            *)
(***************************************************************************)

CONSTANT Record     \* the span records that may ever be written

VARIABLES
  fate,             \* fate[r]: where record r is
  closing           \* TRUE once the buffer's shutdown has begun

vars == <<fate, closing>>

Fate == {"absent", "pending", "durable", "lost"}

Init ==
  /\ fate = [r \in Record |-> "absent"]
  /\ closing = FALSE

\* Every record of S goes from the fate `from` to the fate `to` in one step.
Move(S, from, to) ==
  /\ \A r \in S : fate[r] = from
  /\ fate' = [r \in Record |-> IF r \in S THEN to ELSE fate[r]]

\* The buffer takes one more record, which nobody may refuse afterwards.
Accept ==
  /\ ~closing
  /\ \E r \in Record : Move({r}, "absent", "pending")
  /\ UNCHANGED closing

\* A whole batch becomes durable at once.
Settle ==
  /\ \E S \in SUBSET Record : Move(S, "pending", "durable")
  /\ UNCHANGED closing

\* Shutdown begins, or goes on; from then on the buffer may fail to save what
\* it holds.
GiveUp ==
  /\ closing' = TRUE
  /\ \E S \in SUBSET Record : Move(S, "pending", "lost")

Next == Accept \/ Settle \/ GiveUp

Spec == Init /\ [][Next]_vars

=============================================================================
