----------------------------- MODULE MCCollector -----------------------------
(* Model checking of Collector. *)
EXTENDS Collector, TLC

CONSTANTS p1, p2, r1, r2, t1, t2

\* Each record has a trace of its own; a record that is sent again shares it.
MCTraceOf == (r1 :> t1 @@ r2 :> t2)

=============================================================================
