----------------------------- MODULE MCPartitions -----------------------------
(* One tenant with a retention of a day, and a row of the month before last.    *)
EXTENDS Partitions
MCRetention == [t \in Tenant |-> 1]
MCLegacyRows == {[tenant |-> "t1", day |-> 3]}
=============================================================================
