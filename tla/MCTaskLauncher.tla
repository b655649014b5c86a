-------------------------- MODULE MCTaskLauncher --------------------------
(* One or two nodes for TLC; the second one depends on the first if Chained. *)
EXTENDS TaskLauncher

CONSTANTS a, b, NodeSet, KindA, KindB, Chained, Join

MCDeps == [n \in NodeSet |-> IF n = b /\ Chained THEN {a} ELSE {}]
MCPolicy == [n \in NodeSet |-> IF n = b THEN Join ELSE "all_succeeded"]
MCFailure == [n \in NodeSet |-> "propagate"]
MCExpansion == [n \in NodeSet |-> {}]
MCKind == [n \in NodeSet |-> IF n = a THEN KindA ELSE KindB]
===========================================================================
