------------------------- MODULE MCTaskRepository -------------------------
(* Small graphs for TLC.  join: a and b are roots, c joins them.  grow: c     *)
(* depends on b and b on a, so one reconciliation pass has to carry a failure *)
(* over two edges, and a adds d, which depends on it, when it completes.      *)
EXTENDS TaskRepository

CONSTANTS a, b, c, d, Shape, Join

MCNodes == IF Shape = "grow" THEN {a, b, c, d} ELSE {a, b, c}
MCInitial == {a, b, c}
MCDeps ==
    [n \in MCNodes |->
       CASE n = a -> {}
         [] n = b -> IF Shape = "grow" THEN {a} ELSE {}
         [] n = c -> IF Shape = "grow" THEN {b} ELSE {a, b}
         [] n = d -> {a}]
MCPolicy == [n \in MCNodes |-> CASE n = c -> Join [] n = d -> "all_terminal" [] OTHER -> "all_succeeded"]
MCFailure == [n \in MCNodes |-> IF n = b THEN "isolate" ELSE "propagate"]
MCExpansion == [n \in MCNodes |-> IF Shape = "grow" /\ n = a THEN {d} ELSE {}]
===========================================================================
