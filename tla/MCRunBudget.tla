----------------------------- MODULE MCRunBudget -----------------------------
(***************************************************************************)
(* Instances of RunBudget: two runtimes that share a scope; a runtime that *)
(* sends the same request twice and another one beside it.                 *)
(***************************************************************************)
EXTENDS RunBudget, TLC

CONSTANTS r1, r2, c1, c2, c3, k1, k2, k3

ModelCall(r, k) == [kind |-> "model", runtime |-> r, key |-> k]
ToolCall(r, k) == [kind |-> "tool", runtime |-> r, key |-> k]

Shared ==
    [calls |-> c1 :> ModelCall(r1, k1) @@ c2 :> ModelCall(r2, k2) @@ c3 :> ToolCall(r2, k3),
     model_requests |-> 1, tool_calls |-> 1, total_tokens |-> 2, deadline |-> TRUE]

Local ==
    [calls |-> c1 :> ModelCall(r1, k1) @@ c2 :> ModelCall(r1, k1) @@ c3 :> ModelCall(r1, k2),
     model_requests |-> 2, tool_calls |-> 0, total_tokens |-> 2, deadline |-> FALSE]

SharedAndLocal == {Shared, Local}

=============================================================================
