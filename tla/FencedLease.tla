----------------------------- MODULE FencedLease -----------------------------
(***************************************************************************)
(* What a fenced lease promises about one key: fences are issued once and  *)
(* grow, a new one is issued only while no lease is live, and only the     *)
(* lease with the newest fence can be live.                                *)
(***************************************************************************)
EXTENDS Naturals

VARIABLES
    fence, \* the newest fence issued
    live   \* whether its lease is live

Init == fence = 0 /\ live = FALSE

\* A new fence is issued; its lease may come to life or be lost at once.
Issue == ~live /\ fence' = fence + 1 /\ live' \in BOOLEAN

\* The lease is released or runs out.
End == live /\ live' = FALSE /\ UNCHANGED fence

\* The holder of the newest lease renews it after it ran out.
Revive == ~live /\ fence > 0 /\ live' = TRUE /\ UNCHANGED fence

Next == Issue \/ End \/ Revive

Spec == Init /\ [][Next]_<<fence, live>>

=============================================================================
