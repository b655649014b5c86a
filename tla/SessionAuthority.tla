--------------------------- MODULE SessionAuthority ---------------------------
(***************************************************************************)
(* What turn coordination promises: a session has at most one owner, and   *)
(* ownership passes to another one only after a time without an owner.     *)
(* Several owners may lose their sessions at the same moment.              *)
(***************************************************************************)
CONSTANTS
    Sessions,
    Owners,
    NoOwner

VARIABLE owner \* session -> its owner, or NoOwner

Init == owner = [k \in Sessions |-> NoOwner]

Gain(k) == owner[k] = NoOwner /\ owner'[k] \in Owners

End(k) == owner[k] # NoOwner /\ owner'[k] = NoOwner

Keep(k) == owner'[k] = owner[k]

Next == \A k \in Sessions : Gain(k) \/ End(k) \/ Keep(k)

Spec == Init /\ [][Next]_owner

=============================================================================
