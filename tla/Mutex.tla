-------------------------------- MODULE Mutex --------------------------------
(***************************************************************************)
(* What a process-local lock of storage/_lock.py promises for one key:     *)
(* one task at a time holds it, a task gets it only when nobody has it,    *)
(* and only the holder, or somebody on its behalf, gives it back.          *)
(***************************************************************************)
CONSTANTS
    Tasks,   \* asyncio tasks of one process
    NoTask   \* nobody

VARIABLE holder

Init == holder = NoTask

Take(t) == holder = NoTask /\ holder' = t

Give(t) == holder = t /\ holder' = NoTask

Next == \E t \in Tasks : Take(t) \/ Give(t)

Spec == Init /\ [][Next]_holder

=============================================================================
