-------------------------- MODULE MCSessionObserver --------------------------
(***************************************************************************)
(* Two attempts at one request in two runtimes, or two requests in one     *)
(* runtime.  The agents call tools, or an observer that shares a runtime   *)
(* with turn t1 asks about the session.                                    *)
(***************************************************************************)
EXTENDS SessionObserver, TLC

CONSTANTS t1, u1

Attempt(r, m, uses) == [request |-> r, runtime |-> m, tool |-> uses]

Retried(uses) == t1 :> Attempt("r1", "m1", uses) @@ u1 :> Attempt("r1", "m2", uses)
Queued(uses) == t1 :> Attempt("r1", "m1", uses) @@ u1 :> Attempt("r2", "m1", uses)

AllAttempts == {Retried(TRUE), Queued(TRUE), Retried(FALSE), Queued(FALSE)}

MCInit == ObserverInit /\ (phase = "off" <=> \E t \in Turns : attempt[t].tool)

\* The turns alone are explored while nobody asks; an observed run ends with
\* its answer.
MCNext == ObserverStep \/ ((Asking \/ phase \in {"off", "idle"}) /\ TurnStep)

MCSpec == MCInit /\ [][MCNext]_<<vars, observerVars>>

=============================================================================
