------------------------------ MODULE MCTurns ------------------------------
(***************************************************************************)
(* Live turns and what other runtimes see of them, two modules that share  *)
(* no state; the run explores one at a time, the other stays in its        *)
(* initial state, where none of its fair steps is possible.  Of a reader   *)
(* and a caller of a promotion too only one runs: neither reads what the   *)
(* other writes but the rows, and owners commit those by themselves.       *)
(*                                                                         *)
(* Scopes s1 and s2 name one session with two requests, or the same        *)
(* logical turn, or two sessions with one execution.  Generations s1 and   *)
(* s2 are two claims, one after the other, of one execution.               *)
(***************************************************************************)
EXTENDS TurnCoordination, TLC

CONSTANTS s1, s2

Id(k, r, x) == [session |-> k, request |-> r, digest |-> r, execution |-> x]

Rivals == s1 :> Id("k1", "r1", "x1") @@ s2 :> Id("k1", "r2", "x2")
Heirs == s1 :> Id("k1", "r1", "x1") @@ s2 :> Id("k1", "r1", "x1")
Clash == s1 :> Id("k1", "r1", "x1") @@ s2 :> Id("k2", "r3", "x1")

AllIdentities == {Rivals, Heirs, Clash}

VARIABLES
    subject,                                                  \* the part that runs
    claims, publishing, records, pointers, hints, watchers, rows, reader, caller, seen

Views == INSTANCE PendingViews WITH
    Generations <- Scopes, NoOne <- NoScope,
    ExecutionOf <- [g \in Scopes |-> "e1"], SessionOf <- [g \in Scopes |-> "s1"]

viewVars == <<claims, publishing, records, pointers, hints, watchers, rows, reader, caller, seen>>
allVars == <<subject, vars, viewVars>>

TurnsInit ==
    /\ subject \in {"turns", "reads", "promotions"}
    /\ Init /\ Views!Init
    /\ subject # "turns" => identity = Heirs

TurnsNext ==
    /\ UNCHANGED subject
    /\ \/ subject = "turns" /\ Next /\ UNCHANGED viewVars
       \/ subject = "reads" /\ Views!Next /\ UNCHANGED <<vars, caller, hints, watchers>>
       \/ subject = "promotions" /\ Views!Next /\ UNCHANGED <<vars, reader>>

TurnsSpec == TurnsInit /\ [][TurnsNext]_allVars /\ Views!Fairness

\* The invariants of the two parts.
TurnsInv == TurnInv /\ Views!TypeOK

\* What a reader in another runtime is told was true at one moment of its read.
AnswerTrue == Views!AnswerTrue

\* A remote promotion is answered by its deadline at the latest, and not refused if
\* the execution is durable by then.
PromotionSettles == Views!PromotionSettles

=============================================================================
