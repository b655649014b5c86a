----------------------------- MODULE PendingTurn -----------------------------
(***************************************************************************)
(* A turn of a conversation that runs before anything of it is durable     *)
(* (runtime/_pending_turn.py and the pending paths of runtime/_local.py).  *)
(* The turn works under the live authority of turn coordination and        *)
(* reaches the source in one of two transactions of the runtime commands:  *)
(* a promotion, which makes it a durable started execution, or a terminal  *)
(* commit, which publishes the finished turn at once.  Either may fail     *)
(* with an unknown outcome and land later.  Authority is the abstract one  *)
(* of SessionAuthority, which TurnCoordination implements; it may run out  *)
(* before its owner notices.  All turns are attempts on one session.       *)
(***************************************************************************)
EXTENDS Naturals, Sequences

CONSTANTS
    Turns,     \* attempts, each with an execution id of its own
    NoTurn,    \* none of them
    Attempts   \* what the turns may be: the idempotency key of the request, the
               \* runtime that makes the attempt, and whether its agent calls a
               \* replay-safe tool

ASSUME TurnsAssumption ==
    /\ NoTurn \notin Turns
    /\ \A a \in Attempts : DOMAIN a = Turns
        /\ \A t \in Turns : DOMAIN a[t] = {"request", "runtime", "tool"}

VARIABLES
    attempt,   \* turn -> what it is; never changes
    owner,     \* who has live authority over the session
    source,    \* the durable session, idempotency, execution and tool records
    stage,     \* where a turn is
    scoped,    \* it is inside its turn scope
    expected,  \* the session record it was admitted against
    listed,    \* it is in _executions of its runtime
    admitted,  \* it is in _requests and _sessions of its runtime
    failure,   \* turn.failure
    uncertain, \* turn.uncertain
    committing,\* turn.committing
    boundary,  \* the last boundary it submitted, with the tool it captured
    call,      \* "waiting" while turn.boundary is held for a store call
    outstanding, \* a submission nobody waits for any more may still land
    error,     \* what the worker is about to raise
    tool       \* the replay-safe tool operation it staged

runtimeVars == <<listed, admitted, failure, uncertain, committing>>
storeVars == <<boundary, call, outstanding>>
vars == <<attempt, owner, source, stage, scoped, expected, runtimeVars, storeVars, error, tool>>

RequestOf(t) == attempt[t].request
RuntimeOf(t) == attempt[t].runtime
Requests == {a[t].request : a \in Attempts, t \in Turns}

Stage == {"new", "requested", "claimed", "checked", "admitted", "running", "stopped",
          "promoted", "done", "replayed", "refused", "forgotten"}
Error == {"none", "lost", "rejected", "conflict", "unknown"}
Row == {"none", "started", "succeeded", "failed"}
Tool == {"none", "claimed", "completed"}
Kind == {"none", "promote", "succeeded", "failed"}

Terminal == {"succeeded", "failed"}

Init ==
    /\ attempt \in Attempts
    /\ owner = NoTurn
    /\ source = [session |-> [active |-> NoTurn, history |-> <<>>, revision |-> 0],
                 identity |-> [r \in Requests |-> NoTurn],
                 rows |-> [t \in Turns |-> "none"],
                 tools |-> [t \in Turns |-> "none"]]
    /\ stage = [t \in Turns |-> "new"]
    /\ scoped = [t \in Turns |-> FALSE]
    /\ expected = [t \in Turns |-> source.session]
    /\ listed = [t \in Turns |-> FALSE]
    /\ admitted = [t \in Turns |-> FALSE]
    /\ failure = [t \in Turns |-> "none"]
    /\ uncertain = [t \in Turns |-> FALSE]
    /\ committing = [t \in Turns |-> FALSE]
    /\ boundary = [t \in Turns |-> [kind |-> "none", tool |-> "none"]]
    /\ call = [t \in Turns |-> "idle"]
    /\ outstanding = [t \in Turns |-> FALSE]
    /\ error = [t \in Turns |-> "none"]
    /\ tool = [t \in Turns |-> "none"]

-----------------------------------------------------------------------------
(* The source. *)

\* The transactions' precondition without the comparison of the session.
FitsAnySession(t) == source.identity[RequestOf(t)] = NoTurn

\* The precondition without the lookup of the request.
FitsAnyRequest(t) == source.session = expected[t]

\* What both transactions require: nobody has this request, and the session is
\* still the record the turn was admitted against.
Fits(t) ==
    /\ source.identity[RequestOf(t)] = NoTurn
    /\ source.session = expected[t]

\* The source after a promotion or a terminal commit of t.
Published(t) ==
    LET kind == boundary[t].kind
        session == source.session
    IN [source EXCEPT
          !.identity[RequestOf(t)] = t,
          !.rows[t] = IF kind = "promote" THEN "started" ELSE kind,
          !.tools[t] = boundary[t].tool,
          !.session = [active |-> IF kind = "promote" THEN t ELSE session.active,
                       history |-> IF kind = "succeeded" THEN Append(session.history, t)
                                   ELSE session.history,
                       revision |-> session.revision + 1]]

\* Another turn has finished the request of t.
Beaten(t) ==
    LET u == source.identity[RequestOf(t)]
    IN u \notin {t, NoTurn} /\ source.rows[u] \in Terminal

-----------------------------------------------------------------------------
(* Admission. *)

\* The service reads the session before the turn is claimed.
Request(t) ==
    /\ stage[t] = "new"
    /\ stage' = [stage EXCEPT ![t] = "requested"]
    /\ expected' = [expected EXCEPT ![t] = source.session]
    /\ UNCHANGED <<owner, source, scoped, runtimeVars, storeVars, error, tool>>

\* The turn scope is entered as the owner.
Claim(t) ==
    /\ stage[t] = "requested" /\ owner = NoTurn
    /\ owner' = t
    /\ scoped' = [scoped EXCEPT ![t] = TRUE]
    /\ stage' = [stage EXCEPT ![t] = "claimed"]
    /\ UNCHANGED <<source, expected, runtimeVars, storeVars, error, tool>>

\* start_pending looks for an earlier result of the request.
CheckIdentity(t) ==
    /\ stage[t] = "claimed"
    /\ stage' = [stage EXCEPT ![t] =
                    IF source.identity[RequestOf(t)] = NoTurn THEN "checked" ELSE "replayed"]
    /\ UNCHANGED <<owner, source, scoped, expected, runtimeVars, storeVars, error, tool>>

\* It then reads the session and, with no suspension in between, admits the
\* turn to the tables of the runtime.
Admit(t) ==
    LET locals == {u \in Turns : RuntimeOf(u) = RuntimeOf(t) /\ admitted[u]}
        open == source.session.active = NoTurn
                /\ source.session.history = expected[t].history
    IN /\ stage[t] = "checked"
       /\ \/ /\ ~open
             /\ stage' = [stage EXCEPT ![t] = "refused"]
             /\ UNCHANGED <<expected, listed, admitted>>
          \/ /\ open /\ locals # {}
             /\ stage' = [stage EXCEPT ![t] =
                             IF \E u \in locals : RequestOf(u) = RequestOf(t)
                             THEN "replayed" ELSE "refused"]
             /\ UNCHANGED <<expected, listed, admitted>>
          \/ /\ open /\ locals = {}
             /\ stage' = [stage EXCEPT ![t] = "admitted"]
             /\ expected' = [expected EXCEPT ![t] = source.session]
             /\ listed' = [listed EXCEPT ![t] = TRUE]
             /\ admitted' = [admitted EXCEPT ![t] = TRUE]
       /\ UNCHANGED <<owner, source, scoped, failure, uncertain, committing, storeVars, error, tool>>

\* _PendingExecutionTurns.fail: only an unknown outcome keeps the admission.
Fail(t, code) ==
    /\ failure' = [failure EXCEPT ![t] = code]
    /\ uncertain' = [uncertain EXCEPT ![t] = code = "unknown"]
    /\ admitted' = [admitted EXCEPT ![t] = @ /\ code = "unknown"]

\* The end of start_pending: the worker is installed if authority still stands.
StartWorker(t) ==
    /\ stage[t] = "admitted"
    /\ IF owner = t
       THEN /\ stage' = [stage EXCEPT ![t] = "running"]
            /\ UNCHANGED <<admitted, failure, uncertain>>
       ELSE /\ stage' = [stage EXCEPT ![t] = "stopped"]
            /\ Fail(t, "lost")
    /\ UNCHANGED <<owner, source, scoped, expected, listed, committing, storeVars, error, tool>>

-----------------------------------------------------------------------------
(* Work. *)

Idle(t) == listed[t] /\ call[t] = "idle"

\* stage_tool_operation.
StageTool(t) ==
    /\ attempt[t].tool
    /\ stage[t] = "running" /\ Idle(t) /\ tool[t] = "none"
    /\ ~uncertain[t] /\ failure[t] = "none" /\ ~committing[t] /\ error[t] = "none"
    /\ tool' = [tool EXCEPT ![t] = "claimed"]
    /\ UNCHANGED <<owner, source, stage, scoped, expected, runtimeVars, storeVars, error>>

\* settle_tool_operation: a volatile outcome, kept even in an uncertain turn.
SettleTool(t) ==
    /\ stage[t] \in {"running", "stopped"} /\ Idle(t) /\ tool[t] = "claimed" /\ ~committing[t]
    /\ tool' = [tool EXCEPT ![t] = "completed"]
    /\ UNCHANGED <<owner, source, stage, scoped, expected, runtimeVars, storeVars, error>>

\* The same outcome once the turn is promoted: it is written to the source.
SettlePromotedTool(t) ==
    /\ stage[t] = "promoted" /\ tool[t] = "claimed"
    /\ tool' = [tool EXCEPT ![t] = "completed"]
    /\ source' = [source EXCEPT !.tools[t] = "completed"]
    /\ UNCHANGED <<owner, stage, scoped, expected, runtimeVars, storeVars, error>>

\* A boundary is submitted: the turn's lock is held until it is answered.
Submit(t, kind) ==
    /\ stage[t] = "running" /\ Idle(t) /\ ~uncertain[t] /\ ~committing[t] /\ owner = t
    /\ boundary' = [boundary EXCEPT ![t] = [kind |-> kind, tool |-> tool[t]]]
    /\ call' = [call EXCEPT ![t] = "waiting"]
    /\ UNCHANGED <<owner, source, stage, scoped, expected, listed, admitted, failure, uncertain,
                   outstanding, error, tool>>

\* promote_pending_execution up to its store call.
BeginPromotion(t) ==
    /\ failure[t] = "none" /\ error[t] = "none"
    /\ Submit(t, "promote")
    /\ UNCHANGED committing

\* _commit_pending_terminal up to its store call.  An unfinished tool operation
\* asks for a promotion first; after a refused promotion only a failure is left
\* to commit.
BeginCommit(t, kind) ==
    /\ tool[t] # "claimed"
    /\ error[t] = "none" \/ (error[t] = "rejected" /\ kind = "failed")
    /\ Submit(t, kind)
    /\ committing' = [committing EXCEPT ![t] = TRUE]

\* The turn leaves the tables of its runtime.
Release(t) ==
    /\ listed' = [listed EXCEPT ![t] = FALSE]
    /\ admitted' = [admitted EXCEPT ![t] = FALSE]
    /\ failure' = [failure EXCEPT ![t] = "none"]
    /\ uncertain' = [uncertain EXCEPT ![t] = FALSE]

Raise(t, code) == error' = [error EXCEPT ![t] = code]

\* The boundary is published and its caller told: the turn is released, as a
\* promoted or a finished one.
Accepted(t) ==
    /\ call[t] = "waiting" /\ Fits(t)
    /\ source' = Published(t)
    /\ stage' = [stage EXCEPT ![t] = IF boundary[t].kind = "promote" THEN "promoted" ELSE "done"]
    /\ call' = [call EXCEPT ![t] = "idle"]
    /\ Release(t)
    /\ Raise(t, "none")
    /\ UNCHANGED <<owner, scoped, expected, committing, boundary, outstanding, tool>>

\* The request belongs to another turn: nothing of this one was published, and
\* it owes the source nothing.
GiveWay(t) ==
    /\ committing' = [committing EXCEPT ![t] = FALSE]
    /\ boundary' = [boundary EXCEPT ![t].kind = "none"]
    /\ Fail(t, "conflict")

\* The store refuses: a terminal commit finds another turn's result, or the
\* transaction does not fit, or the store fails before it applies anything.
Refused(t) ==
    /\ call[t] = "waiting"
    /\ IF boundary[t].kind # "promote" /\ Beaten(t)
       THEN GiveWay(t) /\ Raise(t, "conflict")
       ELSE /\ Raise(t, "rejected")
            /\ UNCHANGED <<committing, boundary, admitted, failure, uncertain>>
    /\ call' = [call EXCEPT ![t] = "idle"]
    /\ UNCHANGED <<owner, source, stage, scoped, expected, listed, outstanding, tool>>

\* The outcome is unknown and the source shows nothing: the submission may
\* land later.  A promotion marks the turn at once, a commit when its worker
\* ends.
Unknown(t) ==
    /\ call[t] = "waiting"
    /\ outstanding' = [outstanding EXCEPT ![t] = TRUE]
    /\ call' = [call EXCEPT ![t] = "idle"]
    /\ uncertain' = [uncertain EXCEPT ![t] = @ \/ boundary[t].kind = "promote"]
    /\ Raise(t, "unknown")
    /\ UNCHANGED <<owner, source, stage, scoped, expected, listed, admitted, failure, committing,
                   boundary, tool>>

\* A forsaken submission lands if it still fits, or is gone.
Land(t) ==
    /\ outstanding[t]
    /\ source' = IF Fits(t) THEN Published(t) ELSE source
    /\ outstanding' = [outstanding EXCEPT ![t] = FALSE]
    /\ UNCHANGED <<owner, stage, scoped, expected, runtimeVars, boundary, call, error, tool>>

Drop(t) ==
    /\ outstanding[t]
    /\ outstanding' = [outstanding EXCEPT ![t] = FALSE]
    /\ UNCHANGED <<owner, source, stage, scoped, expected, runtimeVars, boundary, call, error, tool>>

\* The worker ends with what it raised (_task_done); one that was told to stop
\* may end cancelled instead, which records nothing.
WorkerStops(t) ==
    /\ stage[t] = "running" /\ call[t] = "idle" /\ error[t] # "none"
    /\ stage' = [stage EXCEPT ![t] = "stopped"]
    /\ \/ Fail(t, error[t])
       \/ failure[t] = "lost" /\ UNCHANGED <<admitted, failure, uncertain>>
    /\ Raise(t, "none")
    /\ UNCHANGED <<owner, source, scoped, expected, listed, committing, storeVars, tool>>

\* As ConfirmPromotion, but a tool outcome learnt in the meantime is left out.
ConfirmPromotionAsSubmitted(t) ==
    /\ boundary[t].kind = "promote" /\ source.rows[t] = "started"
    /\ stage' = [stage EXCEPT ![t] = "promoted"]
    /\ Release(t)
    /\ UNCHANGED <<source, committing, boundary>>

\* The promotion is found in the source: late tool outcomes follow it
\* (_settle_promoted_tools) before the turn is released.
ConfirmPromotion(t) ==
    /\ boundary[t].kind = "promote" /\ source.rows[t] = "started"
    /\ source' = [source EXCEPT !.tools[t] = tool[t]]
    /\ stage' = [stage EXCEPT ![t] = "promoted"]
    /\ Release(t)
    /\ UNCHANGED <<committing, boundary>>

\* The terminal commit is found, this turn's or another's.
ConfirmCommit(t) ==
    /\ boundary[t].kind \in Terminal
    /\ \/ /\ source.rows[t] \in Terminal
          /\ stage' = [stage EXCEPT ![t] = "done"]
          /\ Release(t)
          /\ UNCHANGED <<committing, boundary>>
       \/ Beaten(t) /\ GiveWay(t) /\ UNCHANGED <<stage, listed>>
    /\ UNCHANGED source

\* _reconcile_pending_boundary: what is absent stays unknown.
Reconcile(t) ==
    /\ uncertain[t] /\ Idle(t)
    /\ ConfirmPromotion(t) \/ ConfirmCommit(t)
    /\ UNCHANGED <<owner, scoped, expected, call, outstanding, error, tool>>

\* A promoted turn ends by an ordinary terminal commit.
FinishPromoted(t, kind) ==
    /\ stage[t] = "promoted" /\ source.rows[t] = "started" /\ tool[t] # "claimed"
    /\ stage' = [stage EXCEPT ![t] = "done"]
    /\ source' = [source EXCEPT
                    !.rows[t] = kind,
                    !.session = [active |-> NoTurn,
                                 history |-> IF kind = "succeeded" THEN Append(@.history, t)
                                             ELSE @.history,
                                 revision |-> @.revision + 1]]
    /\ UNCHANGED <<owner, scoped, expected, runtimeVars, storeVars, error, tool>>

-----------------------------------------------------------------------------
(* Loss of authority and the end of a turn. *)

\* The lease of the owner runs out.
Expire ==
    /\ owner # NoTurn
    /\ owner' = NoTurn
    /\ UNCHANGED <<source, stage, scoped, expected, runtimeVars, storeVars, error, tool>>

\* _watch_turn learns it: the turn fails and its worker is told to stop.
Notice(t) ==
    /\ scoped[t] /\ owner # t /\ listed[t] /\ failure[t] # "lost"
    /\ stage[t] \in {"running", "stopped"}
    /\ Fail(t, "lost")
    /\ error' = [error EXCEPT ![t] = IF stage[t] = "running" /\ @ = "none" THEN "lost" ELSE @]
    /\ UNCHANGED <<owner, source, stage, scoped, expected, listed, committing, storeVars, tool>>

\* The turn scope is left once the worker has been drained.
Exit(t) ==
    /\ scoped[t] /\ call[t] = "idle"
    /\ stage[t] \in {"stopped", "done", "replayed", "refused"}
    /\ scoped' = [scoped EXCEPT ![t] = FALSE]
    /\ owner' = IF owner = t THEN NoTurn ELSE owner
    /\ UNCHANGED <<source, stage, expected, runtimeVars, storeVars, error, tool>>

\* _cleanup_failed_pending_turn: only a stopped turn that never submitted a
\* boundary, or whose boundary is settled, is dropped.
Forget(t) ==
    /\ stage[t] = "stopped" /\ ~scoped[t] /\ Idle(t)
    /\ failure[t] # "none" /\ ~uncertain[t]
    /\ ~committing[t] /\ boundary[t].kind = "none"
    /\ owner # t
    /\ stage' = [stage EXCEPT ![t] = "forgotten"]
    /\ listed' = [listed EXCEPT ![t] = FALSE]
    /\ UNCHANGED <<owner, source, scoped, expected, admitted, failure, uncertain, committing,
                   storeVars, error, tool>>

Next ==
    /\ \/ \E t \in Turns :
             \/ Request(t) \/ Claim(t) \/ CheckIdentity(t) \/ Admit(t) \/ StartWorker(t)
             \/ StageTool(t) \/ SettleTool(t) \/ SettlePromotedTool(t)
             \/ BeginPromotion(t) \/ Accepted(t) \/ Refused(t) \/ Unknown(t)
             \/ Land(t) \/ Drop(t) \/ WorkerStops(t) \/ Reconcile(t)
             \/ Notice(t) \/ Exit(t) \/ Forget(t)
             \/ \E kind \in Terminal : BeginCommit(t, kind) \/ FinishPromoted(t, kind)
       \/ Expire
    /\ UNCHANGED attempt

Spec == Init /\ [][Next]_vars

-----------------------------------------------------------------------------
(* Properties. *)

Session == [active : Turns \cup {NoTurn}, history : Seq(Turns), revision : Nat]

\* Every variable has its type.
TypeOK ==
    /\ attempt \in Attempts
    /\ owner \in Turns \cup {NoTurn}
    /\ source \in [session : Session, identity : [Requests -> Turns \cup {NoTurn}],
                   rows : [Turns -> Row], tools : [Turns -> Tool]]
    /\ stage \in [Turns -> Stage]
    /\ scoped \in [Turns -> BOOLEAN]
    /\ expected \in [Turns -> Session]
    /\ listed \in [Turns -> BOOLEAN]
    /\ admitted \in [Turns -> BOOLEAN]
    /\ failure \in [Turns -> Error]
    /\ uncertain \in [Turns -> BOOLEAN]
    /\ committing \in [Turns -> BOOLEAN]
    /\ boundary \in [Turns -> [kind : Kind, tool : Tool]]
    /\ call \in [Turns -> {"idle", "waiting"}]
    /\ outstanding \in [Turns -> BOOLEAN]
    /\ error \in [Turns -> Error]
    /\ tool \in [Turns -> Tool]

\* However attempts overlap and whatever lands late, one request gives one
\* durable execution, the one its idempotency record names.
OneExecutionPerRequest ==
    \A t \in Turns :
        source.rows[t] # "none" <=> source.identity[RequestOf(t)] = t

\* The history of the session is linear: each published turn was computed on
\* exactly the turns before it.
LinearHistory ==
    LET h == source.session.history
    IN \A i \in DOMAIN h : expected[h[i]].history = SubSeq(h, 1, i - 1)

\* A turn that reported a definite failure, or was forgotten, is not in the
\* source and will not get there: a submission of it still under way has lost
\* its request to another turn.
FailureIsFinal ==
    \A t \in Turns :
        (stage[t] = "forgotten" \/ (stage[t] = "stopped" /\ failure[t] \in {"rejected", "conflict"}))
        => source.rows[t] = "none" /\ (outstanding[t] => Beaten(t))

\* Once a turn is promoted the source has the outcome of its tool operation,
\* also one that came in while the promotion was uncertain.
ToolOutcomeKept ==
    \A t \in Turns : stage[t] \in {"promoted", "done"} => source.tools[t] = tool[t]

\* A session is marked active exactly while a promoted turn of it is unfinished.
ActiveMeansStarted ==
    \A t \in Turns : source.session.active = t <=> source.rows[t] = "started"

\* One request gives one durable execution, a reported failure is final and a
\* session is active exactly while a promoted turn of it is unfinished.
PendingInv == TypeOK /\ OneExecutionPerRequest /\ FailureIsFinal /\ ActiveMeansStarted

\* A boundary whose outcome is unknown stays visible as such: the admission of
\* its stopped turn is kept, so that observers get an error and no new turn of
\* the session is admitted in this runtime.
UnknownRemainsError ==
    \A t \in Turns : stage[t] = "stopped" /\ outstanding[t] => admitted[t] /\ uncertain[t]

=============================================================================
