------------------------------ MODULE RunBudget ------------------------------
(***************************************************************************)
(* Shared run budgets (persistence/_budget.py, runtime/_budget.py) for one *)
(* budget scope that several runtimes draw from.  A call is one use of     *)
(* RunBudgetContext.run_model or admit_tool: it reserves in the store,     *)
(* dispatches its effect and settles what the effect cost.                 *)
(*                                                                         *)
(* A store transaction that decides on what it has read is two steps here, *)
(* the read of a snapshot and the commit, which the storage revision of    *)
(* the scope record refuses when anything has changed between.  The call   *)
(* itself is the admission id.  A commit whose answer is lost is resolved  *)
(* by the readback of durability.run_durable_commit.  Token counts are     *)
(* small numbers; payloads and record encodings are left out.              *)
(***************************************************************************)
EXTENDS Integers, FiniteSets

CONSTANTS
    Runtimes,    \* repository instances, each with its own _owner_id
    Calls,       \* calls of run_model and admit_tool
    Keys,        \* request ids and tool call ids
    Scopes,      \* budget scopes to check: their limits and the calls that draw
                 \* from them, with the kind, the runtime and the key of each
    NoLimit,     \* total_tokens = None
    Costs,       \* bound: token counts a response may report
    Unknown,     \* total_tokens = None of a settlement
    Open,        \* status in_flight of a reservation
    NoRow        \* no stored reservation

ASSUME CallsAssumption ==
    /\ IsFiniteSet(Calls)
    /\ \A s \in Scopes :
        /\ s.calls \in [Calls -> [kind : {"model", "tool"}, runtime : Runtimes, key : Keys]]
        /\ \A c, d \in Calls : s.calls[c].key = s.calls[d].key => s.calls[c].kind = s.calls[d].kind
        /\ s.model_requests \in Nat /\ s.tool_calls \in Nat
        /\ s.total_tokens \in Nat \cup {NoLimit}
        /\ s.deadline \in BOOLEAN

ASSUME ValuesAssumption ==
    /\ NoLimit \notin Nat
    /\ Costs \subseteq Nat
    /\ Unknown \notin Nat
    /\ Open \notin Nat \cup {Unknown}
    /\ NoRow \notin Calls

VARIABLES
    usage,    \* the stored BudgetUsage projection
    rev,      \* storage_revision of the scope record
    row,      \* key -> the call that holds its reservation, or NoRow
    settled,  \* call -> its settlement: tokens, Unknown, or Open
    active,   \* runtime -> _active_requests, as calls
    closing,  \* runtimes whose repository is closing
    pc,       \* call -> where it is
    seen,     \* call -> the snapshot its transaction has read
    outcome,  \* call -> what it is going to settle
    cancelled,\* calls cancelled while their admission was in progress
    expired,  \* deadline_at has passed
    dispatched,\* calls whose effect has been started
    scope     \* the scope at hand; never changes

vars == <<usage, rev, row, settled, active, closing, pc, seen, outcome,
          cancelled, expired, dispatched, scope>>
store == <<usage, rev, row, settled>>

RuntimeOf(c) == scope.calls[c].runtime
KeyOf(c) == scope.calls[c].key
ModelCalls == {c \in Calls : scope.calls[c].kind = "model"}
ToolCalls == Calls \ ModelCalls
Drawing == {RuntimeOf(c) : c \in Calls}

ModelLimit == scope.model_requests
ToolLimit == scope.tool_calls
TokenLimit == scope.total_tokens

Snapshot == [usage |-> usage, rev |-> rev, row |-> row, settled |-> settled]

InFlight(rows, settlements) ==
    {c \in ModelCalls : rows[KeyOf(c)] = c /\ settlements[c] = Open}

(***************************************************************************)
(* _check_admission, on the snapshot of call c.                            *)
(***************************************************************************)
CountReached(c) ==
    IF c \in ModelCalls THEN seen[c].usage.model >= ModelLimit
                        ELSE seen[c].usage.tools >= ToolLimit

Duplicate(c) == seen[c].row[KeyOf(c)] # NoRow

Foreign(c) == {d \in InFlight(seen[c].row, seen[c].settled) :
                  RuntimeOf(d) # RuntimeOf(c)}

Orphaned(c) == {d \in InFlight(seen[c].row, seen[c].settled) :
                  RuntimeOf(d) = RuntimeOf(c) /\ d \notin active[RuntimeOf(c)]}

RefusedByCount(c) == Duplicate(c) \/ expired \/ CountReached(c)

RefusedByTokens(c) ==
    /\ TokenLimit # NoLimit
    /\ \/ seen[c].usage.unknown > 0
       \/ Foreign(c) # {}
       \/ seen[c].usage.tokens >= TokenLimit

\* The check raises _UnresolvedLocalReservation.
Unresolved(c) ==
    /\ TokenLimit # NoLimit
    /\ ~RefusedByCount(c)
    /\ seen[c].usage.unknown = 0
    /\ Orphaned(c) # {}

Admissible(c) ==
    /\ ~RefusedByCount(c)
    /\ ~RefusedByTokens(c)
    /\ ~Unresolved(c)

-----------------------------------------------------------------------------
NoUsage == [model |-> 0, tools |-> 0, tokens |-> 0, inflight |-> 0, unknown |-> 0]

\* ensure has inserted the scope record.
Init ==
    /\ usage = NoUsage
    /\ rev = 0
    /\ row = [k \in Keys |-> NoRow]
    /\ settled = [c \in Calls |-> Open]
    /\ active = [r \in Runtimes |-> {}]
    /\ closing = {}
    /\ pc = [c \in Calls |-> "idle"]
    /\ seen = [c \in Calls |-> [usage |-> NoUsage, rev |-> 0,
                                row |-> [k \in Keys |-> NoRow],
                                settled |-> [d \in Calls |-> Open]]]
    /\ outcome = [c \in Calls |-> Unknown]
    /\ cancelled = {}
    /\ expired = FALSE
    /\ dispatched = {}
    /\ scope \in Scopes

Goto(c, label) == pc' = [pc EXCEPT ![c] = label]

\* Every admission of the request leaves the live set.
DiscardRequest(c) == active' = [active EXCEPT ![RuntimeOf(c)] =
                                    {d \in @ : KeyOf(d) # KeyOf(c)}]

\* The except branch of admit_model: this admission leaves the live set.
Discard(c) == active' = [active EXCEPT ![RuntimeOf(c)] = @ \ {c}]

\* A call enters admit_model or admit_tool and _commit finds the repository open.
BeginAdmission(c) ==
    /\ pc[c] = "idle"
    /\ RuntimeOf(c) \notin closing
    /\ Goto(c, "read")
    /\ active' = IF c \in ModelCalls
                 THEN [active EXCEPT ![RuntimeOf(c)] = @ \cup {c}] ELSE active
    /\ UNCHANGED <<store, closing, seen, outcome, cancelled, expired, dispatched>>

\* A call of a closed repository is refused by _require_open.
RefuseClosed(c) ==
    /\ pc[c] = "idle"
    /\ RuntimeOf(c) \in closing
    /\ Goto(c, "refused")
    /\ UNCHANGED <<store, active, closing, seen, outcome, cancelled, expired, dispatched>>

\* The transaction of an admission reads the scope and the reservations.
ReadScope(c) ==
    /\ pc[c] = "read"
    /\ seen' = [seen EXCEPT ![c] = Snapshot]
    /\ Goto(c, "check")
    /\ UNCHANGED <<store, active, closing, outcome, cancelled, expired, dispatched>>

\* The check refuses; the readback finds no reservation of this admission.
Refuse(c) ==
    /\ pc[c] = "check"
    /\ RefusedByCount(c) \/ RefusedByTokens(c)
    /\ Goto(c, "refused")
    /\ Discard(c)
    /\ UNCHANGED <<store, closing, seen, outcome, cancelled, expired, dispatched>>

\* retry_admission: an unresolved reservation refuses the call only if the
\* scope has not changed since the transaction read it.
RefuseUnresolved(c) ==
    /\ pc[c] = "check"
    /\ Unresolved(c)
    /\ rev = seen[c].rev
    /\ Goto(c, "unresolved")
    /\ Discard(c)
    /\ UNCHANGED <<store, closing, seen, outcome, cancelled, expired, dispatched>>

\* retry_admission starts over after a conflict, for a limited number of times.
RetryAdmission(c) ==
    /\ pc[c] = "check"
    /\ Admissible(c) \/ Unresolved(c)
    /\ rev # seen[c].rev
    /\ \/ Goto(c, "read") /\ UNCHANGED active
       \/ Goto(c, "refused") /\ Discard(c)
    /\ UNCHANGED <<store, closing, seen, outcome, cancelled, expired, dispatched>>

\* As Fresh, but the revision is not compared.
FreshUnchecked(c) == TRUE

\* The revision check of replace_checked.
Fresh(c) == rev = seen[c].rev

\* The transaction of admit_model or admit_tool commits; its answer may be lost.
CommitAdmission(c) ==
    /\ pc[c] = "check"
    /\ Admissible(c)
    /\ Fresh(c)
    /\ row' = [row EXCEPT ![KeyOf(c)] = c]
    /\ usage' = IF c \in ModelCalls
                THEN [seen[c].usage EXCEPT !.model = @ + 1, !.inflight = @ + 1]
                ELSE [seen[c].usage EXCEPT !.tools = @ + 1]
    /\ rev' = rev + 1
    /\ \E label \in {"admitted", "unsure"} : Goto(c, label)
    /\ UNCHANGED <<settled, active, closing, seen, outcome, cancelled, expired, dispatched>>

\* The transaction fails before it commits, and nobody can tell.
FailAdmission(c) ==
    /\ pc[c] = "check"
    /\ Admissible(c)
    /\ Goto(c, "unsure")
    /\ UNCHANGED <<store, active, closing, seen, outcome, cancelled, expired, dispatched>>

\* As Readback, but the admission id is not compared.
ReadbackAnyAdmission(c) ==
    /\ pc[c] = "unsure"
    /\ \/ row[KeyOf(c)] # NoRow /\ Goto(c, "admitted") /\ UNCHANGED active
       \/ Goto(c, "failed") /\ Discard(c)
    /\ UNCHANGED <<store, closing, seen, outcome, cancelled, expired, dispatched>>

\* The readback finds the reservation by its admission id, or it finds none or
\* cannot read.
Readback(c) ==
    /\ pc[c] = "unsure"
    /\ \/ row[KeyOf(c)] = c /\ Goto(c, "admitted") /\ UNCHANGED active
       \/ Goto(c, "failed") /\ Discard(c)
    /\ UNCHANGED <<store, closing, seen, outcome, cancelled, expired, dispatched>>

\* The caller of an admission is cancelled; run_durable_commit resolves the
\* commit before it lets the cancellation through.
CancelAdmission(c) ==
    /\ pc[c] \in {"read", "check", "unsure", "admitted"}
    /\ c \notin cancelled
    /\ cancelled' = cancelled \cup {c}
    /\ UNCHANGED <<store, active, closing, pc, seen, outcome, expired, dispatched>>

\* The admission returns and the model handler or the tool is called.
Dispatch(c) ==
    /\ pc[c] = "admitted"
    /\ c \notin cancelled
    /\ dispatched' = dispatched \cup {c}
    /\ Goto(c, IF c \in ModelCalls THEN "handler" ELSE "done")
    /\ UNCHANGED <<store, active, closing, seen, outcome, cancelled, expired>>

\* on_cancel: the committed admission of a cancelled caller is settled as
\* unknown inside the same pending commit.  A tool call has nothing to settle.
AbandonAdmission(c) ==
    /\ pc[c] = "admitted"
    /\ c \in cancelled
    /\ outcome' = [outcome EXCEPT ![c] = Unknown]
    /\ Goto(c, IF c \in ModelCalls THEN "settling" ELSE "done")
    /\ UNCHANGED <<store, active, closing, seen, cancelled, expired, dispatched>>

\* The handler returns with a token count, or raises.
EndHandler(c) ==
    /\ pc[c] = "handler"
    /\ \E value \in Costs \cup {Unknown} : outcome' = [outcome EXCEPT ![c] = value]
    /\ Goto(c, "settle")
    /\ UNCHANGED <<store, active, closing, seen, cancelled, expired, dispatched>>

\* settle_model enters _commit; a closed repository refuses it.
BeginSettlement(c) ==
    /\ pc[c] = "settle"
    /\ Goto(c, IF RuntimeOf(c) \in closing THEN "settled" ELSE "settling")
    /\ UNCHANGED <<store, active, closing, seen, outcome, cancelled, expired, dispatched>>

\* The settlement replaces the reservation and the projection in one transaction.
CommitSettlement(c) ==
    /\ pc[c] = "settling"
    /\ settled' = [settled EXCEPT ![c] = outcome[c]]
    /\ usage' = [usage EXCEPT !.inflight = @ - 1,
                              !.tokens = @ + (IF outcome[c] = Unknown THEN 0 ELSE outcome[c]),
                              !.unknown = @ + (IF outcome[c] = Unknown THEN 1 ELSE 0)]
    /\ rev' = rev + 1
    /\ Goto(c, "settled")
    /\ UNCHANGED <<row, active, closing, seen, outcome, cancelled, expired, dispatched>>

\* The settlement does not commit (storage failure after its retries).
FailSettlement(c) ==
    /\ pc[c] = "settling"
    /\ Goto(c, "settled")
    /\ UNCHANGED <<store, active, closing, seen, outcome, cancelled, expired, dispatched>>

\* The finally branch of settle_model: every admission of the request leaves.
RetireRequest(c) ==
    /\ pc[c] = "settled"
    /\ DiscardRequest(c)
    /\ Goto(c, "done")
    /\ UNCHANGED <<store, closing, seen, outcome, cancelled, expired, dispatched>>

\* As PendingCommits, but a call stays pending while its handler runs.
PendingWithHandlers(r) ==
    {c \in Calls : RuntimeOf(c) = r
                   /\ pc[c] \in {"read", "check", "unsure", "admitted", "handler", "settling"}}

\* _pending_commits: calls inside _commit.
PendingCommits(r) ==
    {c \in Calls : RuntimeOf(c) = r
                   /\ pc[c] \in {"read", "check", "unsure", "admitted", "settling"}}

\* close() has set _closing.
BeginClose(r) ==
    /\ r \notin closing
    /\ closing' = closing \cup {r}
    /\ UNCHANGED <<store, active, pc, seen, outcome, cancelled, expired, dispatched>>

\* close() has drained the pending commits.
EndClose(r) ==
    /\ r \in closing
    /\ PendingCommits(r) = {}
    /\ active[r] # {}
    /\ active' = [active EXCEPT ![r] = {}]
    /\ UNCHANGED <<store, closing, pc, seen, outcome, cancelled, expired, dispatched>>

\* The process of a runtime dies with everything it has in memory.
Crash(r) ==
    /\ r \notin closing
    /\ closing' = closing \cup {r}
    /\ active' = [active EXCEPT ![r] = {}]
    /\ pc' = [c \in Calls |-> IF RuntimeOf(c) = r /\ pc[c] # "done" THEN "dead" ELSE pc[c]]
    /\ UNCHANGED <<store, seen, outcome, cancelled, expired, dispatched>>

DeadlinePasses ==
    /\ scope.deadline
    /\ ~expired
    /\ expired' = TRUE
    /\ UNCHANGED <<store, active, closing, pc, seen, outcome, cancelled, dispatched>>

AdmissionStep(c) ==
    \/ BeginAdmission(c) \/ RefuseClosed(c) \/ ReadScope(c) \/ Refuse(c)
    \/ RefuseUnresolved(c) \/ RetryAdmission(c) \/ CommitAdmission(c) \/ FailAdmission(c)
    \/ Readback(c)

SettlementStep(c) ==
    \/ Dispatch(c) \/ AbandonAdmission(c) \/ EndHandler(c) \/ BeginSettlement(c)
    \/ CommitSettlement(c) \/ FailSettlement(c) \/ RetireRequest(c)

Next ==
    /\ \/ \E c \in Calls : AdmissionStep(c) \/ SettlementStep(c) \/ CancelAdmission(c)
       \/ \E r \in Drawing : BeginClose(r) \/ EndClose(r) \/ Crash(r)
       \/ DeadlinePasses
    /\ UNCHANGED scope

Spec == Init /\ [][Next]_vars

\* The event loop takes the steps a call can take by itself; they are the steps
\* of different stages of the call.  A handler may run for ever.
LoopStep(c) ==
    /\ \/ AdmissionStep(c) \/ AbandonAdmission(c) \/ Dispatch(c)
       \/ CommitSettlement(c) \/ FailSettlement(c)
    /\ UNCHANGED scope

FairSpec ==
    /\ Spec
    /\ \A c \in Calls : WF_vars(LoopStep(c))
    /\ \A r \in Runtimes : WF_vars(EndClose(r) /\ UNCHANGED scope)

-----------------------------------------------------------------------------
Labels == {"idle", "read", "check", "unsure", "admitted", "handler", "settle",
           "settling", "settled", "done", "refused", "unresolved", "failed", "dead"}

Usage == [model : Nat, tools : Nat, tokens : Nat, inflight : Nat, unknown : Nat]

Settlements == Nat \cup {Unknown, Open}

\* Every stored and in-memory value has the shape the repository gives it; in
\* particular no counter of the projection goes below zero.
TypeOK ==
    /\ usage \in Usage
    /\ rev \in Nat
    /\ row \in [Keys -> Calls \cup {NoRow}]
    /\ settled \in [Calls -> Settlements]
    /\ active \in [Runtimes -> SUBSET ModelCalls]
    /\ closing \subseteq Runtimes
    /\ pc \in [Calls -> Labels]
    /\ seen \in [Calls -> [usage : Usage, rev : Nat, row : [Keys -> Calls \cup {NoRow}],
                           settled : [Calls -> Settlements]]]
    /\ outcome \in [Calls -> Nat \cup {Unknown}]
    /\ cancelled \subseteq Calls
    /\ expired \in BOOLEAN
    /\ dispatched \subseteq Calls
    /\ scope \in Scopes

\* The calls that hold a stored reservation.
Reserved == {c \in Calls : row[KeyOf(c)] = c}

\* The projection the limits are checked against counts exactly the stored
\* reservations, whatever commits, answers and processes are lost on the way.
UsageExact ==
    /\ usage.model = Cardinality(Reserved \cap ModelCalls)
    /\ usage.tools = Cardinality(Reserved \cap ToolCalls)
    /\ usage.inflight = Cardinality(InFlight(row, settled))
    /\ usage.unknown = Cardinality({c \in Reserved \cap ModelCalls : settled[c] = Unknown})

\* Concurrent admissions never reserve more calls than the limits allow: no
\* effect is refunded, not even of a cancelled or uncertain call.
WithinLimits ==
    /\ Cardinality(Reserved \cap ModelCalls) <= ModelLimit
    /\ Cardinality(Reserved \cap ToolCalls) <= ToolLimit

\* Only the call that holds the reservation of its key is dispatched, so a
\* request id or tool call id is dispatched at most once.
DispatchedOnce == dispatched \subseteq Reserved

\* With a token limit, only one runtime at a time has requests in flight: what
\* another process may still spend is not known.
OneRuntimeInFlight ==
    TokenLimit # NoLimit =>
        \A c, d \in InFlight(row, settled) : RuntimeOf(c) = RuntimeOf(d)

\* A call is refused for an unresolved reservation of its own runtime only when
\* such a reservation will really never be settled by the call that holds it.
GenuinelyUnresolved ==
    \A c \in Calls : pc[c] = "unresolved" =>
        \E d \in InFlight(row, settled) :
            RuntimeOf(d) = RuntimeOf(c) /\ pc[d] \in {"failed", "done", "unresolved"}

\* What a refused, cancelled, uncertain or lost call leaves in the store never
\* makes the limits lie.
BudgetInv ==
    TypeOK /\ UsageExact /\ WithinLimits /\ OneRuntimeInFlight /\ GenuinelyUnresolved

\* close() returns: the live set is emptied although handlers may still run.
CloseDrains == \A r \in Runtimes : r \in closing ~> active[r] = {}

=============================================================================
