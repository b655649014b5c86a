-------------------------- MODULE TaskRepository --------------------------
(***************************************************************************)
(* The durable task-graph repository of linktools.ai                       *)
(* (persistence/_task_repository.py, persistence/_task_state.py) for one   *)
(* graph.  Every operation is one serialised state-store transaction, so   *)
(* every operation is one action; a call that the code answers with an     *)
(* error, or by replaying a settled answer, changes nothing and is a       *)
(* stuttering step.  The caller is the most general one: any owner may     *)
(* present any fence it likes for any node at any time.                    *)
(*                                                                         *)
(* Abstractions.  A lease deadline is the number of ticks the lease has    *)
(* left (0 = expired) and next_attempt_at is the number of ticks to wait   *)
(* (0 = due), so no absolute clock is needed.  A node starts its execution *)
(* with an idempotency key derived from the node, so every attempt yields  *)
(* the same execution id: a node is either bound to it or not.  Error      *)
(* codes, origins and details are merged into the classes the guards tell  *)
(* apart.                                                                  *)
(***************************************************************************)
EXTENDS Integers, FiniteSets

CONSTANTS
    Nodes,            \* every node id, the ones an expansion may add included
    Initial,          \* the nodes of the admitted graph
    Deps,             \* node -> the nodes it depends on
    DependencyPolicy, \* node -> "all_succeeded" | "all_terminal" | "any_succeeded"
    FailurePolicy,    \* node -> "propagate" | "isolate"
    Expansion,        \* node -> the nodes its expander adds when it completes
    Owners,           \* lease owners (launcher processes)
    NoOwner,          \* owner = None
    Graph,            \* the scope of a whole-graph cancel operation
    MaxConcurrency,   \* limits.max_concurrency
    LeaseSeconds,     \* ticks a fresh or renewed lease lasts
    MaxDelay,         \* bound: longest retry delay, in ticks
    MaxFence          \* bound: claims per node

DependencyPolicies == {"all_succeeded", "all_terminal", "any_succeeded"}

ASSUME DefinitionsAssumption ==
    /\ Initial \subseteq Nodes
    /\ Deps \in [Nodes -> SUBSET Nodes]
    /\ DependencyPolicy \in [Nodes -> DependencyPolicies]
    /\ FailurePolicy \in [Nodes -> {"propagate", "isolate"}]
    /\ Expansion \in [Nodes -> SUBSET (Nodes \ Initial)]
    /\ \A n \in Initial : Deps[n] \subseteq Initial

ASSUME OwnersAssumption == NoOwner \notin Owners /\ Graph \notin Nodes

ASSUME LimitsAssumption ==
    /\ MaxConcurrency \in Nat \ {0}
    /\ LeaseSeconds \in Nat \ {0}
    /\ MaxDelay \in Nat
    /\ MaxFence \in Nat \ {0}

ASSUME NodesFinite == IsFiniteSet(Nodes)

VARIABLES
    nodes,    \* node -> its stored TaskNodeView
    header,   \* status of the stored graph record
    results,  \* nodes with a stored TaskResultRecord
    prepared, \* nodes with a stored TaskPreparedInputRecord
    cancels   \* scopes (Graph or a node) of the unsettled TASK_CANCEL operations

vars == <<nodes, header, results, prepared, cancels>>

(***************************************************************************)
(* Statuses and node views                                                 *)
(***************************************************************************)
Terminal == {"SUCCEEDED", "FAILED", "BLOCKED", "CANCELLED"}
Live == {"PENDING", "READY", "RUNNING", "WAITING", "RECOVERY_REQUIRED"}
Status == Terminal \cup Live

\* A node of a later expansion has no record yet.
Absent == "ABSENT"

\* The graph record never stores READY or WAITING (_require_canonical_graph_status).
GraphStatus == Status \ {"READY", "WAITING"}

NoLease == -1

\* dependency: TASK_DEPENDENCY_FAILED; failed: a node or execution failure;
\* projection: TASK_INPUT_PROJECTION_FAILED of origin "node"; unbound:
\* EXECUTION_START_UNKNOWN with reason claimed_execution_unbound; unknown: the
\* other codes of _RECOVERY_REQUIRED_CODES.
ErrorClass == {"none", "dependency", "failed", "projection", "unbound", "unknown"}

NodeView ==
    [status   : Status \cup {Absent},
     owner    : Owners \cup {NoOwner},
     fence    : 0..MaxFence,
     ttl      : NoLease..LeaseSeconds,
     bound    : BOOLEAN,
     delay    : 0..MaxDelay,
     occupies : BOOLEAN,
     error    : ErrorClass]

Present == {n \in Nodes : nodes[n].status # Absent}
StatusOf(ns) == [n \in Nodes |-> ns[n].status]

TypeOK ==
    /\ nodes \in [Nodes -> NodeView]
    /\ header \in GraphStatus
    /\ results \subseteq Nodes
    /\ prepared \subseteq Nodes
    /\ cancels \subseteq Nodes \cup {Graph}

(***************************************************************************)
(* Pure status rules                                                       *)
(***************************************************************************)

\* TaskNode.dependency_status
DependencyStatus(n, st) ==
    LET settled == \A d \in Deps[n] : st[d] \in Terminal
        allOk   == \A d \in Deps[n] : st[d] = "SUCCEEDED"
        someOk  == \E d \in Deps[n] : st[d] = "SUCCEEDED"
        someBad == \E d \in Deps[n] : st[d] \in Terminal \ {"SUCCEEDED"}
    IN CASE DependencyPolicy[n] = "all_succeeded" ->
              IF someBad THEN "BLOCKED" ELSE IF allOk THEN "READY" ELSE "PENDING"
         [] DependencyPolicy[n] = "all_terminal" ->
              IF settled THEN "READY" ELSE "PENDING"
         [] OTHER ->
              IF ~settled THEN "PENDING" ELSE IF someOk THEN "READY" ELSE "BLOCKED"

\* Mutant: a graph of waiting nodes is stored as WAITING.
AggregateStoringWaiting(st) ==
    IF \E n \in Nodes : st[n] = "WAITING" THEN "WAITING" ELSE "PENDING"

\* Mutant: one failed node fails the graph although others still run.
AggregateFailingFast(st) ==
    IF      \E n \in Nodes : st[n] = "RECOVERY_REQUIRED" THEN "RECOVERY_REQUIRED"
    ELSE IF \E n \in Nodes : st[n] = "FAILED"            THEN "FAILED"
    ELSE IF \E n \in Nodes : st[n] \in Live              THEN "RUNNING"
    ELSE IF \E n \in Nodes : st[n] = "CANCELLED"         THEN "CANCELLED"
    ELSE "SUCCEEDED"

\* _aggregate_graph_status, over the stored nodes.
AggregateGraphStatus(st) ==
    LET has(s) == \E n \in Nodes : st[n] = s
        propagated(s) == \E n \in Nodes : st[n] = s /\ FailurePolicy[n] = "propagate"
    IN IF      has("RECOVERY_REQUIRED")         THEN "RECOVERY_REQUIRED"
       ELSE IF has("RUNNING") \/ has("WAITING") THEN "RUNNING"
       ELSE IF has("PENDING") \/ has("READY")   THEN "PENDING"
       ELSE IF propagated("FAILED")             THEN "FAILED"
       ELSE IF propagated("BLOCKED")            THEN "BLOCKED"
       ELSE IF has("CANCELLED")                 THEN "CANCELLED"
       ELSE "SUCCEEDED"

\* The nodes of a graph whose every node is settled and some node cancelled.
CancelledThroughout(st) ==
    /\ \A n \in Nodes : st[n] \in Terminal \cup {Absent}
    /\ \E n \in Nodes : st[n] = "CANCELLED"

\* Mutant: the deadline of the lease is not looked at.
LiveLeaseWithoutDeadline(v, o, f) == v.status = "RUNNING" /\ v.owner = o /\ v.fence = f

\* _require_live_task_lease
LiveLease(v, o, f) ==
    /\ v.status = "RUNNING"
    /\ v.owner = o
    /\ v.fence = f
    /\ v.ttl > 0

\* Mutant: the deadline is not cleared.
ReleasedKeepingLease(v, s, e) ==
    [v EXCEPT !.status = s, !.owner = NoOwner, !.delay = 0, !.occupies = FALSE, !.error = e]

\* The replace(...) shared by every operation that takes a node off its worker.
Released(v, s, e) ==
    [v EXCEPT !.status = s, !.owner = NoOwner, !.ttl = NoLease,
              !.delay = 0, !.occupies = FALSE, !.error = e]

(***************************************************************************)
(* _reconciled_task_nodes.  The code visits the nodes in topological order *)
(* and blocks, readies or unreadies each one by what its dependencies have *)
(* become.  Only the nodes newly blocked in the same pass can change what  *)
(* a later node sees, so the pass is given by that set: the one set that   *)
(* is exactly the set of nodes it blocks.  A cyclic graph has no such      *)
(* order and the code raises an integrity error.                           *)
(***************************************************************************)

\* Mutant: a freed claim starts counting fences again.
RequeuedResettingFence(v, expire) ==
    IF expire /\ v.status = "RUNNING" /\ v.ttl = 0
      THEN [v EXCEPT !.status = "READY", !.owner = NoOwner, !.ttl = NoLease, !.fence = 0]
      ELSE v

\* Mutant: lapsed claims are never freed.
RequeuedNever(v, expire) == v

\* With `expire` (the pass has the transaction's now) a lapsed claim is freed.
Requeued(v, expire) ==
    IF expire /\ v.status = "RUNNING" /\ v.ttl = 0
      THEN [v EXCEPT !.status = "READY", !.owner = NoOwner, !.ttl = NoLease,
                     !.delay = 0, !.occupies = FALSE]
      ELSE v

Reconcilable(v) ==
    /\ v.status \in {"PENDING", "READY", "RUNNING", "WAITING"}
    /\ ~v.bound

\* Mutant: the pass sees the dependencies as they were before it.
StatusBefore(ns, B) == StatusOf(ns)

StatusWith(ns, B) == [n \in Nodes |-> IF n \in B THEN "BLOCKED" ELSE ns[n].status]

\* Mutant: a node whose dependencies are not all ready is blocked.
ReconciledBlockingPending(n, v, st) ==
    IF Reconcilable(v) /\ DependencyStatus(n, st) # "READY"
      THEN [v EXCEPT !.status = "BLOCKED", !.error = "dependency"] ELSE v

ReconciledNode(n, v, st) ==
    LET ds == DependencyStatus(n, st)
    IN IF ~Reconcilable(v) THEN v
       ELSE IF ds = "BLOCKED" THEN [v EXCEPT !.status = "BLOCKED", !.error = "dependency"]
       ELSE IF ds = "READY" /\ v.status = "PENDING" THEN [v EXCEPT !.status = "READY"]
       ELSE IF ds = "PENDING" /\ v.status = "READY" THEN [v EXCEPT !.status = "PENDING"]
       ELSE v

BlocksExactly(ns, B) ==
    \A n \in Nodes : n \in B <=>
        Reconcilable(ns[n]) /\ DependencyStatus(n, StatusWith(ns, B)) = "BLOCKED"

\* nodes' is the reconciliation of ns.
ReconcileTo(ns, expire) ==
    LET freed == [n \in Nodes |-> Requeued(ns[n], expire)]
    IN \E B \in SUBSET Nodes :
         /\ BlocksExactly(freed, B)
         /\ nodes' = [n \in Nodes |-> ReconciledNode(n, freed[n], StatusWith(freed, B))]

\* One visit of the pass as the code runs it: the node's own claim is freed if it
\* lapsed, and its dependencies are looked at as the pass has left them so far.
Visit(ns, n, expire) ==
    [ns EXCEPT ![n] = ReconciledNode(n, Requeued(ns[n], expire), StatusOf(ns))]

\* The pass over the stored nodes, one after the other in the given order.
ReconciliationPass(ns, order, expire) ==
    LET last == Cardinality(DOMAIN order)
        after[i \in 0..last] ==
          IF i = 0 THEN ns ELSE Visit(after[i - 1], order[i], expire)
    IN after[last]

\* The orders a topological sort may visit the stored nodes in: each of them once
\* and after its dependencies, which are stored too.  The heap picks one of them
\* by the names of the nodes; if there is none the code raises an integrity error.
OrdersOf(stored) ==
    LET last == Cardinality(stored)
    IN {order \in [1..last -> stored] :
          /\ \A n \in stored : \E i \in 1..last : order[i] = n
          /\ \A i, j \in 1..last : order[i] = order[j] => i = j
          /\ \A i \in 1..last : \A d \in Deps[order[i]] : \E j \in 1..(i - 1) : order[j] = d}

TopologicalOrders == UNION {OrdersOf(stored) : stored \in SUBSET Nodes}

\* Mutant: the header is aggregated from the nodes before the transition.
StaleHeader == header' = AggregateGraphStatus(StatusOf(nodes))

\* _apply_graph_transition with _isolated_graph_status of the next nodes.
IsolatedHeader == header' = AggregateGraphStatus(StatusOf(nodes'))

\* _update_node_in_transaction
UpdateNode(n, v) == nodes' = [nodes EXCEPT ![n] = v]

(***************************************************************************)
(* Admission                                                               *)
(***************************************************************************)
FreshView(n, st) ==
    [status |-> st, owner |-> NoOwner, fence |-> 0, ttl |-> NoLease, bound |-> FALSE,
     delay |-> 0, occupies |-> FALSE, error |-> IF st = "BLOCKED" THEN "dependency" ELSE "none"]

\* A node without dependencies starts as its policy says (an empty
\* any_succeeded join is born BLOCKED); the others start PENDING.
InitialStatus(n) ==
    IF Deps[n] # {} THEN "PENDING"
    ELSE IF DependencyPolicy[n] = "any_succeeded" THEN "BLOCKED" ELSE "READY"

Init ==
    /\ nodes = [n \in Nodes |->
                  FreshView(n, IF n \in Initial THEN InitialStatus(n) ELSE Absent)]
    /\ header = AggregateGraphStatus(StatusOf(nodes))
    /\ results = {}
    /\ prepared = {}
    /\ cancels = {}

(***************************************************************************)
(* Worker operations                                                       *)
(***************************************************************************)
ActiveNodes(ns) ==
    {n \in Nodes : \/ ns[n].status = "WAITING" /\ ns[n].occupies
                   \/ ns[n].status = "RUNNING" /\ ns[n].ttl > 0}

CancelPending(n) == Graph \in cancels \/ (n \in cancels /\ nodes[n].bound)

Claimable(v) ==
    \/ v.status \in {"PENDING", "READY"}
    \/ v.status = "RUNNING" /\ v.ttl = 0

Claim(o, n) ==
    LET v == nodes[n] IN
    /\ header \notin Terminal \cup {"RECOVERY_REQUIRED"}
    /\ ~CancelPending(n)
    /\ Cardinality(ActiveNodes(nodes)) < MaxConcurrency
    /\ Claimable(v)
    /\ v.status = "READY" => v.delay = 0
    /\ DependencyStatus(n, StatusOf(nodes)) = "READY"
    /\ v.fence < MaxFence
    /\ UpdateNode(n, [v EXCEPT !.status = "RUNNING", !.owner = o, !.fence = v.fence + 1,
                               !.ttl = LeaseSeconds, !.delay = 0, !.occupies = FALSE])
    /\ UNCHANGED <<header, results, prepared, cancels>>

Renew(o, n, f) ==
    /\ LiveLease(nodes[n], o, f)
    /\ UpdateNode(n, [nodes[n] EXCEPT !.ttl = LeaseSeconds])
    /\ UNCHANGED <<header, results, prepared, cancels>>

PublishPreparedInput(o, n, f) ==
    /\ LiveLease(nodes[n], o, f)
    /\ prepared' = prepared \cup {n}
    /\ UNCHANGED <<nodes, header, results, cancels>>

BindExecution(o, n, f) ==
    /\ LiveLease(nodes[n], o, f)
    /\ ~nodes[n].bound
    /\ UpdateNode(n, [nodes[n] EXCEPT !.bound = TRUE])
    /\ UNCHANGED <<header, results, prepared, cancels>>

HandoffExecution(o, n, f, occupies) ==
    /\ LiveLease(nodes[n], o, f)
    /\ UpdateNode(n, [Released(nodes[n], "WAITING", "none") EXCEPT
                        !.bound = TRUE, !.occupies = occupies])
    /\ UNCHANGED <<header, results, prepared, cancels>>

RequeueRetry(o, n, f, d) ==
    /\ LiveLease(nodes[n], o, f)
    /\ nodes[n].bound
    /\ UpdateNode(n, [Released(nodes[n], "READY", "none") EXCEPT !.delay = d])
    /\ IsolatedHeader
    /\ UNCHANGED <<results, prepared, cancels>>

RequeueWaitingRetry(n, f, d) ==
    LET v == nodes[n] IN
    /\ v.status = "WAITING"
    /\ v.fence = f
    /\ v.bound
    /\ UpdateNode(n, [Released(v, "READY", "none") EXCEPT !.delay = d])
    /\ IsolatedHeader
    /\ UNCHANGED <<results, prepared, cancels>>

\* mark_recovery_required with a lease; withExecution: the caller names the execution.
MarkRecoveryRequired(o, n, f, e, withExecution) ==
    /\ LiveLease(nodes[n], o, f)
    /\ UpdateNode(n, [Released(nodes[n], "RECOVERY_REQUIRED", e) EXCEPT
                        !.bound = nodes[n].bound \/ withExecution])
    /\ IsolatedHeader
    /\ UNCHANGED <<results, prepared, cancels>>

\* Mutant: a late marker does not look at the status of the node.
MarkBoundUnchecked(n, f) ==
    /\ nodes[n].bound
    /\ nodes[n].fence = f
    /\ UpdateNode(n, Released(nodes[n], "RECOVERY_REQUIRED", "unknown"))
    /\ IsolatedHeader
    /\ UNCHANGED <<results, prepared, cancels>>

\* mark_recovery_required without a lease, by the fence the caller saw.
MarkBoundRecoveryRequired(n, f) ==
    LET v == nodes[n] IN
    /\ v.status \in {"WAITING", "READY", "RUNNING"}
    /\ v.bound
    /\ v.fence = f
    /\ UpdateNode(n, Released(v, "RECOVERY_REQUIRED", "unknown"))
    /\ IsolatedHeader
    /\ UNCHANGED <<results, prepared, cancels>>

(***************************************************************************)
(* Settlement                                                              *)
(***************************************************************************)

\* Mutant: the node and its result are stored, the nodes it adds are not.
CompleteWithoutExpansion(n) ==
    /\ n \notin results
    /\ UpdateNode(n, [Released(nodes[n], "SUCCEEDED", "none") EXCEPT !.bound = TRUE])
    /\ results' = results \cup {n}
    /\ IsolatedHeader
    /\ UNCHANGED <<prepared, cancels>>

\* The part of complete() after the caller's authority has been checked: the
\* result, the node, the nodes its expander adds and the header, together.
Complete(n) ==
    /\ n \notin results
    /\ \A m \in Expansion[n] :
         /\ nodes[m].status = Absent
         /\ Deps[m] \subseteq Present \cup Expansion[n]
    /\ nodes' = [m \in Nodes |->
                   IF m = n
                     THEN [Released(nodes[n], "SUCCEEDED", "none") EXCEPT !.bound = TRUE]
                   ELSE IF m \in Expansion[n] THEN FreshView(m, InitialStatus(m))
                   ELSE nodes[m]]
    /\ results' = results \cup {n}
    /\ IsolatedHeader
    /\ UNCHANGED <<prepared, cancels>>

\* The part of fail() after the caller's authority has been checked.
Fail(n, withExecution) ==
    /\ UpdateNode(n, [Released(nodes[n], "FAILED", "failed") EXCEPT
                        !.bound = nodes[n].bound \/ withExecution])
    /\ IsolatedHeader
    /\ UNCHANGED <<results, prepared, cancels>>

CompleteLease(o, n, f) == LiveLease(nodes[n], o, f) /\ Complete(n)

FailLease(o, n, f, withExecution) ==
    LiveLease(nodes[n], o, f) /\ Fail(n, withExecution)

\* Mutant: a settled node is settled again.
BoundAtAnyStatus(n, f) == nodes[n].bound /\ nodes[n].fence = f

\* A caller that holds no lease settles a bound node by execution id and fence.
BoundAt(n, f) ==
    /\ nodes[n].status \in {"WAITING", "READY", "RUNNING", "RECOVERY_REQUIRED"}
    /\ nodes[n].bound
    /\ nodes[n].fence = f

CompleteBound(n, f) == BoundAt(n, f) /\ Complete(n)

FailBound(n, f) == BoundAt(n, f) /\ Fail(n, FALSE)

\* supply_input passes neither lease nor fence: only a WAITING node accepts it.
CompleteWaiting(n) ==
    /\ nodes[n].status = "WAITING"
    /\ nodes[n].bound
    /\ Complete(n)

(***************************************************************************)
(* Scheduling, recovery and cancellation                                   *)
(***************************************************************************)
SchedulerState ==
    /\ ReconcileTo(nodes, TRUE)
    /\ IsolatedHeader
    /\ UNCHANGED <<results, prepared, cancels>>

\* recover_graph without a pending cancel; with one it only reads.
Recovered(v) ==
    IF v.status = "RECOVERY_REQUIRED" /\ ~(v.error = "unbound" /\ ~v.bound)
      THEN [Released(v, IF v.bound THEN "READY" ELSE "PENDING", "none") EXCEPT
              !.delay = IF v.bound THEN v.delay ELSE 0]
      ELSE v

RecoverGraph ==
    /\ \E n \in Nodes : nodes[n].status = "RECOVERY_REQUIRED"
    /\ ReconcileTo([n \in Nodes |-> Recovered(nodes[n])], FALSE)
    /\ IsolatedHeader
    /\ UNCHANGED <<results, prepared, cancels>>

RequeueRecovery(n, f, d) ==
    LET v == nodes[n] IN
    /\ v.status = "RECOVERY_REQUIRED"
    /\ v.fence = f
    /\ v.bound
    /\ ReconcileTo([nodes EXCEPT ![n] = [Released(v, "READY", "none") EXCEPT !.delay = d]],
                   FALSE)
    /\ IsolatedHeader
    /\ UNCHANGED <<results, prepared, cancels>>

\* cancel_node after the execution confirmed its cancellation.
CancelNode(n, f) ==
    /\ BoundAt(n, f)
    /\ ReconcileTo([nodes EXCEPT ![n] = Released(nodes[n], "CANCELLED", "none")], FALSE)
    /\ IsolatedHeader
    /\ UNCHANGED <<results, prepared, cancels>>

\* cancel_node without confirmation: the effect of the execution is unknown.
CancelNodeUnconfirmed(n, f) ==
    /\ BoundAt(n, f)
    /\ nodes[n].status # "RECOVERY_REQUIRED"
    /\ UpdateNode(n, Released(nodes[n], "RECOVERY_REQUIRED", "unknown"))
    /\ IsolatedHeader
    /\ UNCHANGED <<results, prepared, cancels>>

\* Mutant: a claim that lapsed before it bound an execution is cancelled outright.
CancelledViewIgnoringFence(v) ==
    IF v.status \in {"PENDING", "READY"} /\ ~v.bound THEN Released(v, "CANCELLED", v.error)
    ELSE v

\* Mutant: a node that waits for its next attempt is cancelled over its execution.
CancelledViewIgnoringExecution(v) ==
    IF v.status \in {"PENDING", "READY"} THEN Released(v, "CANCELLED", v.error) ELSE v

\* What cancel_graph does to one node: only work that cannot have started is
\* cancelled outright; a claim that lapsed before it bound an execution is
\* left for recovery; bound and running nodes are settled elsewhere.
CancelledView(v) ==
    CASE v.status = "RECOVERY_REQUIRED" /\ ~v.bound /\ v.error = "projection" ->
           [v EXCEPT !.status = "CANCELLED", !.error = "none"]
      [] v.status \in {"PENDING", "READY"} /\ ~v.bound /\ v.fence = 0 ->
           Released(v, "CANCELLED", v.error)
      [] v.status \in {"PENDING", "READY"} /\ ~v.bound /\ v.fence > 0 ->
           Released(v, "RECOVERY_REQUIRED", "unbound")
      [] OTHER -> v

CancelGraph ==
    /\ nodes' = [n \in Nodes |-> CancelledView(nodes[n])]
    /\ header' = IF CancelledThroughout(StatusOf(nodes')) THEN "CANCELLED"
                 ELSE AggregateGraphStatus(StatusOf(nodes'))
    /\ UNCHANGED <<results, prepared, cancels>>

RegisterCancelRequest(s) ==
    /\ s \notin cancels
    /\ s # Graph => nodes[s].bound
    /\ cancels' = cancels \cup {s}
    /\ UNCHANGED <<nodes, header, results, prepared>>

\* The operation ledger marks a cancel operation SUCCEEDED or FAILED by a compare and
\* swap of its own record, whatever has become of the scope.
SettleCancelRequest(s) ==
    /\ s \in cancels
    /\ cancels' = cancels \ {s}
    /\ UNCHANGED <<nodes, header, results, prepared>>

(***************************************************************************)
(* Time                                                                    *)
(***************************************************************************)
Tick ==
    /\ \E n \in Nodes : nodes[n].ttl > 0 \/ nodes[n].delay > 0
    /\ nodes' = [n \in Nodes |->
                   [nodes[n] EXCEPT !.ttl = IF @ > 0 THEN @ - 1 ELSE @,
                                    !.delay = IF @ > 0 THEN @ - 1 ELSE @]]
    /\ UNCHANGED <<header, results, prepared, cancels>>

(***************************************************************************)
(* The most general caller                                                 *)
(***************************************************************************)
LeaseOperation(o, n, f) ==
    \/ Renew(o, n, f)
    \/ PublishPreparedInput(o, n, f)
    \/ BindExecution(o, n, f)
    \/ \E occupies \in BOOLEAN : HandoffExecution(o, n, f, occupies)
    \/ \E d \in 0..MaxDelay : RequeueRetry(o, n, f, d)
    \/ \E e \in {"projection", "unknown"}, x \in BOOLEAN : MarkRecoveryRequired(o, n, f, e, x)
    \/ CompleteLease(o, n, f)
    \/ \E x \in BOOLEAN : FailLease(o, n, f, x)

BoundOperation(n, f) ==
    \/ \E d \in 0..MaxDelay : RequeueWaitingRetry(n, f, d) \/ RequeueRecovery(n, f, d)
    \/ MarkBoundRecoveryRequired(n, f)
    \/ CompleteBound(n, f)
    \/ FailBound(n, f)
    \/ CancelNode(n, f)
    \/ CancelNodeUnconfirmed(n, f)

GraphOperation ==
    \/ SchedulerState
    \/ RecoverGraph
    \/ CancelGraph
    \/ \E s \in Nodes \cup {Graph} : RegisterCancelRequest(s) \/ SettleCancelRequest(s)

Next ==
    \/ \E o \in Owners, n \in Nodes : Claim(o, n)
    \/ \E o \in Owners, n \in Nodes, f \in 1..MaxFence : LeaseOperation(o, n, f)
    \/ \E n \in Nodes, f \in 1..MaxFence : BoundOperation(n, f)
    \/ \E n \in Nodes : CompleteWaiting(n)
    \/ GraphOperation
    \/ Tick

Spec == Init /\ [][Next]_vars

(***************************************************************************)
(* Properties                                                              *)
(***************************************************************************)

\* The node records never take a shape that makes the repository raise
\* STORAGE_INTEGRITY_ERROR (owner, fence and deadline of a RUNNING node, the
\* execution of a WAITING one), whatever order the operations ran in; a retry
\* delay and an occupied slot never outlive the state they belong to.
NodeShape(v) ==
    /\ v.status = "RUNNING" <=> v.owner # NoOwner
    /\ v.status = "RUNNING" <=> v.ttl # NoLease
    /\ v.status = "RUNNING" => v.fence > 0
    /\ v.status = "WAITING" => v.bound
    /\ v.status = "PENDING" => ~v.bound
    /\ v.occupies => v.status = "WAITING"
    /\ v.bound => v.fence > 0
    /\ v.delay > 0 => v.status = "READY" /\ v.bound
    /\ v.status = Absent => v.fence = 0

LeaseShape == \A n \in Nodes : NodeShape(nodes[n])

\* max_concurrency bounds the work in flight - unexpired claims and occupying
\* waits - although claims are decided one node at a time, by several
\* launchers, and leases lapse, are renewed, handed off and reclaimed between.
ActiveBounded == Cardinality(ActiveNodes(nodes)) <= MaxConcurrency

\* A node that was ever claimed has its dependencies satisfied, now and not only
\* when it was claimed; so reconciliation never blocks work that has started.
StartedAfterDependencies ==
    \A n \in Nodes : nodes[n].fence > 0 => DependencyStatus(n, StatusOf(nodes)) = "READY"

\* A BLOCKED node is blocked by what its dependencies are, and it never ran.
BlockedByDependencies ==
    \A n \in Nodes : nodes[n].status = "BLOCKED" =>
        /\ DependencyStatus(n, StatusOf(nodes)) = "BLOCKED"
        /\ nodes[n].fence = 0

\* The status column of the graph record - what claim() and the recovery index
\* trust without reading the nodes - agrees with the nodes: exactly, except that
\* PENDING and RUNNING may be confused and a whole-graph cancel overrides how
\* settled nodes aggregate.  So _effective_graph_status never rejects the graph.
HeaderAgrees ==
    LET aggregate == AggregateGraphStatus(StatusOf(nodes)) IN
    \/ header = aggregate
    \/ {header, aggregate} \subseteq {"PENDING", "RUNNING"}
    \/ header = "CANCELLED" /\ CancelledThroughout(StatusOf(nodes))

\* A result record is stored for the nodes that succeeded and no others,
\* however often completions are retried, replayed or raced.
ResultsExact == results = {n \in Nodes : nodes[n].status = "SUCCEEDED"}

\* The nodes an expander adds are stored with its success or not at all: a crash
\* or a conflict never leaves a completed node whose expansion is missing, no
\* node of an expansion that did not happen, and no node that two expanders added.
ExpansionWithCompletion ==
    /\ \A n \in results : Expansion[n] \subseteq Present
    /\ \A m \in Present \ Initial : \E n \in results : m \in Expansion[n]
    /\ \A m, n \in results : m # n => Expansion[m] \cap Expansion[n] = {}

\* The reconciliation of the specification is single-valued and is what the pass
\* of _reconciled_task_nodes computes, in every reachable state and whatever the
\* names of the nodes: a failure reaches every transitive dependent in one pass.
ReconciliationIsOnePass ==
    \A expire \in BOOLEAN, order \in TopologicalOrders :
      {order[i] : i \in DOMAIN order} = Present =>
        LET freed == [n \in Nodes |-> Requeued(nodes[n], expire)]
        IN {[n \in Nodes |-> ReconciledNode(n, freed[n], StatusWith(freed, B))] :
              B \in {X \in SUBSET Nodes : BlocksExactly(freed, X)}}
           = {ReconciliationPass(nodes, order, expire)}

\* A settled node is never touched again: no late worker, settler, recovery or
\* cancellation changes what was decided.
TerminalStable ==
    [][\A n \in Nodes : nodes[n].status \in Terminal => nodes'[n] = nodes[n]]_vars

\* A node changes hands only under a larger fence, fences never go back and an
\* execution, once bound, stays bound: the holder of an old lease can be told
\* from the current one for ever.
FencedOwnership ==
    [][\A n \in Nodes :
         /\ nodes'[n].fence >= nodes[n].fence
         /\ nodes'[n].owner \notin {NoOwner, nodes[n].owner} => nodes'[n].fence > nodes[n].fence
         /\ nodes[n].bound => nodes'[n].bound]_vars

\* A graph that has settled does not start running again: the launcher may drop
\* its scheduler and release the dependencies of the graph.
SettledGraphStaysSettled == [][(header \in Terminal) => (header' \in Terminal)]_vars

\* Whole-graph cancellation overrides a historical failure for good (the tests
\* test_whole_graph_cancel_overrides_historical_failure_after_settlement and
\* test_whole_graph_cancel_overrides_terminal_node_aggregate).
CancelledGraphStaysCancelled == [][header = "CANCELLED" => header' = "CANCELLED"]_vars
===========================================================================
