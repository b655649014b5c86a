----------------------- MODULE TaskRepositoryProofs -----------------------
(***************************************************************************)
(* Proofs about the task-graph repository, for every graph, every number   *)
(* of owners and every bound.                                              *)
(***************************************************************************)
EXTENDS TaskRepository, FiniteSetTheorems, WellFoundedInduction, TLAPS

(***************************************************************************)
(* Types of the operators                                                  *)
(***************************************************************************)

\* The constants of the views are in their ranges.
LEMMA Ranges ==
    /\ -1 \in NoLease..LeaseSeconds
    /\ LeaseSeconds \in NoLease..LeaseSeconds
    /\ 0 \in 0..MaxDelay
    /\ 0 \in 0..MaxFence
BY LimitsAssumption DEF LimitsAssumption, NoLease

\* A released view is a view (the replace(...) of every settling operation).
LEMMA ReleasedType ==
    ASSUME NEW v \in NodeView, NEW s \in Status, NEW e \in ErrorClass
    PROVE  Released(v, s, e) \in NodeView
BY Ranges DEF Released, NodeView, NoLease

\* Freeing a lapsed claim keeps the shape of the view.
LEMMA RequeuedType ==
    ASSUME NEW v \in NodeView, NEW expire \in BOOLEAN
    PROVE  Requeued(v, expire) \in NodeView
BY Ranges DEF Requeued, NodeView, NoLease, Status, Live, Terminal

\* A reconciled view is a view.
LEMMA ReconciledType ==
    ASSUME NEW n \in Nodes, NEW v \in NodeView, NEW st
    PROVE  ReconciledNode(n, v, st) \in NodeView
BY DEF ReconciledNode, NodeView, Status, Live, Terminal, ErrorClass

\* The aggregate of any nodes is a status the graph record may hold.
LEMMA AggregateType ==
    ASSUME NEW st
    PROVE  AggregateGraphStatus(st) \in GraphStatus
BY Zenon DEF AggregateGraphStatus, GraphStatus, Status, Live, Terminal

\* The views that admission and expansion write.
LEMMA FreshViewType ==
    ASSUME NEW n \in Nodes, NEW st \in Status \cup {Absent}
    PROVE  FreshView(n, st) \in NodeView
BY Ranges DEF FreshView, NodeView, NoLease, ErrorClass

\* A status that admission gives is a status.
LEMMA InitialStatusType == ASSUME NEW n \in Nodes PROVE InitialStatus(n) \in Status
BY DEF InitialStatus, Status, Live, Terminal

\* One reconciliation pass maps views to views.
LEMMA ReconcileType ==
    ASSUME NEW ns \in [Nodes -> NodeView], NEW expire \in BOOLEAN, ReconcileTo(ns, expire)
    PROVE  nodes' \in [Nodes -> NodeView]
<1> DEFINE freed == [n \in Nodes |-> Requeued(ns[n], expire)]
<1>1. freed \in [Nodes -> NodeView]
  BY RequeuedType
<1>2. PICK B \in SUBSET Nodes :
         nodes' = [n \in Nodes |-> ReconciledNode(n, freed[n], StatusWith(freed, B))]
  BY DEF ReconcileTo
<1> HIDE DEF freed
<1>3. \A n \in Nodes : ReconciledNode(n, freed[n], StatusWith(freed, B)) \in NodeView
  BY <1>1, ReconciledType
<1> QED BY <1>2, <1>3

\* Writing back one node keeps the type of the nodes.
LEMMA UpdateType ==
    ASSUME nodes \in [Nodes -> NodeView], NEW n \in Nodes, NEW w \in NodeView, UpdateNode(n, w)
    PROVE  nodes' \in [Nodes -> NodeView]
BY DEF UpdateNode

(***************************************************************************)
(* Type correctness                                                        *)
(***************************************************************************)

\* complete() writes a settled node, fresh nodes of the expansion and a result.
LEMMA CompleteType ==
    ASSUME TypeOK, NEW n \in Nodes, Complete(n)
    PROVE  TypeOK'
<1> USE DEF TypeOK
<1>1. Released(nodes[n], "SUCCEEDED", "none") \in NodeView
  BY ReleasedType DEF Status, Terminal, ErrorClass
<1>2. [Released(nodes[n], "SUCCEEDED", "none") EXCEPT !.bound = TRUE] \in NodeView
  BY <1>1 DEF NodeView
<1>3. \A m \in Nodes : FreshView(m, InitialStatus(m)) \in NodeView
  BY FreshViewType, InitialStatusType
<1>4. nodes' \in [Nodes -> NodeView]
  BY <1>2, <1>3 DEF Complete
<1> QED BY <1>4, AggregateType DEF Complete, IsolatedHeader

\* fail() writes a settled node.
LEMMA FailType ==
    ASSUME TypeOK, NEW n \in Nodes, NEW x \in BOOLEAN, Fail(n, x)
    PROVE  TypeOK'
<1> USE DEF TypeOK
<1>1. Released(nodes[n], "FAILED", "failed") \in NodeView
  BY ReleasedType DEF Status, Terminal, ErrorClass
<1>2. [Released(nodes[n], "FAILED", "failed") EXCEPT !.bound = nodes[n].bound \/ x] \in NodeView
  BY <1>1 DEF NodeView
<1> QED BY <1>2, UpdateType, AggregateType DEF Fail, IsolatedHeader

\* Operations of a lease holder keep the types.
LEMMA LeaseOperationType ==
    ASSUME TypeOK, NEW o \in Owners, NEW n \in Nodes, NEW f \in 1..MaxFence,
           LeaseOperation(o, n, f)
    PROVE  TypeOK'
<1> USE DEF TypeOK
<1>0. nodes[n] \in NodeView
  OBVIOUS
<1>1. CASE Renew(o, n, f)
  <2>1. [nodes[n] EXCEPT !.ttl = LeaseSeconds] \in NodeView
    BY <1>0, Ranges DEF NodeView
  <2> QED BY <1>1, <2>1, UpdateType DEF Renew
<1>2. CASE PublishPreparedInput(o, n, f)
  BY <1>2 DEF PublishPreparedInput
<1>3. CASE BindExecution(o, n, f)
  <2>1. [nodes[n] EXCEPT !.bound = TRUE] \in NodeView
    BY <1>0 DEF NodeView
  <2> QED BY <1>3, <2>1, UpdateType DEF BindExecution
<1>4. ASSUME NEW occupies \in BOOLEAN, HandoffExecution(o, n, f, occupies)
      PROVE  TypeOK'
  <2>1. Released(nodes[n], "WAITING", "none") \in NodeView
    BY <1>0, ReleasedType DEF Status, Live, ErrorClass
  <2>2. [Released(nodes[n], "WAITING", "none") EXCEPT !.bound = TRUE, !.occupies = occupies]
          \in NodeView
    BY <2>1 DEF NodeView
  <2> QED BY <1>4, <2>2, UpdateType DEF HandoffExecution
<1>5. ASSUME NEW d \in 0..MaxDelay, RequeueRetry(o, n, f, d)
      PROVE  TypeOK'
  <2>1. Released(nodes[n], "READY", "none") \in NodeView
    BY <1>0, ReleasedType DEF Status, Live, ErrorClass
  <2>2. [Released(nodes[n], "READY", "none") EXCEPT !.delay = d] \in NodeView
    BY <2>1 DEF NodeView
  <2> QED BY <1>5, <2>2, UpdateType, AggregateType DEF RequeueRetry, IsolatedHeader
<1>6. ASSUME NEW e \in {"projection", "unknown"}, NEW x \in BOOLEAN,
             MarkRecoveryRequired(o, n, f, e, x)
      PROVE  TypeOK'
  <2>1. Released(nodes[n], "RECOVERY_REQUIRED", e) \in NodeView
    BY <1>0, ReleasedType DEF Status, Live, ErrorClass
  <2>2. [Released(nodes[n], "RECOVERY_REQUIRED", e) EXCEPT !.bound = nodes[n].bound \/ x]
          \in NodeView
    BY <2>1 DEF NodeView
  <2> QED BY <1>6, <2>2, UpdateType, AggregateType DEF MarkRecoveryRequired, IsolatedHeader
<1>7. CASE CompleteLease(o, n, f)
  BY <1>7, CompleteType DEF CompleteLease
<1>8. ASSUME NEW x \in BOOLEAN, FailLease(o, n, f, x)
      PROVE  TypeOK'
  BY <1>8, FailType DEF FailLease
<1> QED BY <1>1, <1>2, <1>3, <1>4, <1>5, <1>6, <1>7, <1>8 DEF LeaseOperation

\* Operations that go by execution and fence keep the types.
LEMMA BoundOperationType ==
    ASSUME TypeOK, NEW n \in Nodes, NEW f \in 1..MaxFence, BoundOperation(n, f)
    PROVE  TypeOK'
<1> USE DEF TypeOK
<1>0. nodes[n] \in NodeView
  OBVIOUS
<1>1. Released(nodes[n], "READY", "none") \in NodeView
  BY <1>0, ReleasedType DEF Status, Live, ErrorClass
<1>2. Released(nodes[n], "RECOVERY_REQUIRED", "unknown") \in NodeView
  BY <1>0, ReleasedType DEF Status, Live, ErrorClass
<1>3. ASSUME NEW d \in 0..MaxDelay, RequeueWaitingRetry(n, f, d) \/ RequeueRecovery(n, f, d)
      PROVE  TypeOK'
  <2>1. [Released(nodes[n], "READY", "none") EXCEPT !.delay = d] \in NodeView
    BY <1>1 DEF NodeView
  <2>2. CASE RequeueWaitingRetry(n, f, d)
    BY <2>1, <2>2, UpdateType, AggregateType DEF RequeueWaitingRetry, IsolatedHeader
  <2>3. CASE RequeueRecovery(n, f, d)
    <3>1. [nodes EXCEPT ![n] = [Released(nodes[n], "READY", "none") EXCEPT !.delay = d]]
            \in [Nodes -> NodeView]
      BY <2>1
    <3> QED BY <2>3, <3>1, ReconcileType, AggregateType DEF RequeueRecovery, IsolatedHeader
  <2> QED BY <1>3, <2>2, <2>3
<1>4. CASE MarkBoundRecoveryRequired(n, f)
  BY <1>2, <1>4, UpdateType, AggregateType DEF MarkBoundRecoveryRequired, IsolatedHeader
<1>5. CASE CompleteBound(n, f)
  BY <1>5, CompleteType DEF CompleteBound
<1>6. CASE FailBound(n, f)
  BY <1>6, FailType DEF FailBound
<1>7. CASE CancelNode(n, f)
  <2>1. Released(nodes[n], "CANCELLED", "none") \in NodeView
    BY <1>0, ReleasedType DEF Status, Terminal, ErrorClass
  <2>2. [nodes EXCEPT ![n] = Released(nodes[n], "CANCELLED", "none")] \in [Nodes -> NodeView]
    BY <2>1
  <2> QED BY <1>7, <2>2, ReconcileType, AggregateType DEF CancelNode, IsolatedHeader
<1>8. CASE CancelNodeUnconfirmed(n, f)
  BY <1>2, <1>8, UpdateType, AggregateType DEF CancelNodeUnconfirmed, IsolatedHeader
<1> QED BY <1>3, <1>4, <1>5, <1>6, <1>7, <1>8 DEF BoundOperation

\* Scheduling, recovery and cancellation of the graph keep the types.
LEMMA GraphOperationType ==
    ASSUME TypeOK, GraphOperation
    PROVE  TypeOK'
<1> USE DEF TypeOK
<1>1. CASE SchedulerState
  BY <1>1, ReconcileType, AggregateType DEF SchedulerState, IsolatedHeader
<1>2. CASE RecoverGraph
  <2>1. ASSUME NEW v \in NodeView PROVE Recovered(v) \in NodeView
    <3>1. \A s \in Status : Released(v, s, "none") \in NodeView
      BY ReleasedType DEF ErrorClass
    <3>2. Released(v, "READY", "none") \in NodeView /\ Released(v, "PENDING", "none") \in NodeView
      BY <3>1 DEF Status, Live
    <3> QED BY <3>2, Ranges DEF Recovered, NodeView
  <2>2. [n \in Nodes |-> Recovered(nodes[n])] \in [Nodes -> NodeView]
    BY <2>1
  <2> QED BY <1>2, <2>2, ReconcileType, AggregateType DEF RecoverGraph, IsolatedHeader
<1>3. CASE CancelGraph
  <2>1. ASSUME NEW v \in NodeView PROVE CancelledView(v) \in NodeView
    <3>1. \A s \in Status, e \in ErrorClass : Released(v, s, e) \in NodeView
      BY ReleasedType
    <3>2. v.error \in ErrorClass
      BY DEF NodeView
    <3>3. /\ Released(v, "CANCELLED", v.error) \in NodeView
          /\ Released(v, "RECOVERY_REQUIRED", "unbound") \in NodeView
      BY <3>1, <3>2 DEF Status, Live, Terminal, ErrorClass
    <3>4. [v EXCEPT !.status = "CANCELLED", !.error = "none"] \in NodeView
      BY DEF NodeView, Status, Terminal, ErrorClass
    <3> QED BY <3>3, <3>4, Zenon DEF CancelledView
  <2>2. nodes' \in [Nodes -> NodeView]
    BY <1>3, <2>1 DEF CancelGraph
  <2>3. header' \in GraphStatus
    BY <1>3, AggregateType DEF CancelGraph, GraphStatus, Status, Terminal
  <2> QED BY <1>3, <2>2, <2>3 DEF CancelGraph
<1>4. ASSUME NEW s \in Nodes \cup {Graph}, RegisterCancelRequest(s) \/ SettleCancelRequest(s)
      PROVE  TypeOK'
  BY <1>4 DEF RegisterCancelRequest, SettleCancelRequest
<1> QED BY <1>1, <1>2, <1>3, <1>4 DEF GraphOperation

\* A claim keeps the types.
LEMMA ClaimType ==
    ASSUME TypeOK, NEW o \in Owners, NEW n \in Nodes, Claim(o, n)
    PROVE  TypeOK'
<1> USE DEF TypeOK
<1>1. nodes[n] \in NodeView
  OBVIOUS
<1>2. nodes[n].fence + 1 \in 0..MaxFence
  BY <1>1, LimitsAssumption DEF LimitsAssumption, NodeView, Claim
<1>3. [nodes[n] EXCEPT !.status = "RUNNING", !.owner = o, !.fence = nodes[n].fence + 1,
                       !.ttl = LeaseSeconds, !.delay = 0, !.occupies = FALSE] \in NodeView
  BY <1>1, <1>2, Ranges DEF NodeView, Status, Live
<1> QED BY <1>3, UpdateType DEF Claim

\* The passage of time keeps the types.
LEMMA TickType == ASSUME TypeOK, Tick PROVE TypeOK'
<1> USE DEF TypeOK
<1>1. ASSUME NEW v \in NodeView
      PROVE  [v EXCEPT !.ttl = IF @ > 0 THEN @ - 1 ELSE @,
                       !.delay = IF @ > 0 THEN @ - 1 ELSE @] \in NodeView
  <2>1. v.ttl \in NoLease..LeaseSeconds /\ v.delay \in 0..MaxDelay
    BY DEF NodeView
  <2>2. /\ (IF v.ttl > 0 THEN v.ttl - 1 ELSE v.ttl) \in NoLease..LeaseSeconds
        /\ (IF v.delay > 0 THEN v.delay - 1 ELSE v.delay) \in 0..MaxDelay
    BY <2>1, LimitsAssumption DEF LimitsAssumption, NoLease
  <2> QED BY <2>2 DEF NodeView
<1>2. \A m \in Nodes : nodes[m] \in NodeView
  OBVIOUS
<1> QED BY <1>1, <1>2 DEF Tick

\* Admission produces well-typed records.
LEMMA InitType == Init => TypeOK
<1> SUFFICES ASSUME Init PROVE TypeOK
  OBVIOUS
<1>1. \A n \in Nodes : FreshView(n, IF n \in Initial THEN InitialStatus(n) ELSE Absent) \in NodeView
  BY FreshViewType, InitialStatusType
<1> QED BY <1>1, AggregateType DEF Init, TypeOK

\* Every step keeps the types.
LEMMA NextType == TypeOK /\ [Next]_vars => TypeOK'
<1> SUFFICES ASSUME TypeOK, [Next]_vars PROVE TypeOK'
  OBVIOUS
<1>1. ASSUME NEW o \in Owners, NEW n \in Nodes, Claim(o, n) PROVE TypeOK'
  BY <1>1, ClaimType
<1>2. ASSUME NEW o \in Owners, NEW n \in Nodes, NEW f \in 1..MaxFence, LeaseOperation(o, n, f)
      PROVE  TypeOK'
  BY <1>2, LeaseOperationType
<1>3. ASSUME NEW n \in Nodes, NEW f \in 1..MaxFence, BoundOperation(n, f) PROVE TypeOK'
  BY <1>3, BoundOperationType
<1>4. ASSUME NEW n \in Nodes, CompleteWaiting(n) PROVE TypeOK'
  BY <1>4, CompleteType DEF CompleteWaiting
<1>5. CASE GraphOperation
  BY <1>5, GraphOperationType
<1>6. CASE Tick
  BY <1>6, TickType
<1>7. CASE UNCHANGED vars
  BY <1>7 DEF vars, TypeOK
<1> QED BY <1>1, <1>2, <1>3, <1>4, <1>5, <1>6, <1>7 DEF Next

\* The records of the repository are well typed in every reachable state: the
\* header never stores READY or WAITING, a fence and a deadline stay in range.
THEOREM TypeCorrect == Spec => []TypeOK
<1>1. Init => TypeOK
  BY InitType
<1>2. TypeOK /\ [Next]_vars => TypeOK'
  BY NextType
<1> QED BY <1>1, <1>2, PTL DEF Spec

(***************************************************************************)
(* Dependencies.  What a node's dependencies say once they say READY or    *)
(* BLOCKED rests on terminal nodes only, so it is stable as long as        *)
(* terminal nodes are.                                                     *)
(***************************************************************************)

\* Every node settled in st1 is settled in the same way in st2.
Extends(st1, st2) == \A d \in Nodes : st1[d] \in Terminal => st2[d] = st1[d]

\* Satisfied dependencies stay satisfied while settled nodes stay settled.
LEMMA ReadyStable ==
    ASSUME NEW n \in Nodes, NEW st1, NEW st2, Extends(st1, st2),
           DependencyStatus(n, st1) = "READY"
    PROVE  DependencyStatus(n, st2) = "READY"
<1>1. Deps[n] \subseteq Nodes /\ DependencyPolicy[n] \in DependencyPolicies
  BY DefinitionsAssumption DEF DefinitionsAssumption
<1>2. CASE DependencyPolicy[n] = "all_succeeded"
  BY <1>1, <1>2 DEF DependencyStatus, Extends, Terminal
<1>3. CASE DependencyPolicy[n] = "all_terminal"
  BY <1>1, <1>3 DEF DependencyStatus, Extends, Terminal
<1>4. CASE DependencyPolicy[n] = "any_succeeded"
  BY <1>1, <1>4 DEF DependencyStatus, Extends, Terminal
<1> QED BY <1>1, <1>2, <1>3, <1>4 DEF DependencyPolicies

\* Failed dependencies stay failed while settled nodes stay settled.
LEMMA BlockedStable ==
    ASSUME NEW n \in Nodes, NEW st1, NEW st2, Extends(st1, st2),
           DependencyStatus(n, st1) = "BLOCKED"
    PROVE  DependencyStatus(n, st2) = "BLOCKED"
<1>1. Deps[n] \subseteq Nodes /\ DependencyPolicy[n] \in DependencyPolicies
  BY DefinitionsAssumption DEF DefinitionsAssumption
<1>2. CASE DependencyPolicy[n] = "all_succeeded"
  BY <1>1, <1>2 DEF DependencyStatus, Extends, Terminal
<1>3. CASE DependencyPolicy[n] = "all_terminal"
  BY <1>1, <1>3 DEF DependencyStatus, Extends, Terminal
<1>4. CASE DependencyPolicy[n] = "any_succeeded"
  BY <1>1, <1>4 DEF DependencyStatus, Extends, Terminal
<1> QED BY <1>1, <1>2, <1>3, <1>4 DEF DependencyPolicies

(***************************************************************************)
(* The inductive invariant.  That a RUNNING node has an owner and a        *)
(* deadline is not inductive by itself: reconciliation blocks a node       *)
(* without clearing them.  It never blocks a node that was claimed because *)
(* the dependencies of a claimed node are satisfied for good.              *)
(***************************************************************************)
Inv ==
    /\ TypeOK
    /\ LeaseShape
    /\ StartedAfterDependencies
    /\ BlockedByDependencies
    /\ ResultsExact

\* A node that takes one of the max_concurrency slots.
Occupying(v) ==
    \/ v.status = "WAITING" /\ v.occupies
    \/ v.status = "RUNNING" /\ v.ttl > 0

\* What a step may do to node m.
StepOf(m) ==
    /\ nodes[m].status \in Terminal => nodes'[m] = nodes[m]
    /\ nodes'[m].fence >= nodes[m].fence
    /\ nodes'[m].fence > nodes[m].fence => \E o \in Owners : Claim(o, m)
    /\ nodes'[m].owner \notin {NoOwner, nodes[m].owner} => nodes'[m].fence > nodes[m].fence
    /\ nodes[m].bound => nodes'[m].bound
    /\ nodes'[m].status = "BLOCKED" /\ nodes[m].status # "BLOCKED" =>
         nodes'[m].fence = 0 /\ DependencyStatus(m, StatusOf(nodes')) = "BLOCKED"
    /\ nodes'[m].status = "SUCCEEDED" => nodes[m].status = "SUCCEEDED" \/ m \in results'
    /\ nodes'[m].status = Absent => nodes[m].status = Absent
    /\ nodes[m].status = Absent /\ nodes'[m].status # Absent =>
         \E n \in results' \ results : m \in Expansion[n]
    /\ Occupying(nodes'[m]) => Occupying(nodes[m]) \/ nodes'[m].fence > nodes[m].fence
    /\ NodeShape(nodes'[m])

\* A node that a step leaves alone.
LEMMA KeptStep ==
    ASSUME TypeOK, LeaseShape, NEW m \in Nodes, nodes'[m] = nodes[m]
    PROVE  StepOf(m)
BY DEF TypeOK, NodeView, LeaseShape, StepOf

\* A step that writes one unsettled node without settling it as BLOCKED or
\* SUCCEEDED.
LEMMA UpdateStep ==
    ASSUME TypeOK, LeaseShape, NEW n \in Nodes, NEW w \in NodeView,
           nodes[n].status \notin Terminal \cup {Absent},
           w.status \notin {"BLOCKED", "SUCCEEDED", Absent},
           w.fence = nodes[n].fence, w.owner \in {NoOwner, nodes[n].owner},
           nodes[n].bound => w.bound, NodeShape(w), Occupying(w) => Occupying(nodes[n]),
           UpdateNode(n, w)
    PROVE  \A m \in Nodes : StepOf(m)
<1>1. nodes' \in [Nodes -> NodeView] /\ nodes'[n] = w
  BY UpdateType DEF UpdateNode, TypeOK
<1>2. StepOf(n)
  BY <1>1 DEF TypeOK, NodeView, StepOf
<1>3. ASSUME NEW m \in Nodes, m # n PROVE StepOf(m)
  <2>1. nodes'[m] = nodes[m]
    BY <1>3 DEF UpdateNode, TypeOK
  <2> QED BY <2>1, KeptStep
<1> QED BY <1>2, <1>3

(***************************************************************************)
(* Reconciliation of nodes that the operation may first have changed to ns *)
(***************************************************************************)

\* ns differs from the stored nodes only where they are not settled, and keeps
\* what a step has to keep.
Adjusted(ns) ==
    \A m \in Nodes :
        /\ nodes[m].status \in Terminal => ns[m] = nodes[m]
        /\ ns[m].fence = nodes[m].fence
        /\ ns[m].owner \in {NoOwner, nodes[m].owner}
        /\ nodes[m].bound => ns[m].bound
        /\ ns[m].status = "BLOCKED" => nodes[m].status = "BLOCKED"
        /\ ns[m].status = "SUCCEEDED" => nodes[m].status = "SUCCEEDED"
        /\ ns[m].status = Absent <=> nodes[m].status = Absent
        /\ Occupying(ns[m]) => Occupying(nodes[m])
        /\ NodeShape(ns[m])

\* Freeing lapsed claims keeps an adjustment one.
LEMMA RequeuedAdjusted ==
    ASSUME TypeOK, NEW ns \in [Nodes -> NodeView], Adjusted(ns), NEW expire \in BOOLEAN
    PROVE  Adjusted([n \in Nodes |-> Requeued(ns[n], expire)])
<1> DEFINE freed == [n \in Nodes |-> Requeued(ns[n], expire)]
<1> SUFFICES ASSUME NEW m \in Nodes
             PROVE  /\ nodes[m].status \in Terminal => freed[m] = nodes[m]
                    /\ freed[m].fence = nodes[m].fence
                    /\ freed[m].owner \in {NoOwner, nodes[m].owner}
                    /\ nodes[m].bound => freed[m].bound
                    /\ freed[m].status = "BLOCKED" => nodes[m].status = "BLOCKED"
                    /\ freed[m].status = "SUCCEEDED" => nodes[m].status = "SUCCEEDED"
                    /\ freed[m].status = Absent <=> nodes[m].status = Absent
                    /\ Occupying(freed[m]) => Occupying(nodes[m])
                    /\ NodeShape(freed[m])
  BY DEF Adjusted
<1>1. freed[m] = Requeued(ns[m], expire) /\ ns[m] \in NodeView /\ nodes[m] \in NodeView
  BY DEF TypeOK
<1>2. CASE expire /\ ns[m].status = "RUNNING" /\ ns[m].ttl = 0
  <2>1. freed[m] = [ns[m] EXCEPT !.status = "READY", !.owner = NoOwner, !.ttl = NoLease,
                                 !.delay = 0, !.occupies = FALSE]
    BY <1>1, <1>2 DEF Requeued
  <2>2. /\ freed[m].status = "READY" /\ freed[m].owner = NoOwner /\ freed[m].ttl = NoLease
        /\ freed[m].fence = ns[m].fence /\ freed[m].bound = ns[m].bound
        /\ freed[m].delay = 0 /\ freed[m].occupies = FALSE
    BY <1>1, <2>1 DEF NodeView
  <2> HIDE DEF freed
  <2>3. NodeShape(freed[m])
    BY <1>1, <2>2 DEF Adjusted, NodeShape, NodeView, NoLease, Absent
  <2>4. nodes[m].status \notin Terminal
    BY <1>2 DEF Adjusted, Terminal
  <2> QED BY <1>1, <1>2, <2>2, <2>3, <2>4 DEF Adjusted, Occupying, Absent
<1>3. CASE ~(expire /\ ns[m].status = "RUNNING" /\ ns[m].ttl = 0)
  <2>1. freed[m] = ns[m]
    BY <1>1, <1>3 DEF Requeued
  <2> QED BY <2>1 DEF Adjusted
<1> QED BY <1>2, <1>3

\* A step that ends in a reconciliation pass.
LEMMA ReconcileStep ==
    ASSUME TypeOK, StartedAfterDependencies,
           NEW ns \in [Nodes -> NodeView], Adjusted(ns), NEW expire \in BOOLEAN,
           ReconcileTo(ns, expire)
    PROVE  \A m \in Nodes : StepOf(m)
<1> DEFINE freed == [n \in Nodes |-> Requeued(ns[n], expire)]
<1>1. freed \in [Nodes -> NodeView] /\ Adjusted(freed)
  BY RequeuedType, RequeuedAdjusted
<1>2. PICK B \in SUBSET Nodes :
         /\ BlocksExactly(freed, B)
         /\ nodes' = [n \in Nodes |-> ReconciledNode(n, freed[n], StatusWith(freed, B))]
  BY DEF ReconcileTo
<1> HIDE DEF freed
<1> DEFINE st == StatusWith(freed, B)
<1>3. \A d \in Nodes : st[d] = IF d \in B THEN "BLOCKED" ELSE freed[d].status
  BY DEF StatusWith
<1>4. \A d \in Nodes : d \in B <=> Reconcilable(freed[d]) /\ DependencyStatus(d, st) = "BLOCKED"
  BY <1>2 DEF BlocksExactly
<1> HIDE DEF st
<1>5. \A d \in Nodes : nodes'[d] = ReconciledNode(d, freed[d], st)
  BY <1>2 DEF st
<1>6. Extends(StatusOf(nodes), st)
  <2> SUFFICES ASSUME NEW d \in Nodes, nodes[d].status \in Terminal
               PROVE  st[d] = nodes[d].status
    BY DEF Extends, StatusOf
  <2>1. freed[d] = nodes[d]
    BY <1>1 DEF Adjusted
  <2>2. d \notin B
    BY <1>4, <2>1 DEF Reconcilable, Terminal
  <2> QED BY <1>3, <2>1, <2>2
<1>7. Extends(st, StatusOf(nodes'))
  <2> SUFFICES ASSUME NEW d \in Nodes, st[d] \in Terminal
               PROVE  nodes'[d].status = st[d]
    BY DEF Extends, StatusOf
  <2>1. CASE d \in B
    <3>1. Reconcilable(freed[d]) /\ DependencyStatus(d, st) = "BLOCKED"
      BY <1>4, <2>1
    <3>2. nodes'[d] = [freed[d] EXCEPT !.status = "BLOCKED", !.error = "dependency"]
      BY <1>5, <3>1 DEF ReconciledNode
    <3> QED BY <1>1, <1>3, <2>1, <3>2 DEF NodeView
  <2>2. CASE d \notin B
    <3>1. ~Reconcilable(freed[d])
      BY <1>3, <2>2 DEF Reconcilable, Terminal
    <3>2. nodes'[d] = freed[d]
      BY <1>5, <3>1 DEF ReconciledNode
    <3> QED BY <1>3, <2>2, <3>2
  <2> QED BY <2>1, <2>2
<1> SUFFICES ASSUME NEW m \in Nodes PROVE StepOf(m)
  OBVIOUS
<1>8. freed[m] \in NodeView /\ nodes[m] \in NodeView
  BY <1>1 DEF TypeOK
<1>9. CASE nodes'[m] = freed[m]
  BY <1>1, <1>8, <1>9 DEF Adjusted, StepOf, NodeView
<1>10. CASE Reconcilable(freed[m]) /\ DependencyStatus(m, st) = "BLOCKED"
  <2>1. freed[m].fence = 0
    <3>1. CASE nodes[m].fence > 0
      <4>1. DependencyStatus(m, StatusOf(nodes)) = "READY"
        BY <3>1 DEF StartedAfterDependencies
      <4>2. DependencyStatus(m, st) = "READY"
        BY <1>6, <4>1, ReadyStable
      <4> QED BY <1>10, <4>2
    <3>2. freed[m].fence = nodes[m].fence /\ nodes[m].fence \in 0..MaxFence
      BY <1>1, <1>8 DEF Adjusted, NodeView
    <3> QED BY <3>1, <3>2, LimitsAssumption DEF LimitsAssumption
  <2>2. nodes'[m] = [freed[m] EXCEPT !.status = "BLOCKED", !.error = "dependency"]
    BY <1>5, <1>10 DEF ReconciledNode
  <2>3. /\ nodes'[m].status = "BLOCKED" /\ nodes'[m].fence = 0
        /\ nodes'[m].owner = freed[m].owner /\ nodes'[m].ttl = freed[m].ttl
        /\ nodes'[m].bound = freed[m].bound /\ nodes'[m].delay = freed[m].delay
        /\ nodes'[m].occupies = freed[m].occupies
    BY <1>8, <2>1, <2>2 DEF NodeView
  <2>4. NodeShape(freed[m]) /\ freed[m].status # "RUNNING" /\ ~freed[m].bound
    BY <1>1, <1>10, <2>1 DEF Adjusted, NodeShape, Reconcilable
  <2>5. NodeShape(nodes'[m])
    BY <1>8, <2>3, <2>4 DEF NodeShape, NodeView, Absent
  <2>6. DependencyStatus(m, StatusOf(nodes')) = "BLOCKED"
    BY <1>7, <1>10, BlockedStable
  <2>7. nodes[m].status \notin Terminal /\ nodes[m].fence = 0 /\ ~nodes[m].bound
    BY <1>1, <1>8, <1>10, <2>1, <2>4 DEF Adjusted, Reconcilable, Terminal, NodeView
  <2> QED BY <1>1, <1>8, <1>10, <2>3, <2>5, <2>6, <2>7 DEF Adjusted, StepOf, Occupying, Reconcilable, Absent
<1>11. ASSUME Reconcilable(freed[m]), freed[m].status \in {"PENDING", "READY"},
              NEW s \in {"PENDING", "READY"}, nodes'[m] = [freed[m] EXCEPT !.status = s]
       PROVE  StepOf(m)
  <2>1. /\ nodes'[m].status = s /\ nodes'[m].fence = freed[m].fence
        /\ nodes'[m].owner = freed[m].owner /\ nodes'[m].ttl = freed[m].ttl
        /\ nodes'[m].bound = freed[m].bound /\ nodes'[m].delay = freed[m].delay
        /\ nodes'[m].occupies = freed[m].occupies
    BY <1>8, <1>11 DEF NodeView
  <2>2. NodeShape(nodes'[m])
    BY <1>1, <1>8, <1>11, <2>1 DEF Adjusted, NodeShape, Reconcilable, NodeView, Absent
  <2>3. nodes[m].status \notin Terminal
    BY <1>1, <1>11 DEF Adjusted, Terminal
  <2> QED BY <1>1, <1>8, <1>11, <2>1, <2>2, <2>3 DEF Adjusted, StepOf, NodeView, Occupying, Absent
<1> QED BY <1>5, <1>8, <1>9, <1>10, <1>11 DEF ReconciledNode

(***************************************************************************)
(* What every operation does to every node                                 *)
(***************************************************************************)

\* The fields of a released view.
LEMMA ReleasedFields ==
    ASSUME NEW v \in NodeView, NEW s \in Status, NEW e \in ErrorClass
    PROVE  LET w == Released(v, s, e) IN
           /\ w.status = s /\ w.owner = NoOwner /\ w.fence = v.fence /\ w.ttl = NoLease
           /\ w.bound = v.bound /\ w.delay = 0 /\ w.occupies = FALSE
BY DEF Released, NodeView

\* The fields of a released view whose execution is set as well.
LEMMA BoundReleasedFields ==
    ASSUME NEW v \in NodeView, NEW s \in Status, NEW e \in ErrorClass, NEW x \in BOOLEAN
    PROVE  LET w == [Released(v, s, e) EXCEPT !.bound = x] IN
           /\ w \in NodeView
           /\ w.status = s /\ w.owner = NoOwner /\ w.fence = v.fence /\ w.ttl = NoLease
           /\ w.bound = x /\ w.delay = 0 /\ w.occupies = FALSE
<1> DEFINE r == Released(v, s, e)
<1>1. /\ r \in NodeView
      /\ r.status = s /\ r.owner = NoOwner /\ r.fence = v.fence /\ r.ttl = NoLease
      /\ r.delay = 0 /\ r.occupies = FALSE
  BY ReleasedType, ReleasedFields
<1> HIDE DEF r
<1>2. LET w == [r EXCEPT !.bound = x] IN
      /\ w \in NodeView
      /\ w.status = s /\ w.owner = NoOwner /\ w.fence = v.fence /\ w.ttl = NoLease
      /\ w.bound = x /\ w.delay = 0 /\ w.occupies = FALSE
  BY <1>1 DEF NodeView
<1> QED BY <1>2 DEF r

\* A lease holder's node is running, unsettled and has been claimed.
LEMMA LeaseHeld ==
    ASSUME TypeOK, LeaseShape, NEW o, NEW n \in Nodes, NEW f, LiveLease(nodes[n], o, f)
    PROVE  /\ nodes[n] \in NodeView /\ nodes[n].status = "RUNNING"
           /\ nodes[n].status \notin Terminal /\ nodes[n].fence > 0
BY DEF TypeOK, LeaseShape, NodeShape, LiveLease, Terminal

\* A bound node that is not settled has been claimed.
LEMMA BoundHeld ==
    ASSUME TypeOK, LeaseShape, NEW n \in Nodes, NEW f, BoundAt(n, f)
    PROVE  /\ nodes[n] \in NodeView /\ nodes[n].bound
           /\ nodes[n].status \notin Terminal /\ nodes[n].status # Absent /\ nodes[n].fence > 0
BY DEF TypeOK, LeaseShape, NodeShape, BoundAt, Terminal, Absent

\* Results are added for nodes that succeed in the same step, with their
\* expansions.
ResultsStep ==
    /\ results \subseteq results'
    /\ \A m \in results' \ results :
         /\ m \in Nodes
         /\ nodes[m].status \notin Terminal \cup {Absent}
         /\ nodes'[m].status = "SUCCEEDED"
         /\ \A k \in Expansion[m] : nodes[k].status = Absent /\ nodes'[k].status # Absent
         /\ results' = results \cup {m}

\* complete() of an unsettled node that was claimed.
LEMMA CompleteStep ==
    ASSUME TypeOK, LeaseShape, NEW n \in Nodes, nodes[n].status \notin Terminal,
           nodes[n].status # Absent, nodes[n].fence > 0, Complete(n)
    PROVE  (\A m \in Nodes : StepOf(m)) /\ ResultsStep
<1> DEFINE w == [Released(nodes[n], "SUCCEEDED", "none") EXCEPT !.bound = TRUE]
<1>0. nodes[n] \in NodeView /\ nodes'[n] = w /\ results' = results \cup {n}
  BY DEF TypeOK, Complete
<1>1. "SUCCEEDED" \in Status /\ "none" \in ErrorClass
  BY DEF Status, Terminal, ErrorClass
<1>2. /\ w.status = "SUCCEEDED" /\ w.owner = NoOwner /\ w.fence = nodes[n].fence
      /\ w.ttl = NoLease /\ w.bound = TRUE /\ w.delay = 0 /\ w.occupies = FALSE
  BY ZenonT(60), <1>0, <1>1, BoundReleasedFields
<1> HIDE DEF w
<1>3. StepOf(n)
  <2>1. NodeShape(nodes'[n])
    BY <1>0, <1>2 DEF NodeShape, Absent
  <2> QED BY <1>0, <1>2, <2>1 DEF StepOf, NodeView, Occupying, Absent
<1>4. ASSUME NEW m \in Nodes, m # n, m \in Expansion[n] PROVE StepOf(m)
  <2>1. nodes[m].status = Absent /\ nodes'[m] = FreshView(m, InitialStatus(m)) /\ nodes[m] \in NodeView
    BY <1>4 DEF Complete, TypeOK
  <2>2. nodes[m].fence = 0 /\ ~nodes[m].bound /\ nodes[m].status \notin Terminal
    BY <2>1 DEF LeaseShape, NodeShape, NodeView, Absent, Terminal
  <2>3. /\ nodes'[m].status = InitialStatus(m) /\ nodes'[m].owner = NoOwner
        /\ nodes'[m].fence = 0 /\ nodes'[m].ttl = NoLease /\ nodes'[m].bound = FALSE
        /\ nodes'[m].delay = 0 /\ nodes'[m].occupies = FALSE
    BY <2>1 DEF FreshView
  <2>4. InitialStatus(m) \in {"PENDING", "READY", "BLOCKED"}
    BY DEF InitialStatus
  <2>5. NodeShape(nodes'[m])
    BY <2>3, <2>4 DEF NodeShape, Absent
  <2>6. nodes'[m].status = "BLOCKED" => DependencyStatus(m, StatusOf(nodes')) = "BLOCKED"
    BY <2>3 DEF InitialStatus, DependencyStatus
  <2>7. \E k \in results' \ results : m \in Expansion[k]
    BY <1>0, <1>4 DEF Complete
  <2> QED BY <2>2, <2>3, <2>4, <2>5, <2>6, <2>7 DEF StepOf, Occupying, Absent
<1>5. ASSUME NEW m \in Nodes, m # n, m \notin Expansion[n] PROVE StepOf(m)
  <2>1. nodes'[m] = nodes[m]
    BY <1>5 DEF Complete
  <2> QED BY <2>1, KeptStep
<1>6. ResultsStep
  <2>1. /\ n \notin results /\ results' = results \cup {n} /\ Expansion[n] \subseteq Nodes
        /\ \A k \in Expansion[n] : nodes[k].status = Absent
    BY <1>0, DefinitionsAssumption DEF Complete, DefinitionsAssumption
  <2>2. ASSUME NEW k \in Expansion[n] PROVE nodes'[k].status # Absent
    <3>1. CASE k = n
      BY <1>0, <1>2, <3>1 DEF Absent
    <3>2. CASE k # n
      <4>1. nodes'[k] = FreshView(k, InitialStatus(k))
        BY <2>1, <3>2 DEF Complete
      <4>2. nodes'[k].status = InitialStatus(k)
        BY <4>1 DEF FreshView
      <4> QED BY <4>2 DEF InitialStatus, Absent
    <3> QED BY <3>1, <3>2
  <2>3. nodes'[n].status = "SUCCEEDED" /\ nodes[n].status \notin Terminal \cup {Absent}
    BY <1>0, <1>2
  <2> QED BY <2>1, <2>2, <2>3 DEF ResultsStep
<1> QED BY <1>3, <1>4, <1>5, <1>6

\* A step that takes an unsettled, claimed node off its worker and may record its
\* execution.
LEMMA ReleasedStep ==
    ASSUME TypeOK, LeaseShape, NEW n \in Nodes, nodes[n].status \notin Terminal,
           nodes[n].fence > 0, NEW s \in Status \ {"BLOCKED", "SUCCEEDED", "RUNNING", "WAITING", "PENDING"},
           NEW e \in ErrorClass, NEW x \in BOOLEAN, nodes[n].bound => x,
           UpdateNode(n, [Released(nodes[n], s, e) EXCEPT !.bound = x])
    PROVE  \A m \in Nodes : StepOf(m)
<1> DEFINE r == Released(nodes[n], s, e)
           w == [r EXCEPT !.bound = x]
<1>1. nodes[n] \in NodeView
  BY DEF TypeOK
<1>2. /\ r \in NodeView
      /\ r.status = s /\ r.owner = NoOwner /\ r.fence = nodes[n].fence /\ r.ttl = NoLease
      /\ r.delay = 0 /\ r.occupies = FALSE
  BY <1>1, ReleasedType, ReleasedFields
<1>3. UpdateNode(n, w)
  OBVIOUS
<1> HIDE DEF r
<1>5. /\ w \in NodeView
      /\ w.status = s /\ w.owner = NoOwner /\ w.fence = nodes[n].fence /\ w.ttl = NoLease
      /\ w.bound = x /\ w.delay = 0 /\ w.occupies = FALSE
  BY <1>2 DEF NodeView
<1> HIDE DEF w
<1>4. NodeShape(w)
  BY <1>1, <1>5 DEF NodeShape, Absent, Status, Terminal, Live
<1> QED BY <1>3, <1>4, <1>5, UpdateStep DEF Occupying, Absent, LeaseShape, NodeShape, Status, Terminal, Live

\* Recording "an execution if there was one or the caller names one".
LEMMA MaybeBound ==
    ASSUME NEW r, NEW v, NEW x \in BOOLEAN
    PROVE  \E y \in BOOLEAN : /\ v.bound => y
                              /\ [r EXCEPT !.bound = v.bound \/ x] = [r EXCEPT !.bound = y]
<1>1. CASE v.bound \/ x
  <2>1. (v.bound \/ x) = TRUE
    BY <1>1
  <2> QED BY <2>1
<1>2. CASE ~(v.bound \/ x)
  <2>1. (v.bound \/ x) = FALSE
    BY <1>2
  <2> QED BY <1>2, <2>1
<1> QED BY <1>1, <1>2

\* fail() of an unsettled node that was claimed.
LEMMA FailStep ==
    ASSUME TypeOK, LeaseShape, NEW n \in Nodes, nodes[n].status \notin Terminal,
           nodes[n].fence > 0, NEW x \in BOOLEAN, Fail(n, x)
    PROVE  \A m \in Nodes : StepOf(m)
<1>1. PICK y \in BOOLEAN :
         /\ nodes[n].bound => y
         /\ [Released(nodes[n], "FAILED", "failed") EXCEPT !.bound = nodes[n].bound \/ x]
              = [Released(nodes[n], "FAILED", "failed") EXCEPT !.bound = y]
  BY MaybeBound, Zenon
<1>2. UpdateNode(n, [Released(nodes[n], "FAILED", "failed") EXCEPT !.bound = y])
  BY <1>1, Zenon DEF Fail
<1>3. "FAILED" \in Status \ {"BLOCKED", "SUCCEEDED", "RUNNING", "WAITING", "PENDING"}
      /\ "failed" \in ErrorClass
  BY DEF Status, Terminal, ErrorClass
<1> QED BY <1>1, <1>2, <1>3, ReleasedStep

\* The view of a bound node that waits for its next attempt.
LEMMA RetryView ==
    ASSUME NEW v \in NodeView, v.bound, v.fence > 0, NEW d \in 0..MaxDelay
    PROVE  LET w == [Released(v, "READY", "none") EXCEPT !.delay = d] IN
           /\ w \in NodeView
           /\ w.status = "READY" /\ w.owner = NoOwner /\ w.fence = v.fence
           /\ w.bound /\ NodeShape(w)
<1> DEFINE r == Released(v, "READY", "none")
           w == [r EXCEPT !.delay = d]
<1>1. "READY" \in Status /\ "none" \in ErrorClass
  BY DEF Status, Live, ErrorClass
<1>2. /\ r \in NodeView
      /\ r.status = "READY" /\ r.owner = NoOwner /\ r.fence = v.fence /\ r.ttl = NoLease
      /\ r.bound = v.bound /\ r.occupies = FALSE
  BY <1>1, ReleasedType, ReleasedFields
<1> HIDE DEF r
<1>3. /\ w \in NodeView
      /\ w.status = "READY" /\ w.owner = NoOwner /\ w.fence = v.fence /\ w.ttl = NoLease
      /\ w.bound = v.bound /\ w.occupies = FALSE
  BY <1>2 DEF NodeView
<1> HIDE DEF w
<1>4. NodeShape(w)
  BY <1>3 DEF NodeShape, Absent
<1>5. w \in NodeView /\ w.status = "READY" /\ w.owner = NoOwner /\ w.fence = v.fence
      /\ w.bound /\ NodeShape(w)
  BY <1>3, <1>4
<1> QED BY <1>5 DEF w, r

\* A step that sends an unsettled bound node back for its next attempt.
LEMMA RetryStep ==
    ASSUME TypeOK, LeaseShape, NEW n \in Nodes, nodes[n].status \notin Terminal,
           nodes[n].bound, NEW d \in 0..MaxDelay,
           UpdateNode(n, [Released(nodes[n], "READY", "none") EXCEPT !.delay = d])
    PROVE  \A m \in Nodes : StepOf(m)
<1> DEFINE w == [Released(nodes[n], "READY", "none") EXCEPT !.delay = d]
<1>1. nodes[n] \in NodeView /\ nodes[n].fence > 0
  BY DEF TypeOK, LeaseShape, NodeShape
<1>2. /\ w \in NodeView
      /\ w.status = "READY" /\ w.owner = NoOwner /\ w.fence = nodes[n].fence
      /\ w.bound /\ NodeShape(w)
  BY <1>1, RetryView
<1>3. UpdateNode(n, w)
  OBVIOUS
<1> HIDE DEF w
<1> QED BY <1>2, <1>3, UpdateStep DEF Occupying, Absent, LeaseShape, NodeShape

\* Operations of a lease holder.
LEMMA LeaseOperationStep ==
    ASSUME TypeOK, LeaseShape, NEW o \in Owners, NEW n \in Nodes, NEW f \in 1..MaxFence,
           LeaseOperation(o, n, f)
    PROVE  (\A m \in Nodes : StepOf(m)) /\ ResultsStep
<1> DEFINE Goal == (\A m \in Nodes : StepOf(m)) /\ ResultsStep
<1>1. CASE Renew(o, n, f)
  <2> DEFINE w == [nodes[n] EXCEPT !.ttl = LeaseSeconds]
  <2>1. nodes[n] \in NodeView /\ nodes[n].status = "RUNNING" /\ nodes[n].status \notin Terminal
    BY <1>1, LeaseHeld DEF Renew
  <2>2. /\ w \in NodeView
        /\ w.status = "RUNNING" /\ w.owner = nodes[n].owner /\ w.fence = nodes[n].fence
        /\ w.ttl = LeaseSeconds /\ w.bound = nodes[n].bound /\ w.delay = nodes[n].delay
        /\ w.occupies = nodes[n].occupies
    BY <2>1, Ranges DEF NodeView
  <2>3. UpdateNode(n, w)
    BY <1>1 DEF Renew
  <2> HIDE DEF w
  <2>4. NodeShape(nodes[n]) /\ LeaseSeconds # NoLease
    BY LimitsAssumption DEF LimitsAssumption, LeaseShape, NoLease
  <2>5. NodeShape(w)
    BY <2>1, <2>2, <2>4 DEF NodeShape, NodeView, Absent
  <2>6. \A m \in Nodes : StepOf(m)
    BY <1>1, <2>1, <2>2, <2>3, <2>5, UpdateStep DEF Occupying, Absent, Renew, LiveLease
  <2> QED BY <1>1, <2>6 DEF Renew, ResultsStep
<1>2. CASE PublishPreparedInput(o, n, f)
  <2>1. \A m \in Nodes : StepOf(m)
    BY <1>2, KeptStep DEF PublishPreparedInput
  <2> QED BY <1>2, <2>1 DEF PublishPreparedInput, ResultsStep
<1>3. CASE BindExecution(o, n, f)
  <2> DEFINE w == [nodes[n] EXCEPT !.bound = TRUE]
  <2>1. /\ nodes[n] \in NodeView /\ nodes[n].status = "RUNNING"
        /\ nodes[n].status \notin Terminal /\ nodes[n].fence > 0
    BY <1>3, LeaseHeld DEF BindExecution
  <2>2. /\ w \in NodeView
        /\ w.status = "RUNNING" /\ w.owner = nodes[n].owner /\ w.fence = nodes[n].fence
        /\ w.ttl = nodes[n].ttl /\ w.bound = TRUE /\ w.delay = nodes[n].delay
        /\ w.occupies = nodes[n].occupies
    BY <2>1 DEF NodeView
  <2>3. UpdateNode(n, w)
    BY <1>3 DEF BindExecution
  <2> HIDE DEF w
  <2>4. NodeShape(nodes[n])
    BY DEF LeaseShape
  <2>5. NodeShape(w)
    BY <2>1, <2>2, <2>4 DEF NodeShape, NodeView, Absent
  <2>6. \A m \in Nodes : StepOf(m)
    BY <2>1, <2>2, <2>3, <2>5, UpdateStep DEF Occupying, Absent
  <2> QED BY <1>3, <2>6 DEF BindExecution, ResultsStep
<1>4. ASSUME NEW occupies \in BOOLEAN, HandoffExecution(o, n, f, occupies)
      PROVE  Goal
  <2> DEFINE r == Released(nodes[n], "WAITING", "none")
             w == [r EXCEPT !.bound = TRUE, !.occupies = occupies]
  <2>1. /\ nodes[n] \in NodeView /\ nodes[n].status \notin Terminal /\ nodes[n].fence > 0
    BY <1>4, LeaseHeld DEF HandoffExecution
  <2>2. "WAITING" \in Status /\ "none" \in ErrorClass
    BY DEF Status, Live, ErrorClass
  <2>3. /\ r \in NodeView
        /\ r.status = "WAITING" /\ r.owner = NoOwner /\ r.fence = nodes[n].fence
        /\ r.ttl = NoLease /\ r.delay = 0
    <3>1. r \in NodeView
      BY <2>1, <2>2, ReleasedType
    <3>2. /\ r.status = "WAITING" /\ r.owner = NoOwner /\ r.fence = nodes[n].fence
          /\ r.ttl = NoLease /\ r.delay = 0
      BY <2>1 DEF Released, NodeView
    <3> QED BY <3>1, <3>2
  <2>4. UpdateNode(n, w)
    BY <1>4 DEF HandoffExecution
  <2> HIDE DEF r
  <2>5. /\ w \in NodeView
        /\ w.status = "WAITING" /\ w.owner = NoOwner /\ w.fence = nodes[n].fence
        /\ w.ttl = NoLease /\ w.bound = TRUE /\ w.delay = 0
    BY <2>3 DEF NodeView
  <2> HIDE DEF w
  <2>6. NodeShape(w)
    BY <2>1, <2>5 DEF NodeShape, Absent
  <2>7. \A m \in Nodes : StepOf(m)
    BY <1>4, <2>1, <2>4, <2>5, <2>6, UpdateStep DEF Occupying, Absent, HandoffExecution, LiveLease
  <2> QED BY <1>4, <2>7 DEF HandoffExecution, ResultsStep
<1>5. ASSUME NEW d \in 0..MaxDelay, RequeueRetry(o, n, f, d)
      PROVE  Goal
  <2>1. /\ nodes[n] \in NodeView /\ nodes[n].status \notin Terminal /\ nodes[n].fence > 0
    BY <1>5, LeaseHeld DEF RequeueRetry
  <2>2. \A m \in Nodes : StepOf(m)
    BY <1>5, <2>1, RetryStep DEF RequeueRetry
  <2> QED BY <1>5, <2>2 DEF RequeueRetry, ResultsStep
<1>6. ASSUME NEW e \in {"projection", "unknown"}, NEW x \in BOOLEAN,
             MarkRecoveryRequired(o, n, f, e, x)
      PROVE  Goal
  <2>1. nodes[n].status \notin Terminal /\ nodes[n].fence > 0
    BY <1>6, LeaseHeld DEF MarkRecoveryRequired
  <2>2. PICK y \in BOOLEAN :
           /\ nodes[n].bound => y
           /\ [Released(nodes[n], "RECOVERY_REQUIRED", e) EXCEPT !.bound = nodes[n].bound \/ x]
                = [Released(nodes[n], "RECOVERY_REQUIRED", e) EXCEPT !.bound = y]
    BY MaybeBound, Zenon
  <2>3. UpdateNode(n, [Released(nodes[n], "RECOVERY_REQUIRED", e) EXCEPT !.bound = y])
    BY <1>6, <2>2, Zenon DEF MarkRecoveryRequired
  <2>4. "RECOVERY_REQUIRED" \in Status \ {"BLOCKED", "SUCCEEDED", "RUNNING", "WAITING", "PENDING"}
        /\ e \in ErrorClass
    BY DEF Status, Live, ErrorClass
  <2>5. \A m \in Nodes : StepOf(m)
    BY <2>1, <2>2, <2>3, <2>4, ReleasedStep
  <2> QED BY <1>6, <2>5 DEF MarkRecoveryRequired, ResultsStep
<1>7. CASE CompleteLease(o, n, f)
  <2>1. nodes[n].status \notin Terminal /\ nodes[n].status # Absent /\ nodes[n].fence > 0
    BY <1>7, LeaseHeld DEF CompleteLease, Absent
  <2> QED BY <1>7, <2>1, CompleteStep DEF CompleteLease
<1>8. ASSUME NEW x \in BOOLEAN, FailLease(o, n, f, x)
      PROVE  Goal
  <2>1. nodes[n].status \notin Terminal /\ nodes[n].fence > 0
    BY <1>8, LeaseHeld DEF FailLease
  <2>2. \A m \in Nodes : StepOf(m)
    BY <1>8, <2>1, FailStep DEF FailLease
  <2> QED BY <1>8, <2>2 DEF FailLease, Fail, ResultsStep
<1> QED BY <1>1, <1>2, <1>3, <1>4, <1>5, <1>6, <1>7, <1>8 DEF LeaseOperation

\* Replacing one unsettled node of the stored ones is an adjustment.
LEMMA OneAdjusted ==
    ASSUME TypeOK, LeaseShape, NEW n \in Nodes, nodes[n].status \notin Terminal \cup {Absent},
           NEW w \in NodeView, w.status \notin {"BLOCKED", "SUCCEEDED", "WAITING", "RUNNING", Absent},
           w.fence = nodes[n].fence, w.owner = NoOwner, nodes[n].bound => w.bound, NodeShape(w)
    PROVE  /\ [nodes EXCEPT ![n] = w] \in [Nodes -> NodeView]
           /\ Adjusted([nodes EXCEPT ![n] = w])
<1>1. [nodes EXCEPT ![n] = w] \in [Nodes -> NodeView]
  BY DEF TypeOK
<1> DEFINE ns == [nodes EXCEPT ![n] = w]
<1>2. ns[n] = w /\ \A m \in Nodes : m # n => ns[m] = nodes[m]
  BY DEF TypeOK
<1> HIDE DEF ns
<1>3. Adjusted(ns)
  BY <1>2 DEF Adjusted, LeaseShape, Occupying
<1> QED BY <1>1, <1>3 DEF ns

\* Operations that go by execution and fence.
LEMMA BoundOperationStep ==
    ASSUME TypeOK, LeaseShape, StartedAfterDependencies, NEW n \in Nodes,
           NEW f \in 1..MaxFence, BoundOperation(n, f)
    PROVE  (\A m \in Nodes : StepOf(m)) /\ ResultsStep
<1> DEFINE Goal == (\A m \in Nodes : StepOf(m)) /\ ResultsStep
<1>0. nodes[n] \in NodeView /\ (nodes[n].bound => nodes[n].fence > 0)
  BY DEF TypeOK, LeaseShape, NodeShape
<1>1. ASSUME NEW d \in 0..MaxDelay, RequeueWaitingRetry(n, f, d)
      PROVE  Goal
  <2>1. nodes[n].status \notin Terminal /\ nodes[n].bound
    BY <1>1 DEF RequeueWaitingRetry, Terminal
  <2>2. \A m \in Nodes : StepOf(m)
    BY <1>1, <2>1, RetryStep DEF RequeueWaitingRetry
  <2> QED BY <1>1, <2>2 DEF RequeueWaitingRetry, ResultsStep
<1>2. ASSUME NEW d \in 0..MaxDelay, RequeueRecovery(n, f, d)
      PROVE  Goal
  <2> DEFINE w == [Released(nodes[n], "READY", "none") EXCEPT !.delay = d]
             ns == [nodes EXCEPT ![n] = w]
  <2>1. nodes[n].status \notin Terminal /\ nodes[n].bound
    BY <1>2 DEF RequeueRecovery, Terminal
  <2>2. /\ w \in NodeView
        /\ w.status = "READY" /\ w.owner = NoOwner /\ w.fence = nodes[n].fence
        /\ w.bound /\ NodeShape(w)
    BY <1>0, <2>1, RetryView
  <2>3. ReconcileTo(ns, FALSE)
    BY <1>2 DEF RequeueRecovery
  <2> HIDE DEF w
  <2>4. ns \in [Nodes -> NodeView] /\ Adjusted(ns)
    BY <1>2, <2>1, <2>2, OneAdjusted DEF Absent, RequeueRecovery
  <2> HIDE DEF ns
  <2>5. \A m \in Nodes : StepOf(m)
    BY <2>3, <2>4, ReconcileStep
  <2> QED BY <1>2, <2>5 DEF RequeueRecovery, ResultsStep
<1>3. ASSUME nodes[n].status \notin Terminal, nodes[n].bound,
             UpdateNode(n, Released(nodes[n], "RECOVERY_REQUIRED", "unknown"))
      PROVE  \A m \in Nodes : StepOf(m)
  <2> DEFINE w == Released(nodes[n], "RECOVERY_REQUIRED", "unknown")
  <2>1. "RECOVERY_REQUIRED" \in Status /\ "unknown" \in ErrorClass
    BY DEF Status, Live, ErrorClass
  <2>2. /\ w \in NodeView
        /\ w.status = "RECOVERY_REQUIRED" /\ w.owner = NoOwner /\ w.fence = nodes[n].fence
        /\ w.ttl = NoLease /\ w.bound = nodes[n].bound /\ w.delay = 0 /\ w.occupies = FALSE
    <3>1. w \in NodeView
      BY <1>0, <2>1, ReleasedType
    <3>2. /\ w.status = "RECOVERY_REQUIRED" /\ w.owner = NoOwner /\ w.fence = nodes[n].fence
          /\ w.ttl = NoLease /\ w.bound = nodes[n].bound /\ w.delay = 0 /\ w.occupies = FALSE
      BY <1>0 DEF Released, NodeView
    <3> QED BY <3>1, <3>2
  <2>3. UpdateNode(n, w)
    BY <1>3
  <2> HIDE DEF w
  <2>4. NodeShape(w)
    BY <1>0, <1>3, <2>2 DEF NodeShape, Absent
  <2> QED BY <1>0, <1>3, <2>2, <2>3, <2>4, UpdateStep DEF Occupying, Absent, LeaseShape, NodeShape
<1>4. CASE MarkBoundRecoveryRequired(n, f)
  <2>1. \A m \in Nodes : StepOf(m)
    BY <1>3, <1>4 DEF MarkBoundRecoveryRequired, Terminal
  <2> QED BY <1>4, <2>1 DEF MarkBoundRecoveryRequired, ResultsStep
<1>5. CASE CompleteBound(n, f)
  <2>1. nodes[n].status \notin Terminal /\ nodes[n].status # Absent /\ nodes[n].fence > 0
    BY <1>5, BoundHeld DEF CompleteBound
  <2> QED BY <1>5, <2>1, CompleteStep DEF CompleteBound
<1>6. CASE FailBound(n, f)
  <2>1. nodes[n].status \notin Terminal /\ nodes[n].fence > 0
    BY <1>6, BoundHeld DEF FailBound
  <2>2. \A m \in Nodes : StepOf(m)
    BY <1>6, <2>1, FailStep DEF FailBound
  <2> QED BY <1>6, <2>2 DEF FailBound, Fail, ResultsStep
<1>7. CASE CancelNode(n, f)
  <2> DEFINE w == Released(nodes[n], "CANCELLED", "none")
             ns == [nodes EXCEPT ![n] = w]
  <2>1. nodes[n].status \notin Terminal /\ nodes[n].bound
    BY <1>7, BoundHeld DEF CancelNode
  <2>2. "CANCELLED" \in Status /\ "none" \in ErrorClass
    BY DEF Status, Terminal, ErrorClass
  <2>3. /\ w \in NodeView
        /\ w.status = "CANCELLED" /\ w.owner = NoOwner /\ w.fence = nodes[n].fence
        /\ w.ttl = NoLease /\ w.bound = nodes[n].bound /\ w.delay = 0 /\ w.occupies = FALSE
    <3>1. w \in NodeView
      BY <1>0, <2>2, ReleasedType
    <3>2. /\ w.status = "CANCELLED" /\ w.owner = NoOwner /\ w.fence = nodes[n].fence
          /\ w.ttl = NoLease /\ w.bound = nodes[n].bound /\ w.delay = 0 /\ w.occupies = FALSE
      BY <1>0 DEF Released, NodeView
    <3> QED BY <3>1, <3>2
  <2>4. ReconcileTo(ns, FALSE)
    BY <1>7 DEF CancelNode
  <2> HIDE DEF w
  <2>5. NodeShape(w)
    BY <1>0, <2>1, <2>3 DEF NodeShape, Absent
  <2>6. ns \in [Nodes -> NodeView] /\ Adjusted(ns)
    BY <1>7, BoundHeld, <2>1, <2>3, <2>5, OneAdjusted DEF Absent, CancelNode
  <2> HIDE DEF ns
  <2>7. \A m \in Nodes : StepOf(m)
    BY <2>4, <2>6, ReconcileStep
  <2> QED BY <1>7, <2>7 DEF CancelNode, ResultsStep
<1>8. CASE CancelNodeUnconfirmed(n, f)
  <2>1. nodes[n].status \notin Terminal /\ nodes[n].bound
    BY <1>8, BoundHeld DEF CancelNodeUnconfirmed
  <2>2. \A m \in Nodes : StepOf(m)
    BY <1>3, <1>8, <2>1 DEF CancelNodeUnconfirmed
  <2> QED BY <1>8, <2>2 DEF CancelNodeUnconfirmed, ResultsStep
<1> QED BY <1>1, <1>2, <1>4, <1>5, <1>6, <1>7, <1>8 DEF BoundOperation

\* A step that writes an unsettled node, seen at that node.
LEMMA NodeStep ==
    ASSUME TypeOK, NEW m \in Nodes, NEW w \in NodeView, nodes'[m] = w,
           nodes[m].status \notin Terminal \cup {Absent},
           w.status \notin {"BLOCKED", "SUCCEEDED", Absent},
           w.fence = nodes[m].fence, w.owner \in {NoOwner, nodes[m].owner},
           nodes[m].bound => w.bound, NodeShape(w), Occupying(w) => Occupying(nodes[m])
    PROVE  StepOf(m)
BY DEF TypeOK, NodeView, StepOf

\* What recover_graph makes of a node before it reconciles.
LEMMA RecoveredFields ==
    ASSUME NEW v \in NodeView, NodeShape(v)
    PROVE  /\ Recovered(v) \in NodeView
           /\ v.status \in Terminal => Recovered(v) = v
           /\ Recovered(v).fence = v.fence
           /\ Recovered(v).owner \in {NoOwner, v.owner}
           /\ v.bound => Recovered(v).bound
           /\ Recovered(v).status = "BLOCKED" => v.status = "BLOCKED"
           /\ Recovered(v).status = "SUCCEEDED" => v.status = "SUCCEEDED"
           /\ Recovered(v).status = Absent <=> v.status = Absent
           /\ Occupying(Recovered(v)) => Occupying(v)
           /\ NodeShape(Recovered(v))
<1>1. CASE v.status = "RECOVERY_REQUIRED" /\ ~(v.error = "unbound" /\ ~v.bound)
  <2> DEFINE s == IF v.bound THEN "READY" ELSE "PENDING"
             r == Released(v, s, "none")
             d == IF v.bound THEN v.delay ELSE 0
             w == [r EXCEPT !.delay = d]
  <2>1. s \in Status /\ "none" \in ErrorClass /\ s \in {"READY", "PENDING"} /\ d \in 0..MaxDelay
    BY Ranges DEF Status, Live, ErrorClass, NodeView
  <2>9. s = "PENDING" => ~v.bound
    OBVIOUS
  <2>2. r \in NodeView
    BY <2>1, ReleasedType
  <2>3. /\ r.status = s /\ r.owner = NoOwner /\ r.fence = v.fence /\ r.ttl = NoLease
        /\ r.bound = v.bound /\ r.occupies = FALSE
    BY DEF Released, NodeView
  <2>4. Recovered(v) = w
    BY <1>1 DEF Recovered
  <2>5. d = 0
    BY <1>1, <2>1, LimitsAssumption DEF LimitsAssumption, NodeShape, NodeView
  <2> HIDE DEF r, d, s
  <2>6. /\ w \in NodeView
        /\ w.status = s /\ w.owner = NoOwner /\ w.fence = v.fence /\ w.ttl = NoLease
        /\ w.bound = v.bound /\ w.occupies = FALSE /\ w.delay = d
    BY <2>1, <2>2, <2>3 DEF NodeView
  <2> HIDE DEF w
  <2>7. NodeShape(w)
    BY <2>1, <2>5, <2>6, <2>9 DEF NodeShape, Absent
  <2>8. v.status \notin Terminal
    BY <1>1 DEF Terminal
  <2> QED BY <1>1, <2>1, <2>4, <2>6, <2>7, <2>8 DEF Occupying, Absent
<1>2. CASE ~(v.status = "RECOVERY_REQUIRED" /\ ~(v.error = "unbound" /\ ~v.bound))
  <2>1. Recovered(v) = v
    BY <1>2 DEF Recovered
  <2> QED BY <2>1
<1> QED BY <1>1, <1>2

\* What cancel_graph makes of a node.
LEMMA CancelledFields ==
    ASSUME NEW v \in NodeView, NodeShape(v), CancelledView(v) # v
    PROVE  LET w == CancelledView(v) IN
           /\ w \in NodeView
           /\ v.status \notin Terminal \cup {Absent}
           /\ w.status \in {"CANCELLED", "RECOVERY_REQUIRED"}
           /\ w.fence = v.fence /\ w.owner = NoOwner /\ w.bound = v.bound /\ NodeShape(w)
<1>1. CASE v.status = "RECOVERY_REQUIRED" /\ ~v.bound /\ v.error = "projection"
  <2> DEFINE w == [v EXCEPT !.status = "CANCELLED", !.error = "none"]
  <2>1. CancelledView(v) = w
    BY <1>1 DEF CancelledView
  <2>2. w \in NodeView
    BY DEF NodeView, Status, Terminal, ErrorClass
  <2>3. /\ w.status = "CANCELLED" /\ w.fence = v.fence /\ w.owner = v.owner /\ w.ttl = v.ttl
        /\ w.bound = v.bound /\ w.delay = v.delay /\ w.occupies = v.occupies
    BY DEF NodeView
  <2> HIDE DEF w
  <2>4. NodeShape(w) /\ w.owner = NoOwner
    BY <1>1, <2>3 DEF NodeShape, NodeView, Absent
  <2> QED BY <1>1, <2>1, <2>2, <2>3, <2>4 DEF Terminal, Absent
<1>2. ASSUME v.status \in {"PENDING", "READY"}, ~v.bound,
             NEW s \in {"CANCELLED", "RECOVERY_REQUIRED"}, NEW e \in ErrorClass,
             CancelledView(v) = Released(v, s, e)
      PROVE  LET w == CancelledView(v) IN
             /\ w \in NodeView
             /\ v.status \notin Terminal \cup {Absent}
             /\ w.status \in {"CANCELLED", "RECOVERY_REQUIRED"}
             /\ w.fence = v.fence /\ w.owner = NoOwner /\ w.bound = v.bound /\ NodeShape(w)
  <2> DEFINE w == Released(v, s, e)
  <2>0. s \in Status
    BY DEF Status, Terminal, Live
  <2>1. w \in NodeView
    BY <2>0, ReleasedType
  <2>2. /\ w.status = s /\ w.fence = v.fence /\ w.owner = NoOwner /\ w.ttl = NoLease
        /\ w.bound = v.bound /\ w.delay = 0 /\ w.occupies = FALSE
    BY DEF Released, NodeView
  <2>3. CancelledView(v) = w
    BY <1>2
  <2> HIDE DEF w
  <2>4. NodeShape(w)
    BY <1>2, <2>2 DEF NodeShape, Absent
  <2> QED BY <1>2, <2>1, <2>2, <2>3, <2>4 DEF Terminal, Absent
<1>3. v.error \in ErrorClass /\ "unbound" \in ErrorClass
  BY DEF NodeView, ErrorClass
<1>4. CASE v.status \in {"PENDING", "READY"} /\ ~v.bound /\ v.fence = 0
  <2>1. CancelledView(v) = Released(v, "CANCELLED", v.error)
    BY <1>4 DEF CancelledView
  <2> QED BY <1>2, <1>3, <1>4, <2>1
<1>5. CASE v.status \in {"PENDING", "READY"} /\ ~v.bound /\ v.fence > 0
  <2>1. v.fence # 0
    BY <1>5
  <2>2. CancelledView(v) = Released(v, "RECOVERY_REQUIRED", "unbound")
    BY <1>5, <2>1 DEF CancelledView
  <2> QED BY <1>2, <1>3, <1>5, <2>2
<1> QED BY <1>1, <1>4, <1>5 DEF CancelledView

\* Scheduling, recovery and cancellation of the graph.
LEMMA GraphOperationStep ==
    ASSUME TypeOK, LeaseShape, StartedAfterDependencies, GraphOperation
    PROVE  (\A m \in Nodes : StepOf(m)) /\ ResultsStep
<1>1. CASE SchedulerState
  <2>1. nodes \in [Nodes -> NodeView] /\ Adjusted(nodes)
    BY DEF TypeOK, LeaseShape, Adjusted
  <2>2. \A m \in Nodes : StepOf(m)
    BY <1>1, <2>1, ReconcileStep DEF SchedulerState
  <2> QED BY <1>1, <2>2 DEF SchedulerState, ResultsStep
<1>2. CASE RecoverGraph
  <2> DEFINE ns == [n \in Nodes |-> Recovered(nodes[n])]
  <2>1. \A m \in Nodes : nodes[m] \in NodeView /\ NodeShape(nodes[m])
    BY DEF TypeOK, LeaseShape
  <2>2. ns \in [Nodes -> NodeView]
    BY <2>1, RecoveredFields
  <2>3. Adjusted(ns)
    BY <2>1, RecoveredFields DEF Adjusted
  <2>4. ReconcileTo(ns, FALSE)
    BY <1>2 DEF RecoverGraph
  <2> HIDE DEF ns
  <2>5. \A m \in Nodes : StepOf(m)
    BY <2>2, <2>3, <2>4, ReconcileStep
  <2> QED BY <1>2, <2>5 DEF RecoverGraph, ResultsStep
<1>3. CASE CancelGraph
  <2>1. ASSUME NEW m \in Nodes PROVE StepOf(m)
    <3>1. nodes'[m] = CancelledView(nodes[m]) /\ nodes[m] \in NodeView /\ NodeShape(nodes[m])
      BY <1>3 DEF CancelGraph, TypeOK, LeaseShape
    <3>2. CASE CancelledView(nodes[m]) = nodes[m]
      BY <3>1, <3>2, KeptStep
    <3>3. CASE CancelledView(nodes[m]) # nodes[m]
      <4> DEFINE w == CancelledView(nodes[m])
      <4>1. /\ w \in NodeView
            /\ nodes[m].status \notin Terminal \cup {Absent}
            /\ w.status \in {"CANCELLED", "RECOVERY_REQUIRED"}
            /\ w.fence = nodes[m].fence /\ w.owner = NoOwner /\ w.bound = nodes[m].bound
            /\ NodeShape(w)
        BY <3>1, <3>3, CancelledFields
      <4>2. nodes'[m] = w
        BY <3>1
      <4> HIDE DEF w
      <4> QED BY <4>1, <4>2, NodeStep DEF Occupying, Absent
    <3> QED BY <3>2, <3>3
  <2> QED BY <1>3, <2>1 DEF CancelGraph, ResultsStep
<1>4. ASSUME NEW s \in Nodes \cup {Graph}, RegisterCancelRequest(s) \/ SettleCancelRequest(s)
      PROVE  (\A m \in Nodes : StepOf(m)) /\ ResultsStep
  <2>1. nodes' = nodes /\ results' = results
    BY <1>4 DEF RegisterCancelRequest, SettleCancelRequest
  <2> QED BY <2>1, KeptStep DEF ResultsStep
<1> QED BY <1>1, <1>2, <1>3, <1>4 DEF GraphOperation

\* A claim: the only step that raises a fence, of a node whose dependencies are
\* satisfied.
LEMMA ClaimStep ==
    ASSUME TypeOK, LeaseShape, NEW o \in Owners, NEW n \in Nodes, Claim(o, n)
    PROVE  (\A m \in Nodes : StepOf(m)) /\ ResultsStep
<1> DEFINE w == [nodes[n] EXCEPT !.status = "RUNNING", !.owner = o, !.fence = nodes[n].fence + 1,
                                 !.ttl = LeaseSeconds, !.delay = 0, !.occupies = FALSE]
<1>1. nodes[n] \in NodeView /\ nodes[n].fence \in Nat
  BY LimitsAssumption DEF LimitsAssumption, TypeOK, NodeView
<1>2. /\ w.status = "RUNNING" /\ w.owner = o /\ w.fence = nodes[n].fence + 1
      /\ w.ttl = LeaseSeconds /\ w.bound = nodes[n].bound /\ w.delay = 0 /\ w.occupies = FALSE
  BY <1>1 DEF NodeView
<1>3. nodes'[n] = w /\ \A m \in Nodes : m # n => nodes'[m] = nodes[m]
  BY DEF Claim, UpdateNode, TypeOK
<1> HIDE DEF w
<1>4. o # NoOwner /\ LeaseSeconds # NoLease
  BY OwnersAssumption, LimitsAssumption DEF OwnersAssumption, LimitsAssumption, NoLease
<1>5. NodeShape(nodes'[n])
  BY <1>1, <1>2, <1>3, <1>4 DEF NodeShape, Absent
<1>6. nodes[n].status \notin Terminal \cup {Absent} /\ DependencyStatus(n, StatusOf(nodes)) = "READY"
  BY DEF Claim, Claimable, Terminal, Absent
<1>7. StepOf(n)
  BY <1>1, <1>2, <1>3, <1>5, <1>6 DEF StepOf, Absent
<1>8. \A m \in Nodes : StepOf(m)
  BY <1>3, <1>7, KeptStep
<1> QED BY <1>8 DEF Claim, ResultsStep

\* Time: deadlines and delays run down, and nothing else.
LEMMA TickStep ==
    ASSUME TypeOK, LeaseShape, Tick
    PROVE  (\A m \in Nodes : StepOf(m)) /\ ResultsStep
<1>1. ASSUME NEW m \in Nodes PROVE StepOf(m)
  <2> DEFINE v == nodes[m]
             t == IF v.ttl > 0 THEN v.ttl - 1 ELSE v.ttl
             d == IF v.delay > 0 THEN v.delay - 1 ELSE v.delay
             w == [v EXCEPT !.ttl = t, !.delay = d]
  <2>1. nodes'[m] = w
    BY DEF Tick
  <2>2. v \in NodeView /\ NodeShape(v)
    BY DEF TypeOK, LeaseShape
  <2>3. /\ t \in Int /\ d \in Int /\ (t # NoLease <=> v.ttl # NoLease) /\ (d > 0 => v.delay > 0)
        /\ v.ttl = NoLease => t = v.ttl
        /\ t > 0 => v.ttl > 0
        /\ v.delay = 0 => d = v.delay
        /\ v.delay \in Nat
    BY <2>2, LimitsAssumption DEF LimitsAssumption, NodeView, NoLease
  <2> HIDE DEF t, d, v
  <2>4. /\ w.status = v.status /\ w.fence = v.fence /\ w.owner = v.owner /\ w.ttl = t
        /\ w.bound = v.bound /\ w.delay = d /\ w.occupies = v.occupies
    BY <2>2 DEF NodeView
  <2>5. CASE v.status \in Terminal
    <3>1. v.ttl = NoLease /\ v.delay = 0
      BY <2>2, <2>3, <2>5 DEF NodeShape, Terminal
    <3>2. t = v.ttl /\ d = v.delay
      BY <2>3, <3>1
    <3>3. w = v
      BY <2>2, <3>2 DEF NodeView
    <3> QED BY <2>1, <3>3, KeptStep DEF v
  <2>6. CASE v.status \notin Terminal
    <3> HIDE DEF w
    <3>1. NodeShape(w)
      BY <2>2, <2>3, <2>4 DEF NodeShape
    <3>2. v.fence \in Nat
      BY <2>2, LimitsAssumption DEF LimitsAssumption, NodeView
    <3> QED BY <2>1, <2>2, <2>3, <2>4, <2>6, <3>1, <3>2 DEF StepOf, v, Terminal, Occupying
  <2> QED BY <2>5, <2>6
<1> QED BY <1>1 DEF Tick, ResultsStep

\* Every step of the repository, node by node.
LEMMA NextStep ==
    ASSUME TypeOK, LeaseShape, StartedAfterDependencies, [Next]_vars
    PROVE  (\A m \in Nodes : StepOf(m)) /\ ResultsStep
<1> DEFINE Goal == (\A m \in Nodes : StepOf(m)) /\ ResultsStep
<1>1. ASSUME NEW o \in Owners, NEW n \in Nodes, Claim(o, n) PROVE Goal
  BY <1>1, ClaimStep
<1>2. ASSUME NEW o \in Owners, NEW n \in Nodes, NEW f \in 1..MaxFence, LeaseOperation(o, n, f)
      PROVE  Goal
  BY <1>2, LeaseOperationStep
<1>3. ASSUME NEW n \in Nodes, NEW f \in 1..MaxFence, BoundOperation(n, f) PROVE Goal
  BY <1>3, BoundOperationStep
<1>4. ASSUME NEW n \in Nodes, CompleteWaiting(n) PROVE Goal
  <2>1. nodes[n].status \notin Terminal /\ nodes[n].status # Absent /\ nodes[n].fence > 0
    BY <1>4 DEF CompleteWaiting, Terminal, Absent, LeaseShape, NodeShape
  <2> QED BY <1>4, <2>1, CompleteStep DEF CompleteWaiting
<1>5. CASE GraphOperation
  BY <1>5, GraphOperationStep
<1>6. CASE Tick
  BY <1>6, TickStep
<1>7. CASE UNCHANGED vars
  BY <1>7, KeptStep DEF vars, ResultsStep
<1> QED BY <1>1, <1>2, <1>3, <1>4, <1>5, <1>6, <1>7 DEF Next

(***************************************************************************)
(* The theorems                                                            *)
(***************************************************************************)

\* The admitted graph satisfies the invariant.
LEMMA InitInv == Init => Inv
<1> SUFFICES ASSUME Init PROVE Inv
  OBVIOUS
<1> DEFINE s(n) == IF n \in Initial THEN InitialStatus(n) ELSE Absent
<1>1. TypeOK
  BY InitType
<1>2. \A n \in Nodes : nodes[n] = FreshView(n, s(n))
  BY DEF Init
<1>3. \A n \in Nodes : s(n) \in {"PENDING", "READY", "BLOCKED", Absent}
  BY DEF InitialStatus
<1> HIDE DEF s
<1>4. ASSUME NEW n \in Nodes
      PROVE  /\ nodes[n].status = s(n) /\ nodes[n].owner = NoOwner /\ nodes[n].fence = 0
             /\ nodes[n].ttl = NoLease /\ ~nodes[n].bound /\ nodes[n].delay = 0
             /\ ~nodes[n].occupies
  <2> DEFINE w == FreshView(n, s(n))
  <2>1. /\ w.status = s(n) /\ w.owner = NoOwner /\ w.fence = 0 /\ w.ttl = NoLease
        /\ w.bound = FALSE /\ w.delay = 0 /\ w.occupies = FALSE
    BY DEF FreshView
  <2>2. nodes[n] = w
    BY <1>2
  <2> HIDE DEF w
  <2> QED BY <2>1, <2>2
<1>5. ASSUME NEW n \in Nodes, s(n) = "BLOCKED"
      PROVE  DependencyStatus(n, StatusOf(nodes)) = "BLOCKED"
  BY <1>5 DEF s, InitialStatus, DependencyStatus, Absent
<1>6. LeaseShape
  <2> SUFFICES ASSUME NEW n \in Nodes PROVE NodeShape(nodes[n])
    BY DEF LeaseShape
  <2> QED BY <1>3, <1>4 DEF NodeShape, Absent
<1>7. StartedAfterDependencies
  <2> SUFFICES ASSUME NEW n \in Nodes PROVE ~(nodes[n].fence > 0)
    BY DEF StartedAfterDependencies
  <2> QED BY <1>4
<1>8. BlockedByDependencies
  BY <1>4, <1>5 DEF BlockedByDependencies
<1>9. ResultsExact
  BY <1>3, <1>4 DEF ResultsExact, Init, Absent
<1> QED BY <1>1, <1>6, <1>7, <1>8, <1>9 DEF Inv

\* Every step preserves the invariant.
LEMMA NextInv == Inv /\ [Next]_vars => Inv'
<1> SUFFICES ASSUME Inv, [Next]_vars PROVE Inv'
  OBVIOUS
<1> USE DEF Inv
<1>1. TypeOK'
  BY NextType
<1>2. (\A m \in Nodes : StepOf(m)) /\ ResultsStep
  BY NextStep
<1>3. Extends(StatusOf(nodes), StatusOf(nodes'))
  BY <1>2 DEF StepOf, Extends, StatusOf
<1>4. LeaseShape'
  BY <1>2 DEF StepOf, LeaseShape
<1>5. StartedAfterDependencies'
  <2> SUFFICES ASSUME NEW n \in Nodes, nodes'[n].fence > 0
               PROVE  DependencyStatus(n, StatusOf(nodes')) = "READY"
    BY DEF StartedAfterDependencies
  <2>1. nodes[n].fence \in Nat /\ nodes'[n].fence \in Nat
    BY <1>1, LimitsAssumption DEF LimitsAssumption, TypeOK, NodeView
  <2>2. DependencyStatus(n, StatusOf(nodes)) = "READY"
    <3>1. CASE nodes'[n].fence > nodes[n].fence
      <4>1. PICK o \in Owners : Claim(o, n)
        BY <1>2, <3>1 DEF StepOf
      <4> QED BY <4>1 DEF Claim
    <3>2. CASE ~(nodes'[n].fence > nodes[n].fence)
      BY <1>2, <2>1, <3>2 DEF StepOf, StartedAfterDependencies
    <3> QED BY <3>1, <3>2
  <2> QED BY <1>3, <2>2, ReadyStable
<1>6. BlockedByDependencies'
  <2> SUFFICES ASSUME NEW n \in Nodes, nodes'[n].status = "BLOCKED"
               PROVE  DependencyStatus(n, StatusOf(nodes')) = "BLOCKED" /\ nodes'[n].fence = 0
    BY DEF BlockedByDependencies
  <2>1. CASE nodes[n].status = "BLOCKED"
    <3>1. DependencyStatus(n, StatusOf(nodes)) = "BLOCKED" /\ nodes[n].fence = 0
      BY <2>1 DEF BlockedByDependencies
    <3>2. nodes'[n] = nodes[n]
      BY <1>2, <2>1 DEF StepOf, Terminal
    <3> QED BY <1>3, <3>1, <3>2, BlockedStable
  <2>2. CASE nodes[n].status # "BLOCKED"
    BY <1>2, <2>2 DEF StepOf
  <2> QED BY <2>1, <2>2
<1>7. ResultsExact'
  <2>1. ASSUME NEW n \in Nodes PROVE n \in results' <=> nodes'[n].status = "SUCCEEDED"
    BY <1>2 DEF StepOf, ResultsStep, ResultsExact, Terminal
  <2>2. results' \subseteq Nodes
    BY <1>1 DEF TypeOK
  <2> QED BY <2>1, <2>2 DEF ResultsExact
<1> QED BY <1>1, <1>4, <1>5, <1>6, <1>7

\* The inductive invariant holds in every reachable state.
THEOREM Invariance == Spec => []Inv
<1>1. Init => Inv
  BY InitInv
<1>2. Inv /\ [Next]_vars => Inv'
  BY NextInv
<1> QED BY <1>1, <1>2, PTL DEF Spec

\* No order of claims, renewals, hand-offs, settlements, recoveries and
\* cancellations leaves a node record that the repository rejects as corrupt.
THEOREM LeasesWellFormed == Spec => []LeaseShape
<1>1. Inv => LeaseShape
  BY DEF Inv
<1> QED BY <1>1, Invariance, PTL

\* A node that was ever claimed has satisfied dependencies from then on.
THEOREM DependenciesFirst == Spec => []StartedAfterDependencies
<1>1. Inv => StartedAfterDependencies
  BY DEF Inv
<1> QED BY <1>1, Invariance, PTL

\* A BLOCKED node never ran, and its dependencies are what blocks it.
THEOREM BlockedSoundly == Spec => []BlockedByDependencies
<1>1. Inv => BlockedByDependencies
  BY DEF Inv
<1> QED BY <1>1, Invariance, PTL

\* There is a result record for exactly the nodes that succeeded.
THEOREM OneResultPerSuccess == Spec => []ResultsExact
<1>1. Inv => ResultsExact
  BY DEF Inv
<1> QED BY <1>1, Invariance, PTL

\* No step changes the record of a settled node.
THEOREM SettledForGood == Spec => TerminalStable
<1>1. Inv /\ [Next]_vars =>
        [\A n \in Nodes : nodes[n].status \in Terminal => nodes'[n] = nodes[n]]_vars
  BY NextStep DEF Inv, StepOf
<1> QED BY <1>1, Invariance, PTL DEF Spec, TerminalStable

\* Fences never go back, a node changes hands only under a larger one, and a
\* bound execution stays bound.
THEOREM Fenced == Spec => FencedOwnership
<1>1. Inv /\ [Next]_vars =>
        [\A n \in Nodes :
           /\ nodes'[n].fence >= nodes[n].fence
           /\ nodes'[n].owner \notin {NoOwner, nodes[n].owner} => nodes'[n].fence > nodes[n].fence
           /\ nodes[n].bound => nodes'[n].bound]_vars
  BY NextStep DEF Inv, StepOf
<1> QED BY <1>1, Invariance, PTL DEF Spec, FencedOwnership

(***************************************************************************)
(* Concurrency.  Only a claim takes a slot, and it counts the taken ones   *)
(* in the transaction that takes it.                                       *)
(***************************************************************************)

\* The active nodes of a finite graph can be counted.
LEMMA ActiveFinite ==
    ASSUME NEW ns
    PROVE  IsFiniteSet(ActiveNodes(ns)) /\ Cardinality(ActiveNodes(ns)) \in Nat
<1>1. ActiveNodes(ns) \in SUBSET Nodes
  BY DEF ActiveNodes
<1> QED BY <1>1, NodesFinite, FS_Subset, FS_CardinalityType DEF NodesFinite

\* No set of nodes that is part of the active ones counts more.
LEMMA FewerActive ==
    ASSUME NEW S \in SUBSET ActiveNodes(nodes)
    PROVE  Cardinality(S) <= Cardinality(ActiveNodes(nodes)) /\ Cardinality(S) \in Nat
BY ActiveFinite, FS_Subset, FS_CardinalityType

\* A step that raises no fence takes no slot.
LEMMA NoSlotTaken ==
    ASSUME \A m \in Nodes : StepOf(m), \A m \in Nodes : ~(nodes'[m].fence > nodes[m].fence)
    PROVE  ActiveNodes(nodes') \subseteq ActiveNodes(nodes)
BY DEF StepOf, ActiveNodes, Occupying

\* A claim takes one slot, which was free.
LEMMA ClaimTakesOne ==
    ASSUME TypeOK, NEW o \in Owners, NEW n \in Nodes, Claim(o, n)
    PROVE  Cardinality(ActiveNodes(nodes')) <= MaxConcurrency
<1>1. \A m \in Nodes : m # n => nodes'[m] = nodes[m]
  BY DEF Claim, UpdateNode, TypeOK
<1>2. ActiveNodes(nodes') \subseteq ActiveNodes(nodes) \cup {n}
  BY <1>1 DEF ActiveNodes
<1> DEFINE A == ActiveNodes(nodes)
           B == ActiveNodes(nodes')
<1>3. IsFiniteSet(A) /\ Cardinality(A) \in Nat /\ IsFiniteSet(B) /\ Cardinality(B) \in Nat
  BY ActiveFinite
<1>4. Cardinality(A) < MaxConcurrency
  BY DEF Claim
<1>5. B \subseteq A \cup {n}
  BY <1>2
<1> HIDE DEF A, B
<1>6. IsFiniteSet(A \cup {n}) /\ Cardinality(A \cup {n}) \in Nat
      /\ Cardinality(A \cup {n}) <= Cardinality(A) + 1
  <2>1. /\ IsFiniteSet(A \cup {n})
        /\ Cardinality(A \cup {n}) = IF n \in A THEN Cardinality(A) ELSE Cardinality(A) + 1
    BY <1>3, FS_AddElement, Zenon
  <2> QED BY <1>3, <2>1
<1>7. Cardinality(B) <= Cardinality(A \cup {n})
  BY <1>5, <1>6, FS_Subset
<1>8. Cardinality(B) <= MaxConcurrency
  BY <1>3, <1>4, <1>6, <1>7, LimitsAssumption DEF LimitsAssumption
<1> QED BY <1>8 DEF B

\* Claims by several launchers, renewals, hand-offs and lapses never exceed the
\* concurrency limit of the graph.
THEOREM ConcurrencyBounded == Spec => []ActiveBounded
<1>1. Init => ActiveBounded
  <2> SUFFICES ASSUME Init PROVE ActiveBounded
    OBVIOUS
  <2>1. ASSUME NEW n \in Nodes PROVE n \notin ActiveNodes(nodes)
    <3> DEFINE st == IF n \in Initial THEN InitialStatus(n) ELSE Absent
    <3>1. nodes[n] = FreshView(n, st)
      BY DEF Init
    <3>2. nodes[n].status = st
      BY <3>1 DEF FreshView
    <3>3. st \notin {"WAITING", "RUNNING"}
      BY DEF InitialStatus, Absent
    <3> QED BY <3>2, <3>3 DEF ActiveNodes
  <2>2. ActiveNodes(nodes) = {}
    BY <2>1 DEF ActiveNodes
  <2> QED BY <2>2, FS_EmptySet, LimitsAssumption DEF ActiveBounded, LimitsAssumption
<1>2. Inv /\ ActiveBounded /\ [Next]_vars => ActiveBounded'
  <2> SUFFICES ASSUME Inv, ActiveBounded, [Next]_vars PROVE ActiveBounded'
    OBVIOUS
  <2>1. \A m \in Nodes : StepOf(m)
    BY NextStep DEF Inv
  <2>2. CASE \E m \in Nodes : nodes'[m].fence > nodes[m].fence
    <3>1. PICK m \in Nodes, o \in Owners : Claim(o, m)
      BY <2>1, <2>2 DEF StepOf
    <3> QED BY <3>1, ClaimTakesOne DEF Inv, ActiveBounded
  <2>3. CASE \A m \in Nodes : ~(nodes'[m].fence > nodes[m].fence)
    <3>1. ActiveNodes(nodes') \subseteq ActiveNodes(nodes)
      BY <2>1, <2>3, NoSlotTaken
    <3>2. Cardinality(ActiveNodes(nodes')) <= Cardinality(ActiveNodes(nodes))
      BY <3>1, FewerActive
    <3> QED BY <3>2, ActiveFinite, LimitsAssumption DEF ActiveBounded, LimitsAssumption
  <2> QED BY <2>2, <2>3
<1> QED BY <1>1, <1>2, Invariance, PTL DEF Spec

(***************************************************************************)
(* Expansions                                                              *)
(***************************************************************************)

\* An expansion is stored with the success of its node, once.
THEOREM ExpansionsAtomic == Spec => []ExpansionWithCompletion
<1>1. Init => ExpansionWithCompletion
  <2> SUFFICES ASSUME Init PROVE ExpansionWithCompletion
    OBVIOUS
  <2>1. ASSUME NEW n \in Nodes \ Initial PROVE nodes[n].status = Absent
    <3>1. nodes[n] = FreshView(n, Absent)
      BY DEF Init
    <3> QED BY <3>1 DEF FreshView
  <2> QED BY <2>1 DEF Init, ExpansionWithCompletion, Present
<1>2. Inv /\ ExpansionWithCompletion /\ [Next]_vars => ExpansionWithCompletion'
  <2> SUFFICES ASSUME Inv, ExpansionWithCompletion, [Next]_vars PROVE ExpansionWithCompletion'
    OBVIOUS
  <2>1. (\A m \in Nodes : StepOf(m)) /\ ResultsStep
    BY NextStep DEF Inv
  <2>2. results \subseteq Nodes /\ results' \subseteq Nodes /\ \A n \in Nodes : Expansion[n] \subseteq Nodes
    BY NextType, DefinitionsAssumption DEF Inv, TypeOK, DefinitionsAssumption
  <2>3. \A m \in Nodes : nodes[m].status # Absent => nodes'[m].status # Absent
    BY <2>1 DEF StepOf
  <2>4. \A n \in results' : Expansion[n] \subseteq Present'
    BY <2>1, <2>2, <2>3 DEF ResultsStep, ExpansionWithCompletion, Present
  <2>5. \A m \in Present' \ Initial : \E n \in results' : m \in Expansion[n]
    <3> SUFFICES ASSUME NEW m \in Nodes \ Initial, nodes'[m].status # Absent
                 PROVE  \E n \in results' : m \in Expansion[n]
      BY DEF Present
    <3>1. CASE nodes[m].status = Absent
      BY <2>1, <3>1 DEF StepOf
    <3>2. CASE nodes[m].status # Absent
      BY <2>1, <3>2 DEF ExpansionWithCompletion, Present, ResultsStep
    <3> QED BY <3>1, <3>2
  <2>6. \A m, n \in results' : m # n => Expansion[m] \cap Expansion[n] = {}
    <3>1. ASSUME NEW m \in results' \ results, NEW n \in results
          PROVE  Expansion[m] \cap Expansion[n] = {}
      BY <2>1 DEF ResultsStep, ExpansionWithCompletion, Present
    <3>2. \A m, n \in results' \ results : m = n
      BY <2>1 DEF ResultsStep
    <3> QED BY <3>1, <3>2 DEF ExpansionWithCompletion
  <2> QED BY <2>4, <2>5, <2>6 DEF ExpansionWithCompletion
<1> QED BY <1>1, <1>2, Invariance, PTL DEF Spec

(***************************************************************************)
(* The header.  Most operations aggregate the nodes they write; the others *)
(* leave the header alone and may only change what it does not show.       *)
(***************************************************************************)

\* The statuses st hold a node of status s.
Has(st, s) == \E n \in Nodes : st[n] = s

\* What the aggregate says of unsettled nodes.
LEMMA AggregateLive ==
    ASSUME NEW st
    PROVE  LET a == AggregateGraphStatus(st)
               waiting == Has(st, "RUNNING") \/ Has(st, "WAITING")
               pending == Has(st, "PENDING") \/ Has(st, "READY")
           IN /\ a = "RECOVERY_REQUIRED" <=> Has(st, "RECOVERY_REQUIRED")
              /\ a = "RUNNING" <=> ~Has(st, "RECOVERY_REQUIRED") /\ waiting
              /\ a = "PENDING" <=> ~Has(st, "RECOVERY_REQUIRED") /\ ~waiting /\ pending
<1>1. CASE Has(st, "RECOVERY_REQUIRED")
  <2>1. AggregateGraphStatus(st) = "RECOVERY_REQUIRED"
    BY <1>1 DEF AggregateGraphStatus, Has
  <2> QED BY <1>1, <2>1
<1>2. CASE ~Has(st, "RECOVERY_REQUIRED") /\ (Has(st, "RUNNING") \/ Has(st, "WAITING"))
  <2>1. AggregateGraphStatus(st) = "RUNNING"
    BY <1>2 DEF AggregateGraphStatus, Has
  <2> QED BY <1>2, <2>1
<1>3. CASE /\ ~Has(st, "RECOVERY_REQUIRED") /\ ~(Has(st, "RUNNING") \/ Has(st, "WAITING"))
           /\ Has(st, "PENDING") \/ Has(st, "READY")
  <2>1. AggregateGraphStatus(st) = "PENDING"
    BY <1>3 DEF AggregateGraphStatus, Has
  <2> QED BY <1>3, <2>1
<1>4. CASE /\ ~Has(st, "RECOVERY_REQUIRED") /\ ~(Has(st, "RUNNING") \/ Has(st, "WAITING"))
           /\ ~(Has(st, "PENDING") \/ Has(st, "READY"))
  <2>1. AggregateGraphStatus(st) \in {"FAILED", "BLOCKED", "CANCELLED", "SUCCEEDED"}
    BY <1>4 DEF AggregateGraphStatus, Has
  <2> QED BY <1>4, <2>1
<1> QED BY <1>1, <1>2, <1>3, <1>4

\* The aggregate is terminal when every stored node is settled, and only then.
LEMMA AggregateTerminal ==
    ASSUME NEW st, \A n \in Nodes : st[n] \in Status \cup {Absent}
    PROVE  AggregateGraphStatus(st) \in Terminal <=> \A n \in Nodes : st[n] \in Terminal \cup {Absent}
<1>1. AggregateGraphStatus(st) \in GraphStatus
  BY AggregateType
<1>2. AggregateGraphStatus(st) \in Terminal <=>
        AggregateGraphStatus(st) \notin {"RECOVERY_REQUIRED", "RUNNING", "PENDING"}
  BY <1>1 DEF GraphStatus, Status, Terminal, Live
<1>3. AggregateGraphStatus(st) \in Terminal <=>
        \A s \in Live : ~Has(st, s)
  BY <1>2, AggregateLive DEF Live
<1> QED BY <1>3 DEF Has, Status, Live, Terminal, Absent

\* A node that starts running or is handed off while its graph is on its way.
Moved(n, before, after) ==
    /\ nodes[n].status \in before
    /\ nodes'[n].status = after
    /\ \A m \in Nodes : m # n => nodes'[m] = nodes[m]

\* What a step may do to the header.
HeaderStep ==
    \/ IsolatedHeader
    \/ header' = "CANCELLED" /\ CancelledThroughout(StatusOf(nodes'))
    \/ header' = header /\ StatusOf(nodes') = StatusOf(nodes)
    \/ header' = header /\ \E n \in Nodes : Moved(n, {"RUNNING"}, "WAITING")
    \/ /\ header' = header /\ header \notin Terminal \cup {"RECOVERY_REQUIRED"}
       /\ \E n \in Nodes : Moved(n, {"PENDING", "READY", "RUNNING"}, "RUNNING")

\* Every operation treats the header in one of these ways.
LEMMA NextHeader == ASSUME TypeOK, [Next]_vars PROVE HeaderStep
<1>1. ASSUME NEW o \in Owners, NEW n \in Nodes, Claim(o, n) PROVE HeaderStep
  <2>1. nodes[n] \in NodeView
    BY DEF TypeOK
  <2>2. Moved(n, {"PENDING", "READY", "RUNNING"}, "RUNNING")
    BY <1>1, <2>1 DEF Claim, Claimable, UpdateNode, Moved, TypeOK, NodeView
  <2> QED BY <1>1, <2>2 DEF Claim, HeaderStep
<1>2. ASSUME NEW o \in Owners, NEW n \in Nodes, NEW f \in 1..MaxFence, LeaseOperation(o, n, f)
      PROVE  HeaderStep
  <2>0. nodes[n] \in NodeView
    BY DEF TypeOK
  <2>1. CASE Renew(o, n, f)
    <3>1. StatusOf(nodes') = StatusOf(nodes)
      BY <2>0, <2>1 DEF Renew, UpdateNode, StatusOf, TypeOK, NodeView
    <3> QED BY <2>1, <3>1 DEF Renew, HeaderStep
  <2>2. CASE PublishPreparedInput(o, n, f)
    BY <2>2 DEF PublishPreparedInput, HeaderStep
  <2>3. CASE BindExecution(o, n, f)
    <3>1. StatusOf(nodes') = StatusOf(nodes)
      BY <2>0, <2>3 DEF BindExecution, UpdateNode, StatusOf, TypeOK, NodeView
    <3> QED BY <2>3, <3>1 DEF BindExecution, HeaderStep
  <2>4. ASSUME NEW occupies \in BOOLEAN, HandoffExecution(o, n, f, occupies) PROVE HeaderStep
    <3>1. Moved(n, {"RUNNING"}, "WAITING")
      BY <2>0, <2>4 DEF HandoffExecution, LiveLease, Released, UpdateNode, Moved, TypeOK, NodeView
    <3> QED BY <2>4, <3>1 DEF HandoffExecution, HeaderStep
  <2>5. CASE \/ \E d \in 0..MaxDelay : RequeueRetry(o, n, f, d)
             \/ \E e \in {"projection", "unknown"}, x \in BOOLEAN : MarkRecoveryRequired(o, n, f, e, x)
             \/ CompleteLease(o, n, f)
             \/ \E x \in BOOLEAN : FailLease(o, n, f, x)
    BY <2>5 DEF RequeueRetry, MarkRecoveryRequired, CompleteLease, Complete, FailLease, Fail, HeaderStep
  <2> QED BY <1>2, <2>1, <2>2, <2>3, <2>4, <2>5 DEF LeaseOperation
<1>3. ASSUME NEW n \in Nodes, NEW f \in 1..MaxFence, BoundOperation(n, f) PROVE HeaderStep
  BY <1>3 DEF BoundOperation, RequeueWaitingRetry, RequeueRecovery, MarkBoundRecoveryRequired,
       CompleteBound, Complete, FailBound, Fail, CancelNode, CancelNodeUnconfirmed, HeaderStep
<1>4. ASSUME NEW n \in Nodes, CompleteWaiting(n) PROVE HeaderStep
  BY <1>4 DEF CompleteWaiting, Complete, HeaderStep
<1>5. CASE GraphOperation
  BY <1>5 DEF GraphOperation, SchedulerState, RecoverGraph, CancelGraph, RegisterCancelRequest,
       SettleCancelRequest, IsolatedHeader, HeaderStep
<1>6. CASE Tick
  <2>1. StatusOf(nodes') = StatusOf(nodes)
    BY <1>6 DEF Tick, StatusOf, TypeOK, NodeView
  <2> QED BY <1>6, <2>1 DEF Tick, HeaderStep
<1>7. CASE UNCHANGED vars
  BY <1>7 DEF vars, HeaderStep
<1> QED BY <1>1, <1>2, <1>3, <1>4, <1>5, <1>6, <1>7 DEF Next

\* The statuses of well-typed nodes.
LEMMA StatusType ==
    ASSUME TypeOK
    PROVE  \A n \in Nodes : StatusOf(nodes)[n] = nodes[n].status /\ nodes[n].status \in Status \cup {Absent}
BY DEF TypeOK, NodeView, StatusOf

\* Every step keeps the header and the nodes in agreement.
LEMMA NextHeaderAgrees ==
    ASSUME TypeOK, HeaderAgrees, HeaderStep
    PROVE  HeaderAgrees'
<1> DEFINE a == AggregateGraphStatus(StatusOf(nodes))
           b == AggregateGraphStatus(StatusOf(nodes'))
<1>0. \A n \in Nodes : StatusOf(nodes)[n] = nodes[n].status /\ StatusOf(nodes')[n] = nodes'[n].status
  BY DEF StatusOf
<1>1. CASE IsolatedHeader
  BY <1>1 DEF IsolatedHeader, HeaderAgrees
<1>2. CASE header' = "CANCELLED" /\ CancelledThroughout(StatusOf(nodes'))
  BY <1>2 DEF HeaderAgrees
<1>3. CASE header' = header /\ StatusOf(nodes') = StatusOf(nodes)
  BY <1>3 DEF HeaderAgrees
<1>4. ASSUME header' = header, NEW n \in Nodes, Moved(n, {"RUNNING"}, "WAITING")
      PROVE  HeaderAgrees'
  <2>1. Has(StatusOf(nodes), "RUNNING") /\ Has(StatusOf(nodes'), "WAITING")
    BY <1>0, <1>4 DEF Has, Moved
  <2>2. Has(StatusOf(nodes'), "RECOVERY_REQUIRED") <=> Has(StatusOf(nodes), "RECOVERY_REQUIRED")
    BY <1>0, <1>4 DEF Has, Moved
  <2>3. ~CancelledThroughout(StatusOf(nodes))
    BY <1>0, <1>4 DEF Moved, CancelledThroughout, Terminal, Absent
  <2>4. /\ a \in {"RECOVERY_REQUIRED", "RUNNING"} /\ b \in {"RECOVERY_REQUIRED", "RUNNING"}
        /\ a = "RECOVERY_REQUIRED" <=> b = "RECOVERY_REQUIRED"
    BY <2>1, <2>2, AggregateLive
  <2>5. a = b
    BY <2>4
  <2> QED BY <1>4, <2>3, <2>5 DEF HeaderAgrees
<1>5. ASSUME header' = header, header \notin Terminal \cup {"RECOVERY_REQUIRED"},
             NEW n \in Nodes, Moved(n, {"PENDING", "READY", "RUNNING"}, "RUNNING")
      PROVE  HeaderAgrees'
  <2>1. header \in {"PENDING", "RUNNING"}
    BY <1>5 DEF TypeOK, GraphStatus, Status, Live, Terminal
  <2>2. a # "RECOVERY_REQUIRED"
    BY <2>1 DEF HeaderAgrees
  <2>3. ~Has(StatusOf(nodes), "RECOVERY_REQUIRED")
    BY <2>2, AggregateLive
  <2>4. ~Has(StatusOf(nodes'), "RECOVERY_REQUIRED") /\ Has(StatusOf(nodes'), "RUNNING")
    BY <1>0, <1>5, <2>3 DEF Has, Moved
  <2>5. b = "RUNNING"
    BY <2>4, AggregateLive
  <2> QED BY <1>5, <2>1, <2>5 DEF HeaderAgrees
<1> QED BY <1>1, <1>2, <1>3, <1>4, <1>5 DEF HeaderStep

\* claim() and the recovery index may trust the stored header.
THEOREM HeaderTrusted == Spec => []HeaderAgrees
<1>1. Init => HeaderAgrees
  BY DEF Init, HeaderAgrees
<1>2. Inv /\ HeaderAgrees /\ [Next]_vars => HeaderAgrees'
  BY NextHeader, NextHeaderAgrees DEF Inv
<1> QED BY <1>1, <1>2, Invariance, PTL DEF Spec

\* A graph whose header is settled has settled nodes only.
LEMMA SettledNodes ==
    ASSUME TypeOK, HeaderAgrees, header \in Terminal
    PROVE  \A n \in Nodes : nodes[n].status \in Terminal \cup {Absent}
<1>1. CASE CancelledThroughout(StatusOf(nodes))
  BY <1>1, StatusType DEF CancelledThroughout
<1>2. CASE AggregateGraphStatus(StatusOf(nodes)) \in Terminal
  BY <1>2, StatusType, AggregateTerminal
<1> QED BY <1>1, <1>2 DEF HeaderAgrees, Terminal

\* Once the header is settled no step unsettles it: every node is settled, no
\* settled node completes and so no expansion adds a node.
LEMMA SettledStep ==
    ASSUME Inv, HeaderAgrees, [Next]_vars, header \in Terminal
    PROVE  header' \in Terminal
<1>1. \A n \in Nodes : nodes[n].status \in Terminal \cup {Absent}
  BY SettledNodes DEF Inv
<1>2. (\A m \in Nodes : StepOf(m)) /\ ResultsStep
  BY NextStep DEF Inv
<1>3. results' = results
  BY <1>1, <1>2 DEF ResultsStep
<1>4. \A n \in Nodes : nodes'[n].status \in Terminal \cup {Absent}
  BY <1>1, <1>2, <1>3 DEF StepOf
<1>5. TypeOK'
  BY NextType DEF Inv
<1>6. \A n \in Nodes : StatusOf(nodes')[n] = nodes'[n].status /\ nodes'[n].status \in Status \cup {Absent}
  BY <1>5 DEF TypeOK, NodeView, StatusOf
<1>7. AggregateGraphStatus(StatusOf(nodes')) \in Terminal
  BY <1>4, <1>6, AggregateTerminal
<1>8. HeaderStep
  BY NextHeader DEF Inv
<1> QED BY <1>7, <1>8 DEF HeaderStep, IsolatedHeader, Terminal

\* The launcher may drop the scheduler of a settled graph, and release the
\* dependencies the graph holds: nothing brings it back.
THEOREM SettledGraph == Spec => SettledGraphStaysSettled
<1>1. Inv /\ HeaderAgrees /\ [Next]_vars =>
        [(header \in Terminal) => (header' \in Terminal)]_vars
  BY SettledStep
<1> QED BY <1>1, Invariance, HeaderTrusted, PTL DEF Spec, SettledGraphStaysSettled

(***************************************************************************)
(* The reconciliation pass.  The specification gives the outcome of        *)
(* _reconciled_task_nodes as the solution of an equation; the code visits  *)
(* the stored nodes one after the other, dependencies first.  The equation *)
(* has one solution, and the pass ends in it.                              *)
(***************************************************************************)

\* order lists the N stored nodes, each once and after its dependencies.
Sorted(order, N, stored) ==
    /\ N \in Nat
    /\ order \in [1..N -> stored]
    /\ \A n \in stored : \E i \in 1..N : order[i] = n
    /\ \A i, j \in 1..N : order[i] = order[j] => i = j
    /\ \A i \in 1..N : \A d \in Deps[order[i]] : \E j \in 1..(i - 1) : order[j] = d

\* pass[i] are the nodes after the first i visits.
PassOver(ns, order, N, expire, pass) ==
    /\ pass \in [0..N -> [Nodes -> NodeView]]
    /\ pass[0] = ns
    /\ \A i \in 1..N : pass[i] = Visit(pass[i - 1], order[i], expire)

\* f is the function that ReconciliationPass defines recursively, up to k visits.
PassUpTo(ns, order, expire, f, k) ==
    f = [i \in 0..k |-> IF i = 0 THEN ns ELSE Visit(f[i - 1], order[i], expire)]

\* After i visits a visited node is what its visit left, the others are untouched.
Kept(ns, stored, order, N, pass, i) ==
    /\ \A j \in 1..N : pass[i][order[j]] = IF j <= i THEN pass[j][order[j]] ELSE ns[order[j]]
    /\ \A n \in Nodes \ stored : pass[i][n] = ns[n]

\* The solutions of the equation, as the node views they lead to.
Reconciliations(freed) ==
    {[n \in Nodes |-> ReconciledNode(n, freed[n], StatusWith(freed, B))] :
       B \in {X \in SUBSET Nodes : BlocksExactly(freed, X)}}

\* No dependent can tell two statuses apart.
SameToDependents(s1, s2) ==
    /\ s1 \in Terminal <=> s2 \in Terminal
    /\ s1 = "SUCCEEDED" <=> s2 = "SUCCEEDED"

\* Every set of natural numbers that is not empty has a least element.
LEMMA LeastIndex ==
    ASSUME NEW T \in SUBSET Nat, T # {}
    PROVE  \E x \in T : \A y \in T : x <= y
<1> DEFINE R == OpToRel(<, Nat)
<1>1. IsWellFoundedOn(R, Nat)
  BY NatLessThanWellFounded
<1>2. \A x \in Nat, y \in Nat : y < x => <<y, x>> \in R
  BY DEF OpToRel
<1> HIDE DEF R
<1>3. PICK x \in T : \A y \in T : <<y, x>> \notin R
  BY <1>1, WFMin
<1>4. \A y \in T : ~(y < x)
  BY <1>2, <1>3
<1>5. x \in Nat /\ \A y \in T : y \in Nat
  OBVIOUS
<1> QED BY <1>4, <1>5

\* An order of the stored nodes is sorted.
LEMMA OrderSorted ==
    ASSUME NEW stored \in SUBSET Nodes, NEW order \in TopologicalOrders,
           {order[i] : i \in DOMAIN order} = stored
    PROVE  Sorted(order, Cardinality(stored), stored)
<1>1. PICK listed \in SUBSET Nodes : order \in OrdersOf(listed)
  BY DEF TopologicalOrders
<1>2. /\ DOMAIN order = 1..Cardinality(listed) /\ \A i \in DOMAIN order : order[i] \in listed
      /\ \A n \in listed : \E i \in DOMAIN order : order[i] = n
  BY <1>1 DEF OrdersOf
<1>3. listed = stored
  BY <1>2
<1>4. Cardinality(stored) \in Nat
  BY NodesFinite, FS_Subset, FS_CardinalityType
<1> QED BY <1>1, <1>3, <1>4 DEF OrdersOf, Sorted

\* A visit maps views to views.
LEMMA VisitType ==
    ASSUME NEW ns \in [Nodes -> NodeView], NEW n \in Nodes, NEW expire \in BOOLEAN
    PROVE  Visit(ns, n, expire) \in [Nodes -> NodeView]
<1>1. Requeued(ns[n], expire) \in NodeView
  BY RequeuedType
<1>2. ReconciledNode(n, Requeued(ns[n], expire), StatusOf(ns)) \in NodeView
  BY <1>1, ReconciledType
<1> QED BY <1>2 DEF Visit

\* The recursion over the visits has a solution.
LEMMA PassExists ==
    ASSUME NEW ns, NEW order, NEW expire, NEW N \in Nat
    PROVE  \E f : PassUpTo(ns, order, expire, f, N)
<1> DEFINE T == {k \in Nat : ~ \E f : PassUpTo(ns, order, expire, f, k)}
<1> SUFFICES ASSUME T # {} PROVE FALSE
  OBVIOUS
<1>1. PICK k \in T : \A j \in T : k <= j
  <2>1. T \in SUBSET Nat
    OBVIOUS
  <2> HIDE DEF T
  <2> QED BY <2>1, LeastIndex
<1>2. k # 0
  <2>1. PassUpTo(ns, order, expire, [i \in 0..0 |-> ns], 0)
    BY DEF PassUpTo
  <2> QED BY <1>1, <2>1
<1>3. k - 1 \in Nat /\ k - 1 \notin T
  <2>1. k \in Nat
    BY <1>1
  <2> HIDE DEF T
  <2> QED BY <1>1, <1>2, <2>1
<1>4. PICK f : PassUpTo(ns, order, expire, f, k - 1)
  BY <1>3
<1> DEFINE g == [i \in 0..k |-> IF i = k THEN Visit(f[k - 1], order[k], expire) ELSE f[i]]
<1>5. ASSUME NEW i \in 0..k
      PROVE  g[i] = IF i = 0 THEN ns ELSE Visit(g[i - 1], order[i], expire)
  <2>1. CASE i = k
    BY <1>1, <1>2, <2>1
  <2>2. CASE i # k
    <3>1. i \in 0..(k - 1)
      BY <1>1, <2>2
    <3>2. f[i] = IF i = 0 THEN ns ELSE Visit(f[i - 1], order[i], expire)
      BY <3>1, <1>4 DEF PassUpTo
    <3>3. g[i] = f[i] /\ (i # 0 => g[i - 1] = f[i - 1])
      BY <1>1, <2>2
    <3> QED BY <3>2, <3>3
  <2> QED BY <2>1, <2>2
<1>6. DOMAIN g = 0..k
  OBVIOUS
<1>7. PassUpTo(ns, order, expire, g, k)
  <2>1. g = [i \in 0..k |-> g[i]]
    OBVIOUS
  <2> HIDE DEF g
  <2> QED BY <1>5, <2>1 DEF PassUpTo
<1> QED BY <1>1, <1>7

\* ReconciliationPass ends in the last of these visits.
LEMMA PassIsOver ==
    ASSUME NEW ns \in [Nodes -> NodeView], NEW expire \in BOOLEAN,
           NEW stored \in SUBSET Nodes, NEW order, NEW N, Sorted(order, N, stored)
    PROVE  \E pass : /\ PassOver(ns, order, N, expire, pass)
                     /\ ReconciliationPass(ns, order, expire) = pass[N]
<1>1. N \in Nat /\ \A i \in 1..N : order[i] \in Nodes
  BY DEF Sorted
<1>2. Cardinality(DOMAIN order) = N
  <2>1. DOMAIN order = 1..N
    BY DEF Sorted
  <2>2. Cardinality(1..N) = N
    BY <1>1, FS_Interval
  <2> QED BY <2>1, <2>2
<1> DEFINE pass == CHOOSE f : PassUpTo(ns, order, expire, f, N)
<1>3. PassUpTo(ns, order, expire, pass, N)
  BY <1>1, PassExists
<1>4. ReconciliationPass(ns, order, expire) = pass[N]
  BY <1>2, Zenon DEF ReconciliationPass, PassUpTo
<1> HIDE DEF pass
<1>5. /\ DOMAIN pass = 0..N /\ pass = [i \in 0..N |-> pass[i]]
      /\ pass[0] = ns
      /\ \A i \in 1..N : pass[i] = Visit(pass[i - 1], order[i], expire)
  BY <1>1, <1>3 DEF PassUpTo
<1>6. \A i \in 0..N : pass[i] \in [Nodes -> NodeView]
  <2> DEFINE T == {i \in 0..N : pass[i] \notin [Nodes -> NodeView]}
  <2> SUFFICES ASSUME T # {} PROVE FALSE
    OBVIOUS
  <2>1. PICK i \in T : \A j \in T : i <= j
    <3>1. T \in SUBSET Nat
      BY <1>1
    <3> HIDE DEF T
    <3> QED BY <3>1, LeastIndex
  <2>2. i \in 1..N /\ i - 1 \in 0..N
    BY <1>1, <1>5, <2>1
  <2>3. pass[i - 1] \in [Nodes -> NodeView]
    BY <2>1, <2>2
  <2>4. pass[i] = Visit(pass[i - 1], order[i], expire) /\ order[i] \in Nodes
    BY <1>1, <1>5, <2>2
  <2>5. Visit(pass[i - 1], order[i], expire) \in [Nodes -> NodeView]
    BY <2>3, <2>4, VisitType
  <2> QED BY <2>1, <2>4, <2>5
<1>7. PassOver(ns, order, N, expire, pass)
  BY <1>5, <1>6 DEF PassOver
<1> QED BY <1>4, <1>7

\* What a node's dependencies say is decided by what they look like to it.
LEMMA DependencyStatusLocal ==
    ASSUME NEW n \in Nodes, NEW st1, NEW st2,
           \A d \in Deps[n] : SameToDependents(st1[d], st2[d])
    PROVE  DependencyStatus(n, st1) = DependencyStatus(n, st2)
<1>1. Deps[n] \subseteq Nodes /\ DependencyPolicy[n] \in DependencyPolicies
  BY DefinitionsAssumption DEF DefinitionsAssumption
<1>2. /\ (\A d \in Deps[n] : st1[d] \in Terminal) <=> (\A d \in Deps[n] : st2[d] \in Terminal)
      /\ (\A d \in Deps[n] : st1[d] = "SUCCEEDED") <=> (\A d \in Deps[n] : st2[d] = "SUCCEEDED")
      /\ (\E d \in Deps[n] : st1[d] = "SUCCEEDED") <=> (\E d \in Deps[n] : st2[d] = "SUCCEEDED")
      /\ (\E d \in Deps[n] : st1[d] \in Terminal \ {"SUCCEEDED"})
           <=> (\E d \in Deps[n] : st2[d] \in Terminal \ {"SUCCEEDED"})
  BY DEF SameToDependents
<1>3. CASE DependencyPolicy[n] = "all_succeeded"
  BY <1>2, <1>3 DEF DependencyStatus
<1>4. CASE DependencyPolicy[n] = "all_terminal"
  BY <1>2, <1>4 DEF DependencyStatus
<1>5. CASE DependencyPolicy[n] = "any_succeeded"
  BY <1>2, <1>5 DEF DependencyStatus
<1> QED BY <1>1, <1>3, <1>4, <1>5 DEF DependencyPolicies

\* A visit changes what a node looks like to its dependents only by blocking it.
LEMMA VisitShows ==
    ASSUME NEW n \in Nodes, NEW v \in NodeView, NEW st
    PROVE  IF Reconcilable(v) /\ DependencyStatus(n, st) = "BLOCKED"
             THEN ReconciledNode(n, v, st).status = "BLOCKED"
             ELSE SameToDependents(ReconciledNode(n, v, st).status, v.status)
BY DEF ReconciledNode, NodeView, SameToDependents, Terminal

\* At most one set of nodes is exactly the set that it blocks.
LEMMA BlockedUnique ==
    ASSUME NEW stored \in SUBSET Nodes, NEW order, NEW N, Sorted(order, N, stored),
           NEW ns, \A n \in Nodes \ stored : ns[n].status = Absent,
           NEW B, NEW C, BlocksExactly(ns, B), BlocksExactly(ns, C)
    PROVE  \A n \in Nodes : n \in B <=> n \in C
<1> SUFFICES ASSUME NEW n \in Nodes, ~ (n \in B <=> n \in C) PROVE FALSE
  OBVIOUS
<1> DEFINE T == {i \in 1..N : ~ (order[i] \in B <=> order[i] \in C)}
<1>1. n \in stored
  BY DEF BlocksExactly, Reconcilable, Absent
<1>2. T \in SUBSET Nat /\ T # {}
  BY <1>1 DEF Sorted
<1>3. PICK i \in T : \A j \in T : i <= j
  <2> HIDE DEF T
  <2> QED BY <1>2, LeastIndex
<1>4. i \in 1..N /\ N \in Nat /\ order[i] \in Nodes /\ ~ (order[i] \in B <=> order[i] \in C)
  BY <1>3 DEF Sorted
<1>5. \A d \in Deps[order[i]] :
         SameToDependents(StatusWith(ns, B)[d], StatusWith(ns, C)[d])
  <2> SUFFICES ASSUME NEW d \in Deps[order[i]]
               PROVE  SameToDependents(StatusWith(ns, B)[d], StatusWith(ns, C)[d])
    OBVIOUS
  <2>1. d \in Nodes
    BY <1>4, DefinitionsAssumption DEF DefinitionsAssumption
  <2>2. PICK j \in 1..(i - 1) : order[j] = d
    BY <1>4 DEF Sorted
  <2>3. j \in 1..N /\ ~ (i <= j)
    BY <1>4, <2>2
  <2>4. j \notin T
    BY <1>3, <2>3
  <2>5. d \in B <=> d \in C
    BY <2>2, <2>3, <2>4
  <2>6. StatusWith(ns, B)[d] = StatusWith(ns, C)[d]
    BY <2>1, <2>5 DEF StatusWith
  <2> QED BY <2>6 DEF SameToDependents
<1>6. DependencyStatus(order[i], StatusWith(ns, B)) = DependencyStatus(order[i], StatusWith(ns, C))
  BY <1>4, <1>5, DependencyStatusLocal
<1> QED BY <1>4, <1>6 DEF BlocksExactly

\* A visited node keeps what its visit left, and the others are untouched.
LEMMA VisitsStay ==
    ASSUME NEW ns \in [Nodes -> NodeView], NEW expire \in BOOLEAN,
           NEW stored \in SUBSET Nodes, NEW order, NEW N, Sorted(order, N, stored),
           NEW pass, PassOver(ns, order, N, expire, pass)
    PROVE  \A i \in 0..N : Kept(ns, stored, order, N, pass, i)
<1> DEFINE T == {i \in 0..N : ~ Kept(ns, stored, order, N, pass, i)}
<1> SUFFICES ASSUME T # {} PROVE FALSE
  OBVIOUS
<1>1. T \in SUBSET Nat /\ N \in Nat
  BY DEF Sorted
<1>2. PICK i \in T : \A j \in T : i <= j
  <2> HIDE DEF T
  <2> QED BY <1>1, LeastIndex
<1>3. i \in 0..N /\ ~ Kept(ns, stored, order, N, pass, i)
  BY <1>2
<1>4. i # 0
  BY <1>1, <1>3 DEF PassOver, Kept
<1>5. i \in 1..N /\ i - 1 \in 0..N /\ i - 1 \notin T
  BY <1>1, <1>2, <1>3, <1>4
<1>6. Kept(ns, stored, order, N, pass, i - 1)
  BY <1>5
<1>7. /\ pass[i - 1] \in [Nodes -> NodeView]
      /\ order[i] \in stored
      /\ pass[i] = Visit(pass[i - 1], order[i], expire)
  BY <1>5 DEF PassOver, Sorted
<1>8. \A n \in Nodes : n # order[i] => pass[i][n] = pass[i - 1][n]
  BY <1>7 DEF Visit
<1>9. ASSUME NEW j \in 1..N
      PROVE  pass[i][order[j]] = IF j <= i THEN pass[j][order[j]] ELSE ns[order[j]]
  <2>1. CASE j = i
    BY <2>1, <1>1, <1>5
  <2>2. CASE j # i
    <3>1. order[j] \in Nodes /\ order[j] # order[i]
      BY <2>2, <1>5 DEF Sorted
    <3>2. pass[i][order[j]] = pass[i - 1][order[j]]
      BY <3>1, <1>8
    <3>3. pass[i - 1][order[j]] = IF j <= i - 1 THEN pass[j][order[j]] ELSE ns[order[j]]
      BY <1>6 DEF Kept
    <3>4. j <= i - 1 <=> j <= i
      BY <2>2, <1>1, <1>5
    <3> QED BY <3>2, <3>3, <3>4
  <2> QED BY <2>1, <2>2
<1>10. \A n \in Nodes \ stored : pass[i][n] = ns[n]
  BY <1>6, <1>7, <1>8 DEF Kept
<1> QED BY <1>3, <1>9, <1>10 DEF Kept

\* The pass leaves every node as a visit would that sees what the pass ends in.
LEMMA PassSettles ==
    ASSUME NEW ns \in [Nodes -> NodeView], NEW expire \in BOOLEAN,
           NEW stored \in SUBSET Nodes, NEW order, NEW N, Sorted(order, N, stored),
           \A n \in Nodes \ stored : ns[n].status = Absent,
           NEW pass, PassOver(ns, order, N, expire, pass), NEW n \in Nodes
    PROVE  pass[N][n] = ReconciledNode(n, Requeued(ns[n], expire), StatusOf(pass[N]))
<1>1. /\ \A k \in 0..N : \A j \in 1..N :
           pass[k][order[j]] = IF j <= k THEN pass[j][order[j]] ELSE ns[order[j]]
      /\ \A k \in 0..N : \A m \in Nodes \ stored : pass[k][m] = ns[m]
  <2>1. \A i \in 0..N : Kept(ns, stored, order, N, pass, i)
    BY VisitsStay
  <2> QED BY <2>1 DEF Kept
<1>2. N \in Nat /\ N \in 0..N
  BY DEF Sorted
<1>3. CASE n \notin stored
  <2>1. pass[N][n] = ns[n]
    BY <1>1, <1>2, <1>3
  <2> QED BY <2>1, <1>3 DEF ReconciledNode, Requeued, Reconcilable, Absent
<1>4. CASE n \in stored
  <2>1. PICK i \in 1..N : order[i] = n
    BY <1>4 DEF Sorted
  <2>2. i - 1 \in 0..N /\ i - 1 < i /\ i <= N
    BY <1>2, <2>1
  <2>3. pass[N][n] = pass[i][n] /\ pass[i - 1][n] = ns[n]
    BY <1>1, <1>2, <2>1, <2>2
  <2>4. pass[i] = Visit(pass[i - 1], n, expire) /\ pass[i - 1] \in [Nodes -> NodeView]
    BY <2>1, <2>2 DEF PassOver
  <2>5. pass[i][n] = ReconciledNode(n, Requeued(ns[n], expire), StatusOf(pass[i - 1]))
    BY <2>3, <2>4 DEF Visit
  <2>6. \A d \in Deps[n] : SameToDependents(StatusOf(pass[i - 1])[d], StatusOf(pass[N])[d])
    <3> SUFFICES ASSUME NEW d \in Deps[n]
                 PROVE  SameToDependents(StatusOf(pass[i - 1])[d], StatusOf(pass[N])[d])
      OBVIOUS
    <3>1. d \in Nodes
      BY DefinitionsAssumption DEF DefinitionsAssumption
    <3>2. PICK j \in 1..(i - 1) : order[j] = d
      BY <2>1 DEF Sorted
    <3>3. j \in 1..N /\ j <= i - 1 /\ j <= N
      BY <1>2, <2>1, <3>2
    <3>4. pass[i - 1][d] = pass[N][d]
      BY <1>1, <1>2, <2>2, <3>2, <3>3
    <3>5. StatusOf(pass[i - 1])[d] = StatusOf(pass[N])[d]
      BY <3>1, <3>4 DEF StatusOf
    <3> QED BY <3>5 DEF SameToDependents
  <2>7. DependencyStatus(n, StatusOf(pass[i - 1])) = DependencyStatus(n, StatusOf(pass[N]))
    BY <2>6, DependencyStatusLocal
  <2> QED BY <2>3, <2>5, <2>7 DEF ReconciledNode
<1> QED BY <1>3, <1>4

\* The outcome of the equation is what the pass ends in.
LEMMA OnePass ==
    ASSUME NEW ns \in [Nodes -> NodeView], NEW expire \in BOOLEAN,
           NEW stored \in SUBSET Nodes, NEW order, NEW N, Sorted(order, N, stored),
           \A n \in Nodes \ stored : ns[n].status = Absent,
           NEW pass, PassOver(ns, order, N, expire, pass),
           NEW freed, freed = [n \in Nodes |-> Requeued(ns[n], expire)]
    PROVE  Reconciliations(freed) = {pass[N]}
<1> DEFINE Outcome(B) == [n \in Nodes |-> ReconciledNode(n, freed[n], StatusWith(freed, B))]
           Blocked == {n \in Nodes : Reconcilable(freed[n])
                                       /\ DependencyStatus(n, StatusOf(pass[N])) = "BLOCKED"}
<1>1. freed \in [Nodes -> NodeView] /\ \A n \in Nodes : freed[n] = Requeued(ns[n], expire)
  BY RequeuedType
<1>2. pass[N] \in [Nodes -> NodeView]
  BY DEF PassOver, Sorted
<1>3. \A n \in Nodes : pass[N][n] = ReconciledNode(n, freed[n], StatusOf(pass[N]))
  BY <1>1, PassSettles
<1>4. \A n \in Nodes : n \in Blocked <=>
         Reconcilable(freed[n]) /\ DependencyStatus(n, StatusOf(pass[N])) = "BLOCKED"
  OBVIOUS
<1>5. \A n \in Nodes \ stored : freed[n].status = Absent
  BY <1>1 DEF Requeued, Absent
<1>6. Blocked \in SUBSET Nodes
  OBVIOUS
<1> HIDE DEF Blocked
<1>7. \A n \in Nodes : SameToDependents(StatusOf(pass[N])[n], StatusWith(freed, Blocked)[n])
  <2> SUFFICES ASSUME NEW n \in Nodes
               PROVE  SameToDependents(StatusOf(pass[N])[n], StatusWith(freed, Blocked)[n])
    OBVIOUS
  <2>1. StatusOf(pass[N])[n] = ReconciledNode(n, freed[n], StatusOf(pass[N])).status
    BY <1>3 DEF StatusOf
  <2>2. StatusWith(freed, Blocked)[n] = IF n \in Blocked THEN "BLOCKED" ELSE freed[n].status
    BY DEF StatusWith
  <2>3. IF n \in Blocked
          THEN ReconciledNode(n, freed[n], StatusOf(pass[N])).status = "BLOCKED"
          ELSE SameToDependents(ReconciledNode(n, freed[n], StatusOf(pass[N])).status, freed[n].status)
    BY <1>1, <1>4, VisitShows
  <2>4. CASE n \in Blocked
    BY <2>1, <2>2, <2>3, <2>4 DEF SameToDependents
  <2>5. CASE n \notin Blocked
    BY <2>1, <2>2, <2>3, <2>5
  <2> QED BY <2>4, <2>5
<1>8. \A n \in Nodes :
         DependencyStatus(n, StatusOf(pass[N])) = DependencyStatus(n, StatusWith(freed, Blocked))
  <2> SUFFICES ASSUME NEW n \in Nodes
               PROVE  DependencyStatus(n, StatusOf(pass[N]))
                        = DependencyStatus(n, StatusWith(freed, Blocked))
    OBVIOUS
  <2>1. Deps[n] \subseteq Nodes
    BY DefinitionsAssumption DEF DefinitionsAssumption
  <2> QED BY <2>1, <1>7, DependencyStatusLocal
<1>9. BlocksExactly(freed, Blocked)
  BY <1>4, <1>8 DEF BlocksExactly
<1>10. Outcome(Blocked) = pass[N]
  <2>1. \A n \in Nodes : Outcome(Blocked)[n] = pass[N][n]
    BY <1>3, <1>8 DEF ReconciledNode
  <2> QED BY <2>1, <1>2
<1>11. \A B \in SUBSET Nodes : BlocksExactly(freed, B) => B = Blocked
  <2> SUFFICES ASSUME NEW B \in SUBSET Nodes, BlocksExactly(freed, B) PROVE B = Blocked
    OBVIOUS
  <2>1. \A n \in Nodes : n \in B <=> n \in Blocked
    BY <1>5, <1>9, BlockedUnique
  <2> QED BY <2>1, <1>6
<1> HIDE DEF Outcome
<1>12. {Outcome(B) : B \in {X \in SUBSET Nodes : BlocksExactly(freed, X)}} = {pass[N]}
  BY <1>6, <1>9, <1>10, <1>11
<1> QED BY <1>12 DEF Outcome, Reconciliations

\* The reconciliation of the specification is single-valued and is what the
\* pass of _reconciled_task_nodes computes, in every reachable state of every
\* graph, whichever order the topological sort picks: one pass carries a failure
\* to every transitive dependent.
THEOREM ReconciliationPassExact == Spec => []ReconciliationIsOnePass
<1>1. TypeOK => ReconciliationIsOnePass
  <2> SUFFICES ASSUME TypeOK, NEW expire \in BOOLEAN, NEW order \in TopologicalOrders,
                      {order[i] : i \in DOMAIN order} = Present
               PROVE  Reconciliations([n \in Nodes |-> Requeued(nodes[n], expire)])
                      = {ReconciliationPass(nodes, order, expire)}
    BY Zenon DEF ReconciliationIsOnePass, Reconciliations
  <2> DEFINE N == Cardinality(Present)
  <2>1. nodes \in [Nodes -> NodeView] /\ Present \in SUBSET Nodes
    BY DEF TypeOK, Present
  <2>2. \A n \in Nodes \ Present : nodes[n].status = Absent
    BY DEF Present
  <2>3. Sorted(order, N, Present)
    BY <2>1, OrderSorted
  <2> HIDE DEF N
  <2>4. PICK pass : /\ PassOver(nodes, order, N, expire, pass)
                    /\ ReconciliationPass(nodes, order, expire) = pass[N]
    BY <2>1, <2>3, PassIsOver
  <2>5. Reconciliations([n \in Nodes |-> Requeued(nodes[n], expire)]) = {pass[N]}
    BY <2>1, <2>2, <2>3, <2>4, OnePass
  <2> QED BY <2>4, <2>5
<1> QED BY <1>1, Invariance, PTL DEF Inv
===========================================================================
