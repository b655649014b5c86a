------------------------ MODULE TaskLauncherProofs ------------------------
(***************************************************************************)
(* Proofs about the launchers, for every graph, every kind of node, every  *)
(* number of processes, of crashes and of callers that cancel: what the    *)
(* ledger reports of a whole-graph cancel and what the nodes report about  *)
(* executions is true.  Each step of the launchers is a step of the        *)
(* repository under its most general caller, so what is proved there holds *)
(* here as well.                                                           *)
(***************************************************************************)
EXTENDS TaskLauncher, TaskRepositoryProofs

(***************************************************************************)
(* Refinement                                                              *)
(***************************************************************************)

\* The fence by which a lease is held, or a bound node is settled, is one that
\* some claim has issued.
LEMMA FenceIssued ==
    ASSUME Inv, NEW n \in Nodes, NEW f,
           \/ \E o : LiveLease(nodes[n], o, f)
           \/ nodes[n].bound /\ nodes[n].fence = f
    PROVE  f \in 1..MaxFence
<1>1. nodes[n] \in NodeView /\ NodeShape(nodes[n])
  BY DEF Inv, TypeOK, LeaseShape
<1>2. nodes[n].fence = f /\ nodes[n].fence > 0
  BY <1>1 DEF LiveLease, NodeShape
<1> QED BY <1>1, <1>2, LimitsAssumption DEF NodeView, LimitsAssumption

\* Operations of a task that holds a lease, by whatever fence it remembers.
LEMMA LeaseStep ==
    ASSUME Inv, NEW o \in Owners, NEW n \in Nodes, NEW f,
           LiveLease(nodes[n], o, f), LeaseOperation(o, n, f)
    PROVE  Next
<1>1. f \in 1..MaxFence
  BY FenceIssued
<1> QED BY <1>1 DEF Next

\* Operations of a task that settles a bound node, by the fence it remembers.
LEMMA BoundStep ==
    ASSUME Inv, NEW n \in Nodes, NEW f, nodes[n].bound, nodes[n].fence = f, BoundOperation(n, f)
    PROVE  Next
<1>1. f \in 1..MaxFence
  BY FenceIssued
<1> QED BY <1>1 DEF Next

\* A step of a node task is a step of the repository, or leaves it alone.
LEMMA NodeTaskRefines ==
    ASSUME Inv, NEW o \in Owners, NEW n \in Nodes, NodeTaskStep(o, n)
    PROVE  [Next]_vars
<1> DEFINE f == Fence(o, n)
<1>1. ASSUME NEW answered \in BOOLEAN, StartNode(o, n, answered) PROVE [Next]_vars
  BY <1>1 DEF StartNode, Next
<1>2. CASE Heartbeat(o, n)
  BY <1>2, LeaseStep DEF Heartbeat, Renew, LeaseOperation
<1>3. CASE ProjectInput(o, n)
  BY <1>3, LeaseStep DEF ProjectInput, PublishPreparedInput, LeaseOperation
<1>4. CASE ProjectionFails(o, n)
  <2>1. MarkRecoveryRequired(o, n, f, "projection", FALSE)
    BY <1>4 DEF ProjectionFails
  <2>2. LeaseOperation(o, n, f) /\ LiveLease(nodes[n], o, f)
    BY <2>1 DEF LeaseOperation, MarkRecoveryRequired
  <2> QED BY <2>2, LeaseStep
<1>5. CASE Bind(o, n)
  BY <1>5, LeaseStep DEF Bind, BindExecution, LeaseOperation
<1>6. CASE Handoff(o, n)
  <2>1. HandoffExecution(o, n, f, Kind[n] # "input")
    BY <1>6 DEF Handoff
  <2>2. LeaseOperation(o, n, f) /\ LiveLease(nodes[n], o, f)
    BY <2>1 DEF LeaseOperation, HandoffExecution
  <2> QED BY <2>2, LeaseStep
<1>7. CASE RunnerSettles(o, n)
  <2>1. CASE CompleteLease(o, n, f)
    BY <2>1, LeaseStep DEF CompleteLease, LeaseOperation
  <2>2. CASE FailLease(o, n, f, TRUE)
    BY <2>2, LeaseStep DEF FailLease, LeaseOperation
  <2>3. CASE CancelNode(n, f)
    BY <2>3, BoundStep DEF CancelNode, BoundAt, BoundOperation
  <2>4. CASE \E d \in 0..MaxDelay : RequeueRetry(o, n, f, d)
    BY <2>4, LeaseStep DEF RequeueRetry, LeaseOperation
  <2> QED BY <1>7, <2>1, <2>2, <2>3, <2>4 DEF RunnerSettles
<1>8. ASSUME NEW named \in BOOLEAN, RunnerFails(o, n, named) PROVE [Next]_vars
  BY <1>8, LeaseStep DEF RunnerFails, FailLease, LeaseOperation
<1>9. ASSUME NEW named \in BOOLEAN, RunnerDefers(o, n, named) PROVE [Next]_vars
  <2>1. MarkRecoveryRequired(o, n, f, "unknown", named)
    BY <1>9 DEF RunnerDefers
  <2>2. LeaseOperation(o, n, f) /\ LiveLease(nodes[n], o, f)
    BY <2>1 DEF LeaseOperation, MarkRecoveryRequired
  <2> QED BY <2>2, LeaseStep
<1>10. CASE SettlerSettles(o, n)
  <2>1. CASE CompleteBound(n, f)
    BY <2>1, BoundStep DEF CompleteBound, BoundAt, BoundOperation
  <2>2. CASE FailBound(n, f)
    BY <2>2, BoundStep DEF FailBound, BoundAt, BoundOperation
  <2>3. CASE CancelNode(n, f)
    BY <2>3, BoundStep DEF CancelNode, BoundAt, BoundOperation
  <2>4. CASE \E d \in 0..MaxDelay : RequeueWaitingRetry(n, f, d)
    BY <2>4, BoundStep DEF RequeueWaitingRetry, BoundOperation
  <2> QED BY <1>10, <2>1, <2>2, <2>3, <2>4 DEF SettlerSettles
<1>11. CASE SettlerFails(o, n)
  BY <1>11, BoundStep DEF SettlerFails, FailBound, BoundAt, BoundOperation
<1>12. CASE MarkerMarks(o, n)
  BY <1>12, BoundStep DEF MarkerMarks, MarkBoundRecoveryRequired, BoundOperation
<1>13. CASE \/ WatchBoundNode(o, n) \/ ServeBoundNode(o, n) \/ StartExecution(o, n)
            \/ RunnerYields(o, n) \/ SettlerDefers(o, n) \/ TaskEnds(o, n)
  BY <1>13 DEF WatchBoundNode, ServeBoundNode, StartExecution, RunnerYields, SettlerDefers, TaskEnds
<1> QED BY <1>1, <1>2, <1>3, <1>4, <1>5, <1>6, <1>7, <1>8, <1>9, <1>10, <1>11, <1>12, <1>13
       DEF NodeTaskStep

\* A step of the task service is a step of the repository, or leaves it alone.
LEMMA ServiceRefines == ASSUME Inv, ServiceStep PROVE [Next]_vars
<1>1. CASE Recover \/ ServiceReads
  BY <1>1 DEF Recover, ServiceReads, Next, GraphOperation
<1>2. ASSUME NEW n \in Nodes, SupplyInput(n) \/ RequestNodeCancel(n) \/ SettleNodeCancel(n)
      PROVE  [Next]_vars
  BY <1>2 DEF SupplyInput, RequestNodeCancel, SettleNodeCancel, Next, GraphOperation
<1>3. ASSUME NEW n \in Nodes, NEW f \in 1..MaxFence,
             ResolveNotApplied(n, f) \/ SettleExecutionCancellation(n, f)
      PROVE  [Next]_vars
  BY <1>3 DEF ResolveNotApplied, SettleExecutionCancellation, Next, BoundOperation
<1> QED BY <1>1, <1>2, <1>3 DEF ServiceStep

\* Settling the cancel operation frees its scope at most.
LEMMA SettleOperationRefines ==
    ASSUME NEW o \in Owners, NEW status, SettleOperation(o, status)
    PROVE  [Next]_vars
BY DEF SettleOperation, Next, GraphOperation

\* A step of a call of cancel() or recover() is a step of the repository, or leaves
\* it alone.
LEMMA CancelRefines == ASSUME Inv, NEW o \in Owners, CancelStep(o) PROVE [Next]_vars
<1>1. CASE RequestGraphCancel(o)
  BY <1>1 DEF RequestGraphCancel, Next, GraphOperation
<1>2. CASE ClaimGraphCancel(o) \/ RecoverGraphCancel(o) \/ CleanupEnds(o)
  BY <1>2 DEF ClaimGraphCancel, RecoverGraphCancel, CleanupEnds
<1>3. ASSUME NEW n \in Nodes, PassNode(o, n) \/ MeetForeignClaim(o, n) \/ SettleNode(o, n)
      PROVE  [Next]_vars
  BY <1>3 DEF PassNode, MeetForeignClaim, SettleNode
<1>4. ASSUME NEW error \in Errors, SweepFails(o, error) \/ CleanupFails(o, error)
      PROVE  [Next]_vars
  BY <1>4 DEF SweepFails, CleanupFails, Next, GraphOperation
<1>5. CASE SweepGraph(o) \/ ReleaseDependencies(o)
  BY <1>5 DEF SweepGraph, ReleaseDependencies, Next, GraphOperation
<1>6. ASSUME NEW n \in Nodes, MarkUnboundRunner(o, n) PROVE [Next]_vars
  <2>1. MarkRecoveryRequired(o, n, Fence(o, n), "unknown", FALSE)
    BY <1>6 DEF MarkUnboundRunner
  <2>2. LeaseOperation(o, n, Fence(o, n)) /\ LiveLease(nodes[n], o, Fence(o, n))
    BY <2>1 DEF LeaseOperation, MarkRecoveryRequired
  <2> QED BY <2>2, LeaseStep
<1>7. CASE ViewGraph(o)
  BY <1>7, SettleOperationRefines DEF ViewGraph
<1>8. CASE HandleCancelError(o)
  BY <1>8, SettleOperationRefines DEF HandleCancelError
<1>9. CASE RecordGraphCancel(o)
  BY <1>9, SettleOperationRefines DEF RecordGraphCancel
<1> QED BY <1>1, <1>2, <1>3, <1>4, <1>5, <1>6, <1>7, <1>8, <1>9 DEF CancelStep, FinalizerStep

\* Every step of the launchers is a step of the repository, or leaves it alone.
LEMMA LauncherRefines == ASSUME Inv, [LauncherNext]_allVars PROVE [Next]_vars
<1>1. ASSUME NEW o \in Owners, Arm(o) \/ Schedule(o) \/ LoopEnds(o) \/ Crash(o) PROVE [Next]_vars
  BY <1>1 DEF Arm, Schedule, LoopEnds, Crash, Next, GraphOperation
<1>2. ASSUME NEW o \in Owners, NEW n \in Nodes, NodeTaskStep(o, n) PROVE [Next]_vars
  BY <1>2, NodeTaskRefines
<1>3. ASSUME NEW n \in Nodes, ExecutionFinishes(n) \/ ExecutionCancelled(n) PROVE [Next]_vars
  BY <1>3 DEF ExecutionFinishes, ExecutionCancelled
<1>4. CASE ServiceStep
  BY <1>4, ServiceRefines
<1>5. CASE Time
  BY <1>5 DEF Time, Next
<1>6. CASE UNCHANGED allVars
  BY <1>6 DEF allVars, vars
<1>7. ASSUME NEW o \in Owners, CancelStep(o) PROVE [Next]_vars
  BY <1>7, CancelRefines
<1> QED BY <1>1, <1>2, <1>3, <1>4, <1>5, <1>6, <1>7 DEF LauncherNext

\* The invariant of the repository holds of the system.
THEOREM LauncherInvariance == LauncherSpec => []Inv
<1>1. LauncherInit => Inv
  BY InitInv DEF LauncherInit
<1>2. Inv /\ [LauncherNext]_allVars => Inv'
  BY LauncherRefines, NextInv
<1> QED BY <1>1, <1>2, PTL DEF LauncherSpec

(***************************************************************************)
(* The cancel operation.  A call records success by what it has read of    *)
(* the graph before: that is still true because a settled graph stays so.  *)
(***************************************************************************)
Calls == [step : FinalizerSteps, call : {"cancel", "recover"}, held : CancelStatus,
          todo : SUBSET Nodes]

CancelType == cancelOp \in CancelStatus /\ finalizer \in [Owners -> Calls]

\* A call about to record success has seen the graph settled.
RecordsSettled == \A o \in Owners : finalizer[o].step = "record" => header \in Terminal

\* What a step may do to the calls, where the graph stays settled.
CallsStep ==
    /\ CancelType'
    /\ \A o \in Owners : finalizer'[o].step = "record" =>
         finalizer[o].step = "record" \/ header' \in Terminal

\* One call moves.
LEMMA CallMoves ==
    ASSUME CancelType, NEW o \in Owners, NEW c \in Calls, finalizer' = [finalizer EXCEPT ![o] = c],
           c.step = "record" => finalizer[o].step = "record" \/ header' \in Terminal,
           cancelOp' \in CancelStatus
    PROVE  CallsStep
BY DEF CancelType, CallsStep

\* None does.
LEMMA CallsStay ==
    ASSUME CancelType, UNCHANGED finalizer, cancelOp' \in CancelStatus
    PROVE  CallsStep
BY DEF CancelType, CallsStep

LEMMA GotoMoves ==
    ASSUME CancelType, NEW o \in Owners, NEW step \in FinalizerSteps, Goto(o, step),
           step = "record" => header' \in Terminal, cancelOp' \in CancelStatus
    PROVE  CallsStep
<1> DEFINE c == [finalizer[o] EXCEPT !.step = step, !.todo = {}]
<1>1. finalizer[o] \in Calls
  BY DEF CancelType
<1>2. c \in Calls /\ c.step = step
  BY <1>1 DEF Calls
<1>3. finalizer' = [finalizer EXCEPT ![o] = c]
  BY <1>1 DEF Goto, CancelType
<1> QED BY <1>2, <1>3, CallMoves

LEMMA ReturnMoves ==
    ASSUME CancelType, NEW o \in Owners, Return(o), cancelOp' \in CancelStatus
    PROVE  CallsStep
<1>1. Idle \in Calls /\ Idle.step = "idle"
  BY DEF Idle, Calls, FinalizerSteps, CancelStatus, Unsettled
<1> QED BY <1>1, CallMoves DEF Return

LEMMA VisitedMoves ==
    ASSUME CancelType, NEW o \in Owners, NEW n, Visited(o, n), cancelOp' \in CancelStatus
    PROVE  CallsStep
<1> DEFINE c == [finalizer[o] EXCEPT !.todo = finalizer[o].todo \ {n}]
<1>1. finalizer[o] \in Calls
  BY DEF CancelType
<1>2. c \in Calls /\ c.step = finalizer[o].step
  BY <1>1 DEF Calls
<1>3. finalizer' = [finalizer EXCEPT ![o] = c]
  BY <1>1 DEF Visited, CancelType
<1> QED BY <1>2, <1>3, CallMoves

LEMMA SettleOperationType ==
    ASSUME CancelType, NEW o \in Owners, NEW status \in CancelStatus, SettleOperation(o, status)
    PROVE  cancelOp' \in CancelStatus
BY DEF CancelType, SettleOperation

LEMMA CancelStepCalls ==
    ASSUME CancelType, NEW o \in Owners, CancelStep(o)
    PROVE  CallsStep
<1> USE DEF CancelStatus, Unsettled, FinalizerSteps
<1>0. finalizer[o] \in Calls /\ cancelOp \in CancelStatus
  BY DEF CancelType
<1>1. CASE RequestGraphCancel(o)
  <2>1. cancelOp' \in CancelStatus /\ Goto(o, "claim")
    BY <1>0, <1>1 DEF RequestGraphCancel
  <2> QED BY <2>1, GotoMoves
<1>2. CASE ClaimGraphCancel(o)
  <2> DEFINE c == CASE cancelOp = "failed"    -> Idle
                    [] cancelOp = "succeeded" -> [Idle EXCEPT !.step = "release"]
                    [] OTHER -> [finalizer[o] EXCEPT !.held = cancelOp',
                                   !.step = IF cancelOp = "pending" /\ header \in Terminal
                                              THEN "record" ELSE "sweep"]
  <2>1. cancelOp' \in CancelStatus /\ header' = header
    BY <1>0, <1>2 DEF ClaimGraphCancel, vars
  <2>2. Idle \in Calls /\ [Idle EXCEPT !.step = "release"] \in Calls
        /\ Idle.step = "idle" /\ [Idle EXCEPT !.step = "release"].step = "release"
    BY DEF Idle, Calls
  <2>3. ASSUME NEW s \in {"record", "sweep"}
        PROVE  /\ [finalizer[o] EXCEPT !.held = cancelOp', !.step = s] \in Calls
               /\ [finalizer[o] EXCEPT !.held = cancelOp', !.step = s].step = s
    BY <1>0, <2>1 DEF Calls
  <2>4. c \in Calls /\ (c.step = "record" => header' \in Terminal)
    BY <2>1, <2>2, <2>3
  <2>5. finalizer' = [finalizer EXCEPT ![o] = c]
    BY <1>2 DEF ClaimGraphCancel, CancelType
  <2> QED BY <2>1, <2>4, <2>5, CallMoves
<1>3. CASE RecoverGraphCancel(o)
  <2> DEFINE c == IF header \in Terminal
                    THEN [Idle EXCEPT !.step = "record", !.held = cancelOp]
                    ELSE [step |-> "cleanup", call |-> "recover", held |-> cancelOp, todo |-> Nodes]
  <2>1. cancelOp' \in CancelStatus /\ header' = header /\ finalizer' = [finalizer EXCEPT ![o] = c]
    BY <1>0, <1>3 DEF RecoverGraphCancel, vars
  <2>2. c \in Calls /\ (c.step = "record" => header \in Terminal)
    BY <1>0 DEF Idle, Calls
  <2> QED BY <2>1, <2>2, CallMoves
<1>4. CASE SweepGraph(o)
  <2>1. cancelOp' \in CancelStatus
    BY <1>0, <1>4 DEF SweepGraph
  <2>2. CASE Return(o)
    BY <2>1, <2>2, ReturnMoves
  <2>3. CASE Goto(o, "sweep again")
    BY <2>1, <2>3, GotoMoves
  <2>4. CASE header' \in Terminal /\ Goto(o, "record")
    BY <2>1, <2>4, GotoMoves
  <2>5. CASE finalizer' = [finalizer EXCEPT ![o].step = "cleanup", ![o].todo = Nodes]
    <3> DEFINE c == [finalizer[o] EXCEPT !.step = "cleanup", !.todo = Nodes]
    <3>1. c \in Calls /\ c.step = "cleanup"
      BY <1>0 DEF Calls
    <3>2. finalizer' = [finalizer EXCEPT ![o] = c]
      BY <1>0, <2>5 DEF CancelType
    <3> QED BY <2>1, <3>1, <3>2, CallMoves
  <2> QED BY <1>4, <2>2, <2>3, <2>4, <2>5 DEF SweepGraph
<1>5. ASSUME NEW error \in Errors, SweepFails(o, error) \/ CleanupFails(o, error)
      PROVE  CallsStep
  <2>1. cancelOp' \in CancelStatus /\ Goto(o, error) /\ error \in FinalizerSteps /\ error # "record"
    BY <1>0, <1>5 DEF SweepFails, CleanupFails, Errors
  <2> QED BY <2>1, GotoMoves
<1>6. ASSUME NEW n \in Nodes, PassNode(o, n) \/ MarkUnboundRunner(o, n) \/ SettleNode(o, n)
      PROVE  CallsStep
  <2>1. cancelOp' \in CancelStatus /\ Visited(o, n)
    BY <1>0, <1>6 DEF PassNode, MarkUnboundRunner, SettleNode
  <2> QED BY <2>1, VisitedMoves
<1>7. ASSUME NEW n \in Nodes, MeetForeignClaim(o, n) PROVE CallsStep
  BY <1>0, <1>7, GotoMoves DEF MeetForeignClaim
<1>8. CASE CleanupEnds(o)
  BY <1>0, <1>8, GotoMoves DEF CleanupEnds
<1>9. CASE ViewGraph(o)
  <2>1. CASE header \in Terminal
    <3>1. cancelOp' \in CancelStatus /\ header' \in Terminal
          /\ (Goto(o, "sweep again") \/ Goto(o, "record"))
      BY <1>0, <1>9, <2>1 DEF ViewGraph, vars
    <3> QED BY <3>1, GotoMoves
  <2>2. CASE header \notin Terminal
    <3>1. Return(o) /\ (SettleOperation(o, "effect_unknown") \/ UNCHANGED cancelOp)
      BY <1>9, <2>2 DEF ViewGraph
    <3>2. cancelOp' \in CancelStatus
      BY <1>0, <3>1, SettleOperationType
    <3> QED BY <3>1, <3>2, ReturnMoves
  <2> QED BY <2>1, <2>2
<1>10. CASE HandleCancelError(o)
  <2>1. CASE header \in Terminal /\ Goto(o, "record") /\ UNCHANGED <<vars, cancelOp>>
    <3>1. header' \in Terminal /\ cancelOp' \in CancelStatus
      BY <1>0, <2>1 DEF vars
    <3> QED BY <2>1, <3>1, GotoMoves
  <2>2. CASE Return(o) /\ (\/ UNCHANGED cancelOp
                           \/ SettleOperation(o, "effect_unknown") \/ SettleOperation(o, "failed"))
    <3>1. cancelOp' \in CancelStatus
      BY <1>0, <2>2, SettleOperationType
    <3> QED BY <2>2, <3>1, ReturnMoves
  <2> QED BY <1>10, <2>1, <2>2 DEF HandleCancelError
<1>11. CASE RecordGraphCancel(o)
  <2>1. SettleOperation(o, "succeeded") /\ (Goto(o, "release") \/ Return(o))
    BY <1>11 DEF RecordGraphCancel
  <2>2. cancelOp' \in CancelStatus
    BY <2>1, SettleOperationType
  <2> QED BY <2>1, <2>2, GotoMoves, ReturnMoves
<1>12. CASE ReleaseDependencies(o)
  BY <1>0, <1>12, ReturnMoves DEF ReleaseDependencies
<1> QED BY <1>1, <1>2, <1>3, <1>4, <1>5, <1>6, <1>7, <1>8, <1>9, <1>10, <1>11, <1>12
       DEF CancelStep, FinalizerStep

\* Success is recorded by a call that is about to.
LEMMA SuccessRecorded ==
    ASSUME NEW o \in Owners, CancelStep(o), cancelOp' = "succeeded", cancelOp # "succeeded"
    PROVE  finalizer[o].step = "record"
<1>1. CASE RequestGraphCancel(o)
  BY <1>1 DEF RequestGraphCancel
<1>2. CASE ClaimGraphCancel(o)
  BY <1>2 DEF ClaimGraphCancel
<1>3. CASE ViewGraph(o)
  BY <1>3 DEF ViewGraph, SettleOperation
<1>4. CASE HandleCancelError(o)
  BY <1>4 DEF HandleCancelError, SettleOperation
<1>5. CASE RecordGraphCancel(o)
  BY <1>5 DEF RecordGraphCancel, At
<1>6. CASE UNCHANGED cancelOp
  BY <1>6
<1> QED BY <1>1, <1>2, <1>3, <1>4, <1>5, <1>6
       DEF CancelStep, FinalizerStep, RecoverGraphCancel, SweepGraph, SweepFails, PassNode,
           MarkUnboundRunner, MeetForeignClaim, SettleNode, CleanupEnds, CleanupFails,
           ReleaseDependencies

\* The other steps leave the operation alone, and a crash ends its call.
LEMMA OtherStepCalls ==
    ASSUME CancelType, [LauncherNext]_allVars, ~(\E o \in Owners : CancelStep(o))
    PROVE  CallsStep /\ UNCHANGED cancelOp
<1>1. CASE UNCHANGED <<finalizer, cancelOp>>
  BY <1>1, CallsStay DEF CancelType
<1>2. ASSUME NEW o \in Owners, Crash(o) PROVE CallsStep /\ UNCHANGED cancelOp
  BY <1>2, ReturnMoves DEF Crash, Return, CancelType
<1>3. ASSUME NEW o \in Owners, NEW n \in Nodes, NodeTaskStep(o, n)
      PROVE  UNCHANGED <<finalizer, cancelOp>>
  BY <1>3 DEF NodeTaskStep, StartNode, WatchBoundNode, ServeBoundNode, Heartbeat, ProjectInput,
       ProjectionFails, StartExecution, Bind, Handoff, RunnerSettles, RunnerFails, RunnerYields,
       RunnerDefers, SettlerSettles, SettlerFails, SettlerDefers, MarkerMarks, TaskEnds,
       launcherVars, serviceVars
<1>4. CASE ServiceStep
  BY <1>1, <1>4 DEF ServiceStep, Recover, ServiceReads, SupplyInput, RequestNodeCancel,
       SettleNodeCancel, ResolveNotApplied, SettleExecutionCancellation, launcherVars, serviceVars
<1> QED BY <1>1, <1>2, <1>3, <1>4
       DEF LauncherNext, Arm, Schedule, LoopEnds, ExecutionFinishes, ExecutionCancelled, Time,
           launcherVars, serviceVars, allVars

\* The cancel operation is recorded as succeeded only for a graph that has settled,
\* and the graph stays so, whichever calls drive it and whatever errors they meet.
THEOREM CancelConfirmed == LauncherSpec => []ConfirmedCancelSettled
<1> DEFINE Confirmed == HeaderAgrees /\ CancelType /\ RecordsSettled /\ ConfirmedCancelSettled
<1>1. LauncherInit => Confirmed
  BY DEF LauncherInit, Init, HeaderAgrees, CancelType, RecordsSettled, ConfirmedCancelSettled,
         Idle, Calls, FinalizerSteps, CancelStatus, Unsettled
<1>2. Inv /\ Confirmed /\ [LauncherNext]_allVars => Confirmed'
  <2> SUFFICES ASSUME Inv, Confirmed, [LauncherNext]_allVars PROVE Confirmed'
    OBVIOUS
  <2>1. [Next]_vars
    BY LauncherRefines
  <2>2. HeaderAgrees'
    BY <2>1, NextHeader, NextHeaderAgrees DEF Inv
  <2>3. header \in Terminal => header' \in Terminal
    BY <2>1, SettledStep
  <2>4. CallsStep
    BY CancelStepCalls, OtherStepCalls
  <2>5. cancelOp' = "succeeded" => header \in Terminal
    BY SuccessRecorded, OtherStepCalls DEF RecordsSettled, ConfirmedCancelSettled
  <2> QED BY <2>2, <2>3, <2>4, <2>5 DEF CallsStep, RecordsSettled, ConfirmedCancelSettled
<1>3. Confirmed => ConfirmedCancelSettled
  OBVIOUS
<1> QED BY <1>1, <1>2, <1>3, LauncherInvariance, PTL DEF LauncherSpec

(***************************************************************************)
(* What nodes report about executions.  That a node is cancelled without   *)
(* effect is not inductive: a process whose lease is gone may still start  *)
(* the execution of a node it once claimed.  The invariant says why it     *)
(* cannot: nobody ever claimed the node, or the input of the node was      *)
(* never projected, and a node that has settled is not projected any more. *)
(***************************************************************************)

\* A task exists, and an execution exists, only for a node that was claimed; the
\* execution of a projected node, only once its input is stored.
StartedByClaim ==
    \A n \in Nodes :
        /\ \A o \in Owners : tasks[o][n].kind # "none" => nodes[n].fence > 0
        /\ outcome[n] # "absent" =>
             nodes[n].fence > 0 /\ (Kind[n] = "projected" => n \in prepared)

\* A node that says its input could not be projected has no stored input.
ProjectionHeld ==
    \A n \in Nodes : nodes[n].error = "projection" =>
        nodes[n].status = "RECOVERY_REQUIRED" /\ Kind[n] = "projected" /\ n \notin prepared

\* Nobody can have started the execution of a node cancelled without one.
CancelledUnstarted ==
    \A n \in Nodes : nodes[n].status = "CANCELLED" /\ ~nodes[n].bound =>
        nodes[n].fence = 0 \/ (Kind[n] = "projected" /\ n \notin prepared)

LauncherType ==
    /\ tasks \in [Owners -> [Nodes -> Task]]
    /\ outcome \in [Nodes -> Outcomes]

EffectInv ==
    /\ Inv
    /\ LauncherType
    /\ StartedByClaim
    /\ ProjectionHeld
    /\ CancelledUnstarted
    /\ SettledAsExecuted

\* A write that neither cancels a node nor puts a projection failure on it.
Quiet(v, w) ==
    /\ w.status = "CANCELLED" => v.status = "CANCELLED"
    /\ w.error = "projection" => v.error = "projection" /\ w.status = v.status

AllQuiet == \A m \in Nodes : Quiet(nodes[m], nodes'[m])

\* What a step of the launchers may make node m report.
ReportsOf(m) ==
    /\ nodes'[m].status = "CANCELLED" =>
         \/ nodes[m].status = "CANCELLED"
         \/ nodes'[m].bound /\ outcome[m] = "cancelled"
         \/ ~nodes'[m].bound /\ (nodes'[m].fence = 0 \/ nodes[m].error = "projection")
    /\ nodes'[m].error = "projection" =>
         \/ nodes[m].error = "projection" /\ nodes'[m].status = nodes[m].status
         \/ nodes'[m].status = "RECOVERY_REQUIRED" /\ Kind[m] = "projected" /\ m \notin prepared

Reports ==
    /\ \A m \in Nodes : ReportsOf(m)
    /\ \A m \in results' \ results : outcome[m] = "ok"
    /\ \A m \in prepared' \ prepared : nodes[m].status = "RUNNING" /\ nodes' = nodes
    /\ prepared \subseteq prepared'

\* Quiet steps report nothing new.
LEMMA QuietReports ==
    ASSUME AllQuiet, \A m \in results' \ results : outcome[m] = "ok", prepared' = prepared
    PROVE  Reports
BY DEF AllQuiet, Quiet, Reports, ReportsOf

\* One quiet write.
LEMMA QuietUpdate ==
    ASSUME TypeOK, NEW n \in Nodes, NEW w, Quiet(nodes[n], w), UpdateNode(n, w)
    PROVE  AllQuiet
BY DEF TypeOK, UpdateNode, AllQuiet, Quiet

\* Reconciliation cancels nothing and leaves the nodes that wait for recovery.
LEMMA QuietReconcile ==
    ASSUME NEW ns \in [Nodes -> NodeView], NEW expire \in BOOLEAN, ReconcileTo(ns, expire),
           \A m \in Nodes : ns[m].error = "projection" => ns[m].status = "RECOVERY_REQUIRED"
    PROVE  \A m \in Nodes : Quiet(ns[m], nodes'[m])
<1> DEFINE freed == [n \in Nodes |-> Requeued(ns[n], expire)]
<1>1. ASSUME NEW m \in Nodes
      PROVE  /\ freed[m] \in NodeView
             /\ Quiet(ns[m], freed[m])
             /\ freed[m].error = "projection" => freed[m].status = "RECOVERY_REQUIRED"
  <2>1. freed[m] = Requeued(ns[m], expire) /\ ns[m] \in NodeView
    OBVIOUS
  <2>2. Requeued(ns[m], expire) \in NodeView
    BY <2>1, RequeuedType
  <2>3. /\ Quiet(ns[m], Requeued(ns[m], expire))
        /\ Requeued(ns[m], expire).error = ns[m].error
        /\ ns[m].status = "RECOVERY_REQUIRED" => Requeued(ns[m], expire).status = "RECOVERY_REQUIRED"
    BY <2>1 DEF Requeued, Quiet, NodeView
  <2> QED BY <2>1, <2>2, <2>3
<1>2. PICK B \in SUBSET Nodes :
         nodes' = [n \in Nodes |-> ReconciledNode(n, freed[n], StatusWith(freed, B))]
  BY DEF ReconcileTo
<1> HIDE DEF freed
<1>3. ASSUME NEW m \in Nodes PROVE Quiet(ns[m], nodes'[m])
  <2> DEFINE v == freed[m]
  <2>1. nodes'[m] = ReconciledNode(m, v, StatusWith(freed, B))
    BY <1>2
  <2>2. v \in NodeView /\ Quiet(ns[m], v) /\ (v.error = "projection" => v.status = "RECOVERY_REQUIRED")
    BY <1>1
  <2> HIDE DEF v
  <2>3. Quiet(v, ReconciledNode(m, v, StatusWith(freed, B)))
    BY <2>2 DEF ReconciledNode, Reconcilable, Quiet, NodeView
  <2> QED BY <2>1, <2>2, <2>3 DEF Quiet
<1> QED BY <1>3

\* Released views are quiet unless they cancel or blame the projection.
LEMMA QuietRelease ==
    ASSUME NEW v \in NodeView, NEW s, s # "CANCELLED", NEW e, e # "projection",
           NEW b, NEW d, NEW p
    PROVE  /\ Quiet(v, Released(v, s, e))
           /\ Quiet(v, [Released(v, s, e) EXCEPT !.bound = b])
           /\ Quiet(v, [Released(v, s, e) EXCEPT !.delay = d])
           /\ Quiet(v, [Released(v, s, e) EXCEPT !.bound = b, !.occupies = p])
BY DEF Released, Quiet, NodeView

\* Operations on one node, the settling ones excepted, are quiet.
LEMMA QuietOperation ==
    ASSUME TypeOK, ProjectionHeld, NEW n \in Nodes, NEW o \in Owners, NEW f,
           \/ Claim(o, n)
           \/ Renew(o, n, f)
           \/ BindExecution(o, n, f)
           \/ \E p \in BOOLEAN : HandoffExecution(o, n, f, p)
           \/ \E d \in 0..MaxDelay : RequeueRetry(o, n, f, d) \/ RequeueWaitingRetry(n, f, d)
           \/ \E x \in BOOLEAN : MarkRecoveryRequired(o, n, f, "unknown", x) \/ Fail(n, x)
           \/ MarkBoundRecoveryRequired(n, f)
           \/ CancelNodeUnconfirmed(n, f)
    PROVE  AllQuiet /\ results' = results /\ prepared' = prepared
<1>1. nodes[n] \in NodeView
  BY DEF TypeOK
<1>2. CASE Claim(o, n)
  <2>1. nodes[n].error # "projection"
    BY <1>2 DEF Claim, Claimable, ProjectionHeld
  <2>2. Quiet(nodes[n], [nodes[n] EXCEPT !.status = "RUNNING", !.owner = o,
                 !.fence = nodes[n].fence + 1, !.ttl = LeaseSeconds, !.delay = 0, !.occupies = FALSE])
    BY <1>1, <2>1 DEF NodeView, Quiet
  <2> QED BY <1>2, <2>2, QuietUpdate DEF Claim
<1>3. CASE Renew(o, n, f)
  <2>1. Quiet(nodes[n], [nodes[n] EXCEPT !.ttl = LeaseSeconds])
    BY <1>1 DEF NodeView, Quiet
  <2> QED BY <1>3, <2>1, QuietUpdate DEF Renew
<1>4. CASE BindExecution(o, n, f)
  <2>1. Quiet(nodes[n], [nodes[n] EXCEPT !.bound = TRUE])
    BY <1>1 DEF NodeView, Quiet
  <2> QED BY <1>4, <2>1, QuietUpdate DEF BindExecution
<1>5. ASSUME NEW p \in BOOLEAN, HandoffExecution(o, n, f, p)
      PROVE  AllQuiet /\ results' = results /\ prepared' = prepared
  <2>1. Quiet(nodes[n], [Released(nodes[n], "WAITING", "none") EXCEPT !.bound = TRUE, !.occupies = p])
    BY <1>1, QuietRelease
  <2> QED BY <1>5, <2>1, QuietUpdate DEF HandoffExecution
<1>6. ASSUME NEW d \in 0..MaxDelay, RequeueRetry(o, n, f, d) \/ RequeueWaitingRetry(n, f, d)
      PROVE  AllQuiet /\ results' = results /\ prepared' = prepared
  <2>1. Quiet(nodes[n], [Released(nodes[n], "READY", "none") EXCEPT !.delay = d])
    BY <1>1, QuietRelease
  <2> QED BY <1>6, <2>1, QuietUpdate DEF RequeueRetry, RequeueWaitingRetry
<1>7. ASSUME NEW x \in BOOLEAN, MarkRecoveryRequired(o, n, f, "unknown", x)
      PROVE  AllQuiet /\ results' = results /\ prepared' = prepared
  <2>1. Quiet(nodes[n], [Released(nodes[n], "RECOVERY_REQUIRED", "unknown") EXCEPT
                           !.bound = nodes[n].bound \/ x])
    BY <1>1, QuietRelease
  <2> QED BY <1>7, <2>1, QuietUpdate DEF MarkRecoveryRequired
<1>8. ASSUME NEW x \in BOOLEAN, Fail(n, x)
      PROVE  AllQuiet /\ results' = results /\ prepared' = prepared
  <2>1. Quiet(nodes[n], [Released(nodes[n], "FAILED", "failed") EXCEPT !.bound = nodes[n].bound \/ x])
    BY <1>1, QuietRelease
  <2> QED BY <1>8, <2>1, QuietUpdate DEF Fail
<1>9. CASE MarkBoundRecoveryRequired(n, f) \/ CancelNodeUnconfirmed(n, f)
  <2>1. Quiet(nodes[n], Released(nodes[n], "RECOVERY_REQUIRED", "unknown"))
    BY <1>1, QuietRelease
  <2> QED BY <1>9, <2>1, QuietUpdate DEF MarkBoundRecoveryRequired, CancelNodeUnconfirmed
<1> QED BY <1>2, <1>3, <1>4, <1>5, <1>6, <1>7, <1>8, <1>9

\* complete() stores one result and is quiet.
LEMMA QuietComplete ==
    ASSUME TypeOK, NEW n \in Nodes, Complete(n)
    PROVE  AllQuiet /\ results' = results \cup {n} /\ prepared' = prepared
<1>1. ASSUME NEW m \in Nodes PROVE Quiet(nodes[m], nodes'[m])
  <2>1. nodes[m] \in NodeView
    BY DEF TypeOK
  <2>2. Quiet(nodes[m], [Released(nodes[m], "SUCCEEDED", "none") EXCEPT !.bound = TRUE])
    BY <2>1, QuietRelease
  <2>3. Quiet(nodes[m], FreshView(m, InitialStatus(m)))
    BY DEF FreshView, InitialStatus, Quiet
  <2>4. Quiet(nodes[m], nodes[m])
    BY DEF Quiet
  <2> QED BY <2>2, <2>3, <2>4 DEF Complete
<1> QED BY <1>1 DEF Complete, AllQuiet

\* Scheduling, recovery and the passage of time are quiet.
LEMMA QuietGraph ==
    ASSUME TypeOK, ProjectionHeld,
           \/ SchedulerState
           \/ RecoverGraph
           \/ \E n \in Nodes, f \in 1..MaxFence, d \in 0..MaxDelay : RequeueRecovery(n, f, d)
           \/ Tick
    PROVE  AllQuiet /\ results' = results /\ prepared' = prepared
<1>0. \A m \in Nodes : nodes[m] \in NodeView
  BY DEF TypeOK
<1>1. CASE SchedulerState
  <2>1. \A m \in Nodes : Quiet(nodes[m], nodes'[m])
    BY <1>1, QuietReconcile DEF SchedulerState, TypeOK, ProjectionHeld
  <2> QED BY <1>1, <2>1 DEF SchedulerState, AllQuiet
<1>2. CASE RecoverGraph
  <2> DEFINE ns == [n \in Nodes |-> Recovered(nodes[n])]
  <2>1. ASSUME NEW v \in NodeView PROVE Recovered(v) \in NodeView
    <3>1. \A s \in Status : Released(v, s, "none") \in NodeView
      BY ReleasedType DEF ErrorClass
    <3>2. Released(v, "READY", "none") \in NodeView /\ Released(v, "PENDING", "none") \in NodeView
      BY <3>1 DEF Status, Live
    <3> QED BY <3>2, Ranges DEF Recovered, NodeView
  <2>2. ASSUME NEW m \in Nodes
        PROVE  /\ Quiet(nodes[m], ns[m])
               /\ ns[m].error = "projection" => ns[m].status = "RECOVERY_REQUIRED"
    <3>1. nodes[m] \in NodeView
      BY <1>0
    <3>2. nodes[m].error = "projection" => nodes[m].status = "RECOVERY_REQUIRED"
      BY DEF ProjectionHeld
    <3>3. /\ Quiet(nodes[m], Recovered(nodes[m]))
          /\ Recovered(nodes[m]).error = "projection" => Recovered(nodes[m]).status = "RECOVERY_REQUIRED"
      BY <3>1, <3>2 DEF Recovered, Released, Quiet, NodeView
    <3> QED BY <3>3
  <2>3. ns \in [Nodes -> NodeView]
    BY <1>0, <2>1
  <2>4. ReconcileTo(ns, FALSE)
    BY <1>2 DEF RecoverGraph
  <2> HIDE DEF ns
  <2>5. \A m \in Nodes : Quiet(ns[m], nodes'[m])
    BY <2>2, <2>3, <2>4, QuietReconcile
  <2> QED BY <1>2, <2>2, <2>5 DEF RecoverGraph, AllQuiet, Quiet
<1>3. ASSUME NEW n \in Nodes, NEW f \in 1..MaxFence, NEW d \in 0..MaxDelay, RequeueRecovery(n, f, d)
      PROVE  AllQuiet /\ results' = results /\ prepared' = prepared
  <2> DEFINE w == [Released(nodes[n], "READY", "none") EXCEPT !.delay = d]
             ns == [nodes EXCEPT ![n] = w]
  <2>1. Released(nodes[n], "READY", "none") \in NodeView
    BY <1>0, ReleasedType DEF Status, Live, ErrorClass
  <2>2. w \in NodeView /\ Quiet(nodes[n], w) /\ w.error = "none"
    BY <2>1, <1>0, QuietRelease DEF NodeView, Released
  <2>3. ReconcileTo(ns, FALSE) /\ results' = results /\ prepared' = prepared
    BY <1>3 DEF RequeueRecovery
  <2> HIDE DEF w
  <2>4. ns \in [Nodes -> NodeView]
    BY <2>2 DEF TypeOK
  <2>5. \A m \in Nodes : /\ Quiet(nodes[m], ns[m])
                         /\ ns[m].error = "projection" => ns[m].status = "RECOVERY_REQUIRED"
    BY <2>2 DEF TypeOK, ProjectionHeld, Quiet
  <2> HIDE DEF ns
  <2>6. \A m \in Nodes : Quiet(ns[m], nodes'[m])
    BY <2>3, <2>4, <2>5, QuietReconcile
  <2> QED BY <2>3, <2>5, <2>6 DEF AllQuiet, Quiet
<1>4. CASE Tick
  <2>1. ASSUME NEW v \in NodeView
        PROVE  Quiet(v, [v EXCEPT !.ttl = IF @ > 0 THEN @ - 1 ELSE @,
                                  !.delay = IF @ > 0 THEN @ - 1 ELSE @])
    BY DEF NodeView, Quiet
  <2> QED BY <1>0, <1>4, <2>1 DEF Tick, AllQuiet
<1> QED BY <1>1, <1>2, <1>3, <1>4

\* cancel_node, of a node whose execution confirmed that it stopped.
LEMMA CancelNodeReports ==
    ASSUME Inv, ProjectionHeld, NEW n \in Nodes, NEW f, CancelNode(n, f), outcome[n] = "cancelled",
           \A m \in Nodes : StepOf(m)
    PROVE  Reports
<1> DEFINE w == Released(nodes[n], "CANCELLED", "none")
           ns == [nodes EXCEPT ![n] = w]
<1>1. nodes[n] \in NodeView /\ nodes \in [Nodes -> NodeView]
  BY DEF Inv, TypeOK
<1>2. w \in NodeView /\ w.error = "none"
  <2>1. w \in NodeView
    BY <1>1, ReleasedType DEF Status, Terminal, ErrorClass
  <2>2. w.error = "none"
    BY <1>1 DEF Released, NodeView
  <2> QED BY <2>1, <2>2
<1>3. /\ ReconcileTo(ns, FALSE) /\ results' = results /\ prepared' = prepared
      /\ nodes[n].bound
  BY DEF CancelNode, BoundAt
<1> HIDE DEF w
<1>4. ns \in [Nodes -> NodeView]
  BY <1>1, <1>2
<1>5. /\ \A m \in Nodes : ns[m].error = "projection" => ns[m].status = "RECOVERY_REQUIRED"
      /\ \A m \in Nodes : m # n => ns[m] = nodes[m]
      /\ ns[n].error = "none"
  BY <1>1, <1>2 DEF ProjectionHeld
<1> HIDE DEF ns
<1>6. \A m \in Nodes : Quiet(ns[m], nodes'[m])
  BY <1>3, <1>4, <1>5, QuietReconcile
<1>7. nodes'[n].bound
  BY <1>3 DEF StepOf
<1> QED BY <1>3, <1>5, <1>6, <1>7 DEF Quiet, Reports, ReportsOf

\* cancel_graph cancels the nodes nobody claimed and those without an input.
LEMMA CancelGraphReports ==
    ASSUME Inv, ProjectionHeld, CancelGraph
    PROVE  Reports
<1>1. ASSUME NEW m \in Nodes PROVE ReportsOf(m)
  <2> DEFINE v == nodes[m]
  <2>1. v \in NodeView /\ NodeShape(v)
    BY DEF Inv, TypeOK, LeaseShape
  <2>2. nodes'[m] = CancelledView(v)
    BY DEF CancelGraph
  <2>3. v.error = "projection" => v.status = "RECOVERY_REQUIRED"
    BY DEF ProjectionHeld
  <2>4. CASE v.status = "RECOVERY_REQUIRED" /\ ~v.bound /\ v.error = "projection"
    <3>1. nodes'[m] = [v EXCEPT !.status = "CANCELLED", !.error = "none"]
      BY <2>2, <2>4 DEF CancelledView
    <3> QED BY <2>1, <2>4, <3>1 DEF NodeView, ReportsOf
  <2>5. CASE v.status \in {"PENDING", "READY"} /\ ~v.bound /\ v.fence = 0
    <3>1. nodes'[m] = Released(v, "CANCELLED", v.error)
      BY <2>2, <2>5 DEF CancelledView
    <3>2. ~nodes'[m].bound /\ nodes'[m].fence = 0 /\ nodes'[m].error # "projection"
      BY <2>1, <2>3, <2>5, <3>1 DEF NodeView, Released
    <3> QED BY <3>2 DEF ReportsOf
  <2>6. CASE v.status \in {"PENDING", "READY"} /\ ~v.bound /\ v.fence > 0
    <3>1. nodes'[m] = Released(v, "RECOVERY_REQUIRED", "unbound")
      BY <2>1, <2>2, <2>6 DEF CancelledView, NodeView
    <3>2. nodes'[m].status = "RECOVERY_REQUIRED" /\ nodes'[m].error = "unbound"
      BY <2>1, <3>1 DEF NodeView, Released
    <3> QED BY <3>2 DEF ReportsOf
  <2>7. CASE ~ \/ v.status = "RECOVERY_REQUIRED" /\ ~v.bound /\ v.error = "projection"
               \/ v.status \in {"PENDING", "READY"} /\ ~v.bound /\ v.fence = 0
               \/ v.status \in {"PENDING", "READY"} /\ ~v.bound /\ v.fence > 0
    <3>1. nodes'[m] = nodes[m]
      BY <2>2, <2>7 DEF CancelledView
    <3> QED BY <3>1 DEF ReportsOf
  <2> QED BY <2>4, <2>5, <2>6, <2>7
<1> QED BY <1>1 DEF CancelGraph, Reports

\* A failed projection is put on a node that has no stored input.
LEMMA ProjectionReports ==
    ASSUME TypeOK, NEW n \in Nodes, NEW o \in Owners, NEW f,
           Kind[n] = "projected", n \notin prepared,
           MarkRecoveryRequired(o, n, f, "projection", FALSE)
    PROVE  Reports
<1> DEFINE w == [Released(nodes[n], "RECOVERY_REQUIRED", "projection") EXCEPT
                   !.bound = nodes[n].bound \/ FALSE]
<1>1. UpdateNode(n, w) /\ results' = results /\ prepared' = prepared
  BY DEF MarkRecoveryRequired
<1>2. w.status = "RECOVERY_REQUIRED"
  BY DEF TypeOK, NodeView, Released
<1> HIDE DEF w
<1>3. nodes'[n] = w /\ \A m \in Nodes : m # n => nodes'[m] = nodes[m]
  BY <1>1 DEF UpdateNode, TypeOK
<1> QED BY <1>1, <1>2, <1>3 DEF Reports, ReportsOf

\* A step that leaves the repository alone reports nothing.
LEMMA SilentReports == ASSUME UNCHANGED vars PROVE Reports
BY DEF vars, Reports, ReportsOf

\* Nor does what becomes of a cancel operation in the ledger.
LEMMA LedgerReports ==
    ASSUME NEW s, RegisterCancelRequest(s) \/ SettleCancelRequest(s)
    PROVE  Reports
BY DEF RegisterCancelRequest, SettleCancelRequest, Reports, ReportsOf

LEMMA SettleOperationReports ==
    ASSUME NEW o \in Owners, NEW status, SettleOperation(o, status)
    PROVE  Reports
BY LedgerReports, SilentReports DEF SettleOperation

\* What a node task makes the nodes report.
LEMMA NodeTaskReports ==
    ASSUME Inv, ProjectionHeld, NEW o \in Owners, NEW n \in Nodes, NodeTaskStep(o, n),
           \A m \in Nodes : StepOf(m)
    PROVE  Reports
<1> DEFINE f == Fence(o, n)
           Quietly == AllQuiet /\ results' = results /\ prepared' = prepared
<1>0. TypeOK
  BY DEF Inv
<1>a. Quietly => Reports
  BY QuietReports
<1>1. ASSUME NEW answered \in BOOLEAN, StartNode(o, n, answered) PROVE Reports
  BY <1>0, <1>1, <1>a, QuietOperation DEF StartNode
<1>2. CASE Heartbeat(o, n)
  BY <1>0, <1>2, <1>a, QuietOperation DEF Heartbeat
<1>3. CASE ProjectInput(o, n)
  BY <1>3 DEF ProjectInput, PublishPreparedInput, LiveLease, Reports, ReportsOf
<1>4. CASE ProjectionFails(o, n)
  BY <1>0, <1>4, ProjectionReports DEF ProjectionFails
<1>5. CASE Bind(o, n)
  BY <1>0, <1>5, <1>a, QuietOperation DEF Bind
<1>6. CASE Handoff(o, n)
  BY <1>0, <1>6, <1>a, QuietOperation DEF Handoff
<1>7. CASE RunnerSettles(o, n)
  <2>1. CASE outcome[n] = "ok" /\ CompleteLease(o, n, f)
    BY <1>0, <2>1, QuietComplete, QuietReports DEF CompleteLease
  <2>2. CASE FailLease(o, n, f, TRUE)
    BY <1>0, <2>2, <1>a, QuietOperation DEF FailLease
  <2>3. CASE outcome[n] = "cancelled" /\ CancelNode(n, f)
    BY <2>3, CancelNodeReports
  <2>4. CASE \E d \in 0..MaxDelay : RequeueRetry(o, n, f, d)
    BY <1>0, <2>4, <1>a, QuietOperation
  <2> QED BY <1>7, <2>1, <2>2, <2>3, <2>4 DEF RunnerSettles
<1>8. ASSUME NEW named \in BOOLEAN, RunnerFails(o, n, named) PROVE Reports
  BY <1>0, <1>8, <1>a, QuietOperation DEF RunnerFails, FailLease
<1>9. ASSUME NEW named \in BOOLEAN, RunnerDefers(o, n, named) PROVE Reports
  BY <1>0, <1>9, <1>a, QuietOperation DEF RunnerDefers
<1>10. CASE SettlerSettles(o, n)
  <2>1. CASE outcome[n] = "ok" /\ CompleteBound(n, f)
    BY <1>0, <2>1, QuietComplete, QuietReports DEF CompleteBound
  <2>2. CASE FailBound(n, f)
    BY <1>0, <2>2, <1>a, QuietOperation DEF FailBound
  <2>3. CASE outcome[n] = "cancelled" /\ CancelNode(n, f)
    BY <2>3, CancelNodeReports
  <2>4. CASE \E d \in 0..MaxDelay : RequeueWaitingRetry(n, f, d)
    BY <1>0, <2>4, <1>a, QuietOperation
  <2> QED BY <1>10, <2>1, <2>2, <2>3, <2>4 DEF SettlerSettles
<1>11. CASE SettlerFails(o, n)
  BY <1>0, <1>11, <1>a, QuietOperation DEF SettlerFails, FailBound
<1>12. CASE MarkerMarks(o, n)
  BY <1>0, <1>12, <1>a, QuietOperation DEF MarkerMarks
<1>13. CASE \/ WatchBoundNode(o, n) \/ ServeBoundNode(o, n) \/ StartExecution(o, n)
            \/ RunnerYields(o, n) \/ SettlerDefers(o, n) \/ TaskEnds(o, n)
  BY <1>13, SilentReports
     DEF WatchBoundNode, ServeBoundNode, StartExecution, RunnerYields, SettlerDefers, TaskEnds
<1> QED BY <1>1, <1>2, <1>3, <1>4, <1>5, <1>6, <1>7, <1>8, <1>9, <1>10, <1>11, <1>12, <1>13
       DEF NodeTaskStep

\* What the task service makes the nodes report.
LEMMA ServiceReports ==
    ASSUME Inv, ProjectionHeld, ServiceStep, \A m \in Nodes : StepOf(m)
    PROVE  Reports
<1>0. TypeOK
  BY DEF Inv
<1>1. CASE Recover \/ ServiceReads
  BY <1>0, <1>1, QuietGraph, QuietReports DEF Recover, ServiceReads
<1>2. ASSUME NEW n \in Nodes, SupplyInput(n) PROVE Reports
  BY <1>0, <1>2, QuietComplete, QuietReports DEF SupplyInput, CompleteWaiting
<1>3. ASSUME NEW n \in Nodes, RequestNodeCancel(n) \/ SettleNodeCancel(n) PROVE Reports
  BY <1>3, LedgerReports DEF RequestNodeCancel, SettleNodeCancel
<1>4. ASSUME NEW n \in Nodes, NEW f \in 1..MaxFence, ResolveNotApplied(n, f) PROVE Reports
  <2>1. PICK d \in 0..MaxDelay : RequeueRecovery(n, f, d)
    BY <1>4 DEF ResolveNotApplied
  <2>2. AllQuiet /\ results' = results /\ prepared' = prepared
    BY <1>0, <2>1, QuietGraph
  <2> QED BY <2>2, QuietReports
<1>5. ASSUME NEW n \in Nodes, NEW f \in 1..MaxFence, SettleExecutionCancellation(n, f) PROVE Reports
  <2>1. CASE outcome[n] = "cancelled" /\ CancelNode(n, f)
    BY <2>1, CancelNodeReports
  <2>2. CASE CancelNodeUnconfirmed(n, f)
    <3>1. PICK o \in Owners : TRUE
      BY LauncherAssumption DEF LauncherAssumption
    <3> QED BY <1>0, <2>2, <3>1, QuietOperation, QuietReports
  <2> QED BY <1>5, <2>1, <2>2 DEF SettleExecutionCancellation
<1> QED BY <1>1, <1>2, <1>3, <1>4, <1>5 DEF ServiceStep

\* What a call of cancel() or recover() makes the nodes report.
LEMMA CancelReports ==
    ASSUME Inv, ProjectionHeld, NEW o \in Owners, CancelStep(o)
    PROVE  Reports
<1>0. TypeOK
  BY DEF Inv
<1>1. CASE RequestGraphCancel(o)
  BY <1>1, LedgerReports, SilentReports DEF RequestGraphCancel
<1>2. CASE ClaimGraphCancel(o) \/ RecoverGraphCancel(o) \/ CleanupEnds(o)
  BY <1>2, SilentReports DEF ClaimGraphCancel, RecoverGraphCancel, CleanupEnds
<1>3. ASSUME NEW n \in Nodes, PassNode(o, n) \/ MeetForeignClaim(o, n) \/ SettleNode(o, n)
      PROVE  Reports
  BY <1>3, SilentReports DEF PassNode, MeetForeignClaim, SettleNode
<1>4. ASSUME NEW error \in Errors, SweepFails(o, error) \/ CleanupFails(o, error)
      PROVE  Reports
  BY <1>4, CancelGraphReports, SilentReports DEF SweepFails, CleanupFails
<1>5. CASE SweepGraph(o)
  BY <1>5, CancelGraphReports DEF SweepGraph
<1>6. ASSUME NEW n \in Nodes, MarkUnboundRunner(o, n) PROVE Reports
  <2>1. MarkRecoveryRequired(o, n, Fence(o, n), "unknown", FALSE)
    BY <1>6 DEF MarkUnboundRunner
  <2> QED BY <1>0, <2>1, QuietOperation, QuietReports
<1>7. CASE ViewGraph(o)
  BY <1>7, SettleOperationReports, SilentReports DEF ViewGraph
<1>8. CASE HandleCancelError(o)
  BY <1>8, SettleOperationReports, SilentReports DEF HandleCancelError
<1>9. CASE RecordGraphCancel(o)
  BY <1>9, SettleOperationReports, SilentReports DEF RecordGraphCancel
<1>10. CASE ReleaseDependencies(o)
  BY <1>0, <1>10, QuietGraph, QuietReports DEF ReleaseDependencies
<1> QED BY <1>1, <1>2, <1>3, <1>4, <1>5, <1>6, <1>7, <1>8, <1>9, <1>10 DEF CancelStep, FinalizerStep

\* What any step of the system makes the nodes report.
LEMMA StepReports ==
    ASSUME Inv, ProjectionHeld, [LauncherNext]_allVars, \A m \in Nodes : StepOf(m)
    PROVE  Reports
<1>0. TypeOK
  BY DEF Inv
<1>1. ASSUME NEW o \in Owners, Schedule(o) PROVE Reports
  BY <1>0, <1>1, QuietGraph, QuietReports DEF Schedule
<1>2. CASE Time
  BY <1>0, <1>2, QuietGraph, QuietReports DEF Time
<1>3. ASSUME NEW o \in Owners, Arm(o) \/ LoopEnds(o) \/ Crash(o) PROVE Reports
  BY <1>3, SilentReports DEF Arm, LoopEnds, Crash
<1>4. ASSUME NEW n \in Nodes, ExecutionFinishes(n) \/ ExecutionCancelled(n) PROVE Reports
  BY <1>4, SilentReports DEF ExecutionFinishes, ExecutionCancelled
<1>5. CASE UNCHANGED allVars
  BY <1>5, SilentReports DEF allVars, vars
<1> QED BY <1>1, <1>2, <1>3, <1>4, <1>5, NodeTaskReports, ServiceReports, CancelReports DEF LauncherNext

\* What a step may do to tasks and executions: a task is created for a node that
\* is claimed, by then, and an execution by a task; one that has ended stays so.
LauncherStep ==
    /\ LauncherType'
    /\ \A o \in Owners, n \in Nodes : tasks'[o][n].kind # "none" =>
         tasks[o][n].kind # "none" \/ nodes'[n].fence > 0
    /\ \A n \in Nodes : outcome'[n] # outcome[n] =>
         \/ /\ outcome[n] = "absent"
            /\ \E o \in Owners : tasks[o][n].kind # "none"
            /\ Kind[n] = "projected" => n \in prepared
         \/ outcome[n] = "open" /\ outcome'[n] # "absent"

\* Giving one task a new state.
LEMMA SetTaskStep ==
    ASSUME LauncherType, NEW o \in Owners, NEW n \in Nodes, NEW t \in Task, SetTask(o, n, t),
           t.kind # "none" => tasks[o][n].kind # "none" \/ nodes'[n].fence > 0,
           outcome' = outcome
    PROVE  LauncherStep
<1>1. tasks' = [tasks EXCEPT ![o] = [tasks[o] EXCEPT ![n] = t]]
  BY DEF SetTask
<1>2. \A p \in Owners : tasks[p] \in [Nodes -> Task]
  BY DEF LauncherType
<1>3. /\ tasks' \in [Owners -> [Nodes -> Task]]
      /\ tasks'[o][n] = t
      /\ \A p \in Owners, m \in Nodes : p # o \/ m # n => tasks'[p][m] = tasks[p][m]
  BY <1>1, <1>2 DEF LauncherType
<1> QED BY <1>3 DEF LauncherStep, LauncherType

\* Ending tasks.
LEMMA EndTasksStep ==
    ASSUME LauncherType, NEW o \in Owners, NEW ended,
           tasks' = [tasks EXCEPT ![o] = [n \in Nodes |-> IF ended[n] THEN NoTask ELSE tasks[o][n]]],
           outcome' = outcome
    PROVE  LauncherStep
<1>1. NoTask \in Task
  BY LimitsAssumption DEF LimitsAssumption, NoTask, Task
<1>2. /\ tasks' \in [Owners -> [Nodes -> Task]]
      /\ \A p \in Owners, n \in Nodes : tasks'[p][n] = tasks[p][n] \/ tasks'[p][n] = NoTask
  BY <1>1 DEF LauncherType
<1> QED BY <1>2 DEF LauncherStep, LauncherType, NoTask

\* Leaving tasks and executions alone.
LEMMA SameTasksStep == ASSUME LauncherType, UNCHANGED <<tasks, outcome>> PROVE LauncherStep
BY DEF LauncherType, LauncherStep

\* An execution that is started or ends.
LEMMA OutcomeStep ==
    ASSUME LauncherType, NEW n \in Nodes, NEW r \in Outcomes \ {"absent"}, UNCHANGED tasks,
           outcome' = [outcome EXCEPT ![n] = r],
           \/ /\ outcome[n] = "absent"
              /\ \E o \in Owners : tasks[o][n].kind # "none"
              /\ Kind[n] = "projected" => n \in prepared
           \/ outcome[n] = "open"
    PROVE  LauncherStep
BY DEF LauncherType, LauncherStep

\* The steps of a node task.
LEMMA NodeTaskLauncherStep ==
    ASSUME Inv, LauncherType, NEW o \in Owners, NEW n \in Nodes, NodeTaskStep(o, n),
           \A m \in Nodes : nodes'[m].fence >= nodes[m].fence
    PROVE  LauncherStep
<1> USE DEF NoTask
<1>1. /\ nodes[n] \in NodeView /\ (nodes[n].bound => nodes[n].fence > 0)
      /\ (nodes[n].status = "WAITING" => nodes[n].bound)
      /\ nodes[n].fence \in 0..MaxFence
  BY DEF Inv, TypeOK, LeaseShape, NodeShape, NodeView
<1>2. /\ tasks[o][n] \in Task /\ NoTask \in Task /\ NoTask.kind = "none"
      /\ Fence(o, n) \in 0..MaxFence
      /\ \A k \in {"runner", "settler", "marker"}, f \in 0..MaxFence : [kind |-> k, fence |-> f] \in Task
  BY LimitsAssumption DEF LimitsAssumption, LauncherType, Task, Fence
<1>3. ASSUME NEW answered \in BOOLEAN, StartNode(o, n, answered) PROVE LauncherStep
  <2>1. nodes[n].fence + 1 \in 0..MaxFence
    BY <1>1, <1>3, LimitsAssumption DEF LimitsAssumption, StartNode, Claim
  <2>2. nodes'[n].fence = nodes[n].fence + 1
    BY <1>1, <1>3 DEF StartNode, Claim, UpdateNode, Inv, TypeOK, NodeView
  <2>3. nodes'[n].fence > 0
    BY <1>1, <2>1, <2>2
  <2>4. CASE answered
    <3>1. SetTask(o, n, [kind |-> "runner", fence |-> nodes[n].fence + 1]) /\ outcome' = outcome
      BY <1>3, <2>4 DEF StartNode
    <3> QED BY <1>2, <2>1, <2>3, <3>1, SetTaskStep
  <2>5. CASE ~answered
    <3>1. SetTask(o, n, NoTask) /\ outcome' = outcome
      BY <1>3, <2>5 DEF StartNode
    <3> QED BY <1>2, <3>1, SetTaskStep
  <2> QED BY <2>4, <2>5
<1>4. CASE WatchBoundNode(o, n) \/ ServeBoundNode(o, n)
  <2>1. SetTask(o, n, [kind |-> "settler", fence |-> nodes[n].fence]) /\ outcome' = outcome
    BY <1>4 DEF WatchBoundNode, ServeBoundNode
  <2>2. nodes[n].bound /\ nodes' = nodes
    BY <1>1, <1>4 DEF WatchBoundNode, ServeBoundNode, vars
  <2>3. nodes'[n].fence > 0
    BY <1>1, <2>2
  <2> QED BY <1>1, <1>2, <2>1, <2>3, SetTaskStep
<1>5. CASE Ends(o, n) /\ outcome' = outcome
  BY <1>2, <1>5, SetTaskStep DEF Ends
<1>6. CASE Handoff(o, n)
  <2>1. tasks[o][n].kind # "none" /\ outcome' = outcome
    BY <1>6 DEF Handoff, Holds
  <2>2. \/ SetTask(o, n, NoTask)
        \/ SetTask(o, n, [kind |-> "settler", fence |-> Fence(o, n)])
    BY <1>6 DEF Handoff
  <2> QED BY <1>2, <2>1, <2>2, SetTaskStep
<1>7. CASE RunnerYields(o, n) \/ SettlerDefers(o, n)
  <2>1. tasks[o][n].kind # "none" /\ outcome' = outcome
    BY <1>7 DEF RunnerYields, SettlerDefers, Holds
  <2>2. \/ SetTask(o, n, [kind |-> "settler", fence |-> Fence(o, n)])
        \/ SetTask(o, n, [kind |-> "marker", fence |-> Fence(o, n)])
    BY <1>7 DEF RunnerYields, SettlerDefers
  <2> QED BY <1>2, <2>1, <2>2, SetTaskStep
<1>8. CASE StartExecution(o, n)
  BY <1>8, OutcomeStep DEF StartExecution, Holds, Outcomes
<1>9. CASE Heartbeat(o, n) \/ ProjectInput(o, n) \/ Bind(o, n)
  BY <1>9, SameTasksStep DEF Heartbeat, ProjectInput, Bind, launcherVars
<1> QED BY <1>3, <1>4, <1>5, <1>6, <1>7, <1>8, <1>9
       DEF NodeTaskStep, ProjectionFails, RunnerSettles, RunnerFails, RunnerDefers, SettlerSettles,
           SettlerFails, MarkerMarks, TaskEnds

\* The end of a loop.
LEMMA DrainedStep ==
    ASSUME LauncherType, NEW o \in Owners, tasks' = Drained(o), outcome' = outcome
    PROVE  LauncherStep
<1> DEFINE ended == [n \in Nodes |-> tasks[o][n].kind = "runner"]
<1>1. tasks' = [tasks EXCEPT ![o] = [n \in Nodes |-> IF ended[n] THEN NoTask ELSE tasks[o][n]]]
  BY DEF Drained, LauncherType
<1> QED BY <1>1, EndTasksStep

\* The steps of a call of cancel() or recover().
LEMMA CancelLauncherStep ==
    ASSUME Inv, LauncherType, NEW o \in Owners, CancelStep(o)
    PROVE  LauncherStep
<1>1. CASE UNCHANGED <<tasks, outcome>>
  BY <1>1, SameTasksStep
<1>2. CASE CleanupEnds(o)
  BY <1>2, DrainedStep DEF CleanupEnds
<1>3. ASSUME NEW n \in Nodes, Ends(o, n), outcome' = outcome PROVE LauncherStep
  BY <1>3, SetTaskStep, LimitsAssumption DEF LimitsAssumption, Ends, NoTask, Task
<1>4. ASSUME NEW n \in Nodes, SettleNode(o, n) PROVE LauncherStep
  <2>1. /\ SetTask(o, n, [kind |-> "settler", fence |-> nodes[n].fence]) /\ outcome' = outcome
        /\ nodes[n].bound /\ nodes' = nodes
    BY <1>4 DEF SettleNode, vars
  <2>2. nodes[n].fence \in 0..MaxFence /\ nodes[n].fence > 0
    BY <2>1 DEF Inv, TypeOK, LeaseShape, NodeShape, NodeView
  <2>3. [kind |-> "settler", fence |-> nodes[n].fence] \in Task
    BY <2>2 DEF Task
  <2> QED BY <2>1, <2>2, <2>3, SetTaskStep
<1>5. ASSUME NEW n \in Nodes, PassNode(o, n) \/ MarkUnboundRunner(o, n) PROVE LauncherStep
  BY <1>3, <1>5 DEF PassNode, MarkUnboundRunner
<1> QED BY <1>1, <1>2, <1>4, <1>5
       DEF CancelStep, FinalizerStep, RequestGraphCancel, ClaimGraphCancel, RecoverGraphCancel,
           SweepGraph, SweepFails, MeetForeignClaim, CleanupFails, ViewGraph, HandleCancelError,
           RecordGraphCancel, ReleaseDependencies

\* The steps of the system.
LEMMA AnyLauncherStep ==
    ASSUME Inv, LauncherType, [LauncherNext]_allVars,
           \A m \in Nodes : nodes'[m].fence >= nodes[m].fence
    PROVE  LauncherStep
<1>1. ASSUME NEW o \in Owners, NEW n \in Nodes, NodeTaskStep(o, n) PROVE LauncherStep
  BY <1>1, NodeTaskLauncherStep
<1>2. ASSUME NEW o \in Owners, Crash(o) PROVE LauncherStep
  <2> DEFINE ended == [n \in Nodes |-> TRUE]
  <2>1. /\ tasks' = [tasks EXCEPT ![o] = [n \in Nodes |-> IF ended[n] THEN NoTask ELSE tasks[o][n]]]
        /\ outcome' = outcome
    BY <1>2 DEF Crash
  <2> QED BY <2>1, EndTasksStep
<1>3. ASSUME NEW n \in Nodes, ExecutionFinishes(n) \/ ExecutionCancelled(n) PROVE LauncherStep
  BY <1>3, OutcomeStep DEF ExecutionFinishes, ExecutionCancelled, Outcomes
<1>4. CASE UNCHANGED <<tasks, outcome>>
  BY <1>4, SameTasksStep
<1>5. ASSUME NEW o \in Owners, LoopEnds(o) PROVE LauncherStep
  BY <1>5, DrainedStep DEF LoopEnds
<1>6. ASSUME NEW o \in Owners, CancelStep(o) PROVE LauncherStep
  BY <1>6, CancelLauncherStep
<1> QED BY <1>1, <1>2, <1>3, <1>4, <1>5, <1>6
       DEF LauncherNext, Arm, Schedule, ServiceStep, Recover, ServiceReads, SupplyInput,
           RequestNodeCancel, SettleNodeCancel, ResolveNotApplied, SettleExecutionCancellation, Time,
           launcherVars, allVars

\* Every step keeps the invariant.
LEMMA NextEffectInv == ASSUME EffectInv, [LauncherNext]_allVars PROVE EffectInv'
<1> USE DEF EffectInv
<1>1. [Next]_vars /\ Inv'
  BY LauncherRefines, NextInv
<1>2. (\A m \in Nodes : StepOf(m)) /\ ResultsStep
  BY <1>1, NextStep DEF Inv
<1>3. Reports
  BY <1>2, StepReports
<1>4. \A m \in Nodes : /\ nodes'[m].fence >= nodes[m].fence
                       /\ nodes[m].status \in Terminal => nodes'[m] = nodes[m]
                       /\ nodes[m].bound => nodes'[m].bound
  BY <1>2 DEF StepOf
<1>5. LauncherStep
  BY <1>4, AnyLauncherStep
<1>6. \A m \in Nodes : nodes[m].fence \in Nat /\ nodes'[m].fence \in Nat
  BY <1>1, LimitsAssumption DEF LimitsAssumption, Inv, TypeOK, NodeView
<1>7. StartedByClaim'
  <2>1. ASSUME NEW n \in Nodes, NEW o \in Owners, tasks'[o][n].kind # "none"
        PROVE  nodes'[n].fence > 0
    BY <1>4, <1>5, <1>6, <2>1 DEF LauncherStep, StartedByClaim
  <2>2. ASSUME NEW n \in Nodes, outcome'[n] # "absent"
        PROVE  nodes'[n].fence > 0 /\ (Kind[n] = "projected" => n \in prepared')
    BY <1>3, <1>4, <1>5, <1>6, <2>2 DEF LauncherStep, StartedByClaim, Reports
  <2> QED BY <2>1, <2>2 DEF StartedByClaim
<1>8. ProjectionHeld'
  BY <1>3 DEF ProjectionHeld, Reports, ReportsOf
<1>9. CancelledUnstarted'
  <2> SUFFICES ASSUME NEW n \in Nodes, nodes'[n].status = "CANCELLED", ~nodes'[n].bound
               PROVE  nodes'[n].fence = 0 \/ (Kind[n] = "projected" /\ n \notin prepared')
    BY DEF CancelledUnstarted
  <2>1. CASE nodes[n].status = "CANCELLED"
    BY <1>3, <1>4, <2>1 DEF Terminal, CancelledUnstarted, Reports
  <2>2. CASE nodes[n].error = "projection"
    BY <1>3, <2>2 DEF ProjectionHeld, Reports
  <2> QED BY <1>3, <2>1, <2>2 DEF Reports, ReportsOf
<1>10. SettledAsExecuted'
  <2> SUFFICES ASSUME NEW n \in Nodes, nodes'[n].bound
               PROVE  /\ nodes'[n].status = "SUCCEEDED" => outcome'[n] = "ok"
                      /\ nodes'[n].status = "CANCELLED" => outcome'[n] = "cancelled"
    BY DEF SettledAsExecuted
  <2>1. nodes'[n].status = "SUCCEEDED" => outcome[n] = "ok"
    <3>1. CASE nodes[n].status = "SUCCEEDED"
      BY <1>4, <3>1 DEF Terminal, SettledAsExecuted
    <3>2. CASE nodes[n].status # "SUCCEEDED"
      BY <1>2, <1>3, <3>2 DEF Inv, ResultsExact, StepOf, Reports
    <3> QED BY <3>1, <3>2
  <2>2. nodes'[n].status = "CANCELLED" => outcome[n] = "cancelled"
    BY <1>3, <1>4 DEF Terminal, SettledAsExecuted, Reports, ReportsOf
  <2> QED BY <1>5, <2>1, <2>2 DEF LauncherStep
<1> QED BY <1>1, <1>5, <1>7, <1>8, <1>9, <1>10 DEF LauncherStep

\* What nodes report about executions, as an invariant of the system.
THEOREM EffectInvariance == LauncherSpec => []EffectInv
<1>1. LauncherInit => EffectInv
  <2> SUFFICES ASSUME LauncherInit PROVE EffectInv
    OBVIOUS
  <2>1. Inv
    BY InitInv DEF LauncherInit
  <2>2. LauncherType
    BY LimitsAssumption DEF LimitsAssumption, LauncherInit, LauncherType, NoTask, Task, Outcomes
  <2>3. \A n \in Nodes : nodes[n].status # "CANCELLED" /\ ~nodes[n].bound /\ nodes[n].error # "projection"
    BY DEF LauncherInit, Init, FreshView, InitialStatus, Absent
  <2> QED BY <2>1, <2>2, <2>3
         DEF EffectInv, LauncherInit, StartedByClaim, ProjectionHeld, CancelledUnstarted,
             SettledAsExecuted, NoTask
<1>2. EffectInv /\ [LauncherNext]_allVars => EffectInv'
  BY NextEffectInv
<1> QED BY <1>1, <1>2, PTL DEF LauncherSpec

\* A node is reported CANCELLED without the confirmation of its execution only if
\* no execution was ever started for it, by any process, crashed or zombie.
THEOREM CancelledUntouched == LauncherSpec => []CancelledWithoutEffect
<1>1. EffectInv => CancelledWithoutEffect
  BY DEF EffectInv, StartedByClaim, CancelledUnstarted, CancelledWithoutEffect
<1> QED BY <1>1, EffectInvariance, PTL

\* A bound node that reports success or cancellation reports what its execution did.
THEOREM ReportedAsExecuted == LauncherSpec => []SettledAsExecuted
<1>1. EffectInv => SettledAsExecuted
  BY DEF EffectInv
<1> QED BY <1>1, EffectInvariance, PTL
===========================================================================
