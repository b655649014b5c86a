--------------------------- MODULE TaskLauncher ---------------------------
(***************************************************************************)
(* The local task-graph launcher (task/_local.py) driving the durable      *)
(* repository of module TaskRepository: several launcher processes run     *)
(* node tasks that hold leases, hand executions off, settle them without a *)
(* lease, lose their leases, are cancelled and crash.  The execution of a  *)
(* node is a durable service of its own (external); the task service       *)
(* (task/_service_impl.py) drives the whole-graph cancel operation, once   *)
(* per call of a client, and starts the scheduler loops.  A task holds     *)
(* what it read when it started, the fence of its claim or of the node it  *)
(* found waiting, however stale.                                           *)
(***************************************************************************)
EXTENDS TaskRepository

CONSTANTS
    Kind,       \* node -> "custom" | "agent" | "projected" | "input"
    Callers,    \* bound: processes in which clients cancel the whole graph
    Dropped,    \* bound: nodes that clients cancel one by one
    MaxCrashes  \* bound: launcher processes that may die

Kinds == {"custom", "agent", "projected", "input"}

ASSUME LauncherAssumption ==
    /\ Kind \in [Nodes -> Kinds]
    /\ Callers \subseteq Owners
    /\ Dropped \subseteq Nodes
    /\ MaxCrashes \in Nat
    /\ Owners # {}

VARIABLES
    tasks,     \* owner -> node -> its in-memory task and the fence that task holds
    alive,     \* launcher processes that have not crashed
    loops,     \* the processes that run a scheduler loop for the graph
    outcome,   \* node -> what the execution service knows of its execution
    cancelOp,  \* ledger record of the whole-graph cancel operation (one idempotency key)
    finalizer  \* owner -> the call of cancel() or recover() that drives it there

serviceVars == <<cancelOp, finalizer>>
launcherVars == <<tasks, alive, loops, outcome, cancelOp, finalizer>>
allVars == <<vars, launcherVars>>

\* runner: _run_node before a hand-off; settler: _settle_bound_node, or a runner
\* after its hand-off; marker: _defer_waiting_recovery between its read and its write.
NoTask == [kind |-> "none", fence |-> 0]
Task == [kind : {"none", "runner", "settler", "marker"}, fence : 0..MaxFence]

Outcomes == {"absent", "open", "ok", "failed", "cancelled"}

\* OperationStatus of the cancel operation; the unsettled ones keep its scope in cancels.
Unsettled == {"pending", "running", "effect_unknown"}
CancelStatus == Unsettled \cup {"none", "succeeded", "failed"}

\* doubtful, raised: the call has met an error whose code leaves the effect unknown,
\* or any other; held: the status of the record the call has read; todo: the nodes
\* settle_cancel has yet to visit.
Idle == [step |-> "idle", call |-> "cancel", held |-> "running", todo |-> {}]
FinalizerSteps == {"idle", "claim", "sweep", "cleanup", "view", "sweep again", "record",
                   "doubtful", "raised", "release"}

LauncherInit ==
    /\ Init
    /\ tasks = [o \in Owners |-> [n \in Nodes |-> NoTask]]
    /\ alive = Owners
    /\ loops = {}
    /\ outcome = [n \in Nodes |-> "absent"]
    /\ cancelOp = "none"
    /\ finalizer = [o \in Owners |-> Idle]

Holds(o, n, kind) == o \in alive /\ tasks[o][n].kind = kind
Fence(o, n) == tasks[o][n].fence
SetTask(o, n, t) == tasks' = [tasks EXCEPT ![o][n] = t]
Ends(o, n) == SetTask(o, n, NoTask)

(***************************************************************************)
(* The scheduler loop                                                      *)
(***************************************************************************)
\* LocalTaskGraphLauncher.start, by the service call that has found the graph
\* runnable (start, recover, recover_pending, supply_input, resolve_effect), which
\* it may not be any more.  Only the process of that call gets a loop.
Arm(o) ==
    /\ o \in alive \ loops
    /\ loops' = loops \cup {o}
    /\ UNCHANGED <<vars, tasks, alive, outcome, serviceVars>>

\* One pass of the loop.
Schedule(o) ==
    /\ o \in loops
    /\ SchedulerState
    /\ UNCHANGED launcherVars

\* The tasks of process o once its loop has ended and drained: no node task is left.
Drained(o) ==
    [tasks EXCEPT ![o] = [n \in Nodes |-> IF @[n].kind = "runner" THEN NoTask ELSE @[n]]]

\* The loop ends when it sees the graph settled or RECOVERY_REQUIRED, and on an
\* error of scheduler_state, claim or prepare_node; nothing starts it again.
LoopEnds(o) ==
    /\ o \in loops
    /\ loops' = loops \ {o}
    /\ tasks' = Drained(o)
    /\ UNCHANGED <<vars, alive, outcome, serviceVars>>

\* The answer of the claim may be lost (cancelled caller, unknown commit that the
\* readback cannot confirm): the node is claimed and nobody runs it.
StartNode(o, n, answered) ==
    /\ o \in loops
    /\ Holds(o, n, "none")
    /\ Claim(o, n)
    /\ SetTask(o, n, IF answered THEN [kind |-> "runner", fence |-> nodes[n].fence + 1]
                     ELSE NoTask)
    /\ UNCHANGED <<alive, loops, outcome, serviceVars>>

\* The loop watches waiting nodes, input waits excepted.
WatchBoundNode(o, n) ==
    /\ o \in loops
    /\ Holds(o, n, "none")
    /\ nodes[n].status = "WAITING" /\ Kind[n] # "input"
    /\ SetTask(o, n, [kind |-> "settler", fence |-> nodes[n].fence])
    /\ UNCHANGED <<vars, alive, loops, outcome, serviceVars>>

\* cancel_node and resolve_effect settle a bound node from the state they have just
\* read, and so does settle_cancel for a node that waits for recovery.
ServeBoundNode(o, n) ==
    /\ Holds(o, n, "none")
    /\ nodes[n].bound /\ nodes[n].status \notin Terminal
    /\ n \in cancels \/ nodes[n].status = "RECOVERY_REQUIRED"
    /\ SetTask(o, n, [kind |-> "settler", fence |-> nodes[n].fence])
    /\ UNCHANGED <<vars, alive, loops, outcome, serviceVars>>

(***************************************************************************)
(* A node task with its lease (_run_node)                                  *)
(***************************************************************************)
Heartbeat(o, n) ==
    /\ Holds(o, n, "runner")
    /\ Renew(o, n, Fence(o, n))
    /\ UNCHANGED launcherVars

ProjectInput(o, n) ==
    /\ Holds(o, n, "runner")
    /\ Kind[n] = "projected" /\ n \notin prepared /\ ~nodes[n].bound
    /\ PublishPreparedInput(o, n, Fence(o, n))
    /\ UNCHANGED launcherVars

ProjectionFails(o, n) ==
    /\ Holds(o, n, "runner")
    /\ Kind[n] = "projected" /\ n \notin prepared /\ ~nodes[n].bound
    /\ MarkRecoveryRequired(o, n, Fence(o, n), "projection", FALSE)
    /\ Ends(o, n)
    /\ UNCHANGED <<alive, loops, outcome, serviceVars>>

\* start_task is idempotent by the node's key, and it does not look at the lease.
StartExecution(o, n) ==
    /\ Holds(o, n, "runner")
    /\ Kind[n] = "projected" => n \in prepared
    /\ outcome[n] = "absent"
    /\ outcome' = [outcome EXCEPT ![n] = "open"]
    /\ UNCHANGED <<vars, tasks, alive, loops, serviceVars>>

Bind(o, n) ==
    /\ Holds(o, n, "runner")
    /\ outcome[n] # "absent"
    /\ BindExecution(o, n, Fence(o, n))
    /\ UNCHANGED launcherVars

Handoff(o, n) ==
    /\ Holds(o, n, "runner")
    /\ Kind[n] # "custom"
    /\ Kind[n] = "input" => outcome[n] = "open"
    /\ nodes[n].bound
    /\ HandoffExecution(o, n, Fence(o, n), Kind[n] # "input")
    /\ SetTask(o, n, IF Kind[n] = "input" THEN NoTask
                     ELSE [kind |-> "settler", fence |-> Fence(o, n)])
    /\ UNCHANGED <<alive, loops, outcome, serviceVars>>

\* A custom task reports what became of its execution; an input node finds its
\* input supplied already.
RunnerSettles(o, n) ==
    /\ Holds(o, n, "runner")
    /\ Kind[n] = "custom" \/ (Kind[n] = "input" /\ outcome[n] = "ok")
    /\ nodes[n].bound
    /\ \/ outcome[n] = "ok" /\ CompleteLease(o, n, Fence(o, n))
       \/ outcome[n] = "failed" /\ FailLease(o, n, Fence(o, n), TRUE)
       \/ outcome[n] = "cancelled" /\ CancelNode(n, Fence(o, n))
       \/ outcome[n] = "open" /\ \E d \in 0..MaxDelay : RequeueRetry(o, n, Fence(o, n), d)
    /\ Ends(o, n)
    /\ UNCHANGED <<alive, loops, outcome, serviceVars>>

\* Any other error of the runner fails the node, whatever its execution does.
RunnerFails(o, n, named) ==
    /\ Holds(o, n, "runner")
    /\ named => outcome[n] # "absent"
    /\ FailLease(o, n, Fence(o, n), named)
    /\ Ends(o, n)
    /\ UNCHANGED <<alive, loops, outcome, serviceVars>>

\* The execution has a result already (_EXECUTION_RESULT_CONFLICT_CODES): the
\* runner settles it as a bound node, by the fence of its lease.
RunnerYields(o, n) ==
    /\ Holds(o, n, "runner")
    /\ nodes[n].bound
    /\ SetTask(o, n, [kind |-> "settler", fence |-> Fence(o, n)])
    /\ UNCHANGED <<vars, alive, loops, outcome, serviceVars>>

\* _defer_recovery: an unknown outcome; the error may or may not name the execution.
RunnerDefers(o, n, named) ==
    /\ Holds(o, n, "runner")
    /\ named => outcome[n] # "absent"
    /\ MarkRecoveryRequired(o, n, Fence(o, n), "unknown", named)
    /\ Ends(o, n)
    /\ UNCHANGED <<alive, loops, outcome, serviceVars>>

(***************************************************************************)
(* Settlement without a lease (_settle_bound_node, _defer_waiting_recovery) *)
(***************************************************************************)
SettlerSettles(o, n) ==
    /\ Holds(o, n, "settler")
    /\ \/ outcome[n] = "ok" /\ CompleteBound(n, Fence(o, n))
       \/ outcome[n] = "failed" /\ FailBound(n, Fence(o, n))
       \/ outcome[n] = "cancelled" /\ CancelNode(n, Fence(o, n))
       \/ outcome[n] = "open" /\ \E d \in 0..MaxDelay : RequeueWaitingRetry(n, Fence(o, n), d)
    /\ Ends(o, n)
    /\ UNCHANGED <<alive, loops, outcome, serviceVars>>

\* A node error (an invalid expansion, a failing runner after its hand-off).
SettlerFails(o, n) ==
    /\ Holds(o, n, "settler")
    /\ FailBound(n, Fence(o, n))
    /\ Ends(o, n)
    /\ UNCHANGED <<alive, loops, outcome, serviceVars>>

\* _defer_waiting_recovery has read a waiting node of its fence; when the runner's
\* cancel fails, _mark_cancel_recovery goes by the state settle_cancel had read.
SettlerDefers(o, n) ==
    /\ Holds(o, n, "settler")
    /\ \/ nodes[n].status = "WAITING" /\ nodes[n].fence = Fence(o, n)
       \/ finalizer[o].step = "cleanup" \/ n \in cancels
    /\ SetTask(o, n, [kind |-> "marker", fence |-> Fence(o, n)])
    /\ UNCHANGED <<vars, alive, loops, outcome, serviceVars>>

MarkerMarks(o, n) ==
    /\ Holds(o, n, "marker")
    /\ MarkBoundRecoveryRequired(n, Fence(o, n))
    /\ Ends(o, n)
    /\ UNCHANGED <<alive, loops, outcome, serviceVars>>

\* A task is cancelled (quiesced), finds its fence stale, or has nothing left to do.
TaskEnds(o, n) ==
    /\ o \in alive /\ tasks[o][n] # NoTask
    /\ Ends(o, n)
    /\ UNCHANGED <<vars, alive, loops, outcome, serviceVars>>

Crash(o) ==
    /\ o \in alive
    /\ Cardinality(Owners \ alive) < MaxCrashes
    /\ alive' = alive \ {o}
    /\ loops' = loops \ {o}
    /\ tasks' = [tasks EXCEPT ![o] = [n \in Nodes |-> NoTask]]
    /\ finalizer' = [finalizer EXCEPT ![o] = Idle]
    /\ UNCHANGED <<vars, outcome, cancelOp>>

(***************************************************************************)
(* The execution service (external)                                        *)
(***************************************************************************)
ExecutionFinishes(n) ==
    /\ outcome[n] = "open"
    /\ \E r \in {"ok", "failed"} : outcome' = [outcome EXCEPT ![n] = r]
    /\ UNCHANGED <<vars, tasks, alive, loops, serviceVars>>

\* The runner's cancel, for a node whose cancellation was asked for; it may come
\* into effect after the call that asked for it has given up.
ExecutionCancelled(n) ==
    /\ outcome[n] = "open"
    /\ cancelOp # "none" \/ n \in cancels
    /\ outcome' = [outcome EXCEPT ![n] = "cancelled"]
    /\ UNCHANGED <<vars, tasks, alive, loops, serviceVars>>

(***************************************************************************)
(* The task service                                                        *)
(***************************************************************************)
SupplyInput(n) ==
    /\ Kind[n] = "input"
    /\ outcome[n] = "ok"
    /\ CompleteWaiting(n)
    /\ UNCHANGED launcherVars

\* recover() has found no cancel operation of the graph unsettled when it looked.
Recover ==
    /\ RecoverGraph
    /\ UNCHANGED launcherVars

\* Service calls read the graph through scheduler_state too (start, recover,
\* recover_pending, supply_input, resolve_effect).
ServiceReads ==
    /\ SchedulerState
    /\ UNCHANGED launcherVars

\* resolve_effect("not_applied") against the fence the operator saw.
ResolveNotApplied(n, f) ==
    /\ outcome[n] = "open"
    /\ \E d \in 0..MaxDelay : RequeueRecovery(n, f, d)
    /\ UNCHANGED launcherVars

RequestNodeCancel(n) ==
    /\ n \in Dropped
    /\ RegisterCancelRequest(n)
    /\ UNCHANGED launcherVars

SettleNodeCancel(n) ==
    /\ nodes[n].status \in Terminal
    /\ SettleCancelRequest(n)
    /\ UNCHANGED launcherVars

\* settle_execution_cancellation goes by the fence of the node it read before; an
\* execution that did not say whether it stopped has an unknown effect.
SettleExecutionCancellation(n, f) ==
    /\ n \in cancels
    /\ \/ outcome[n] = "cancelled" /\ CancelNode(n, f)
       \/ CancelNodeUnconfirmed(n, f)
    /\ UNCHANGED launcherVars

(***************************************************************************)
(* The whole-graph cancel: a call of cancel(), or of recover() while the   *)
(* operation is unsettled, drives it once.  A call that does not get       *)
(* through leaves the operation unsettled, or settles it FAILED while the  *)
(* graph lives on; nobody resumes it but the next call.                    *)
(***************************************************************************)
At(o, step) == o \in alive /\ finalizer[o].step = step
Goto(o, step) == finalizer' = [finalizer EXCEPT ![o].step = step, ![o].todo = {}]
Return(o) == finalizer' = [finalizer EXCEPT ![o] = Idle]

\* compare_and_swap of the record the call has read; a call that comes too late
\* changes nothing.
SettleOperation(o, status) ==
    IF cancelOp = finalizer[o].held
      THEN /\ cancelOp' = status
           /\ IF status \in Unsettled THEN UNCHANGED vars ELSE SettleCancelRequest(Graph)
      ELSE UNCHANGED <<vars, cancelOp>>

\* A new request, or a retry with its idempotency key; a FAILED one raises.
RequestGraphCancel(o) ==
    /\ At(o, "idle") /\ o \in Callers
    /\ IF cancelOp = "none"
         THEN cancelOp' = "pending" /\ RegisterCancelRequest(Graph)
         ELSE cancelOp # "failed" /\ UNCHANGED <<vars, cancelOp>>
    /\ Goto(o, "claim")
    /\ UNCHANGED <<tasks, alive, loops, outcome>>

\* _claim_cancel_operation and the read of the graph after it: the call that claims
\* the operation leaves a graph alone that is terminal by then.
ClaimGraphCancel(o) ==
    /\ At(o, "claim")
    /\ cancelOp' = IF cancelOp = "pending" THEN "running" ELSE cancelOp
    /\ finalizer' = [finalizer EXCEPT ![o] =
         CASE cancelOp = "failed"    -> Idle
           [] cancelOp = "succeeded" -> [Idle EXCEPT !.step = "release"]
           [] OTHER -> [@ EXCEPT !.held = cancelOp',
                          !.step = IF cancelOp = "pending" /\ header \in Terminal
                                     THEN "record" ELSE "sweep"]]
    /\ UNCHANGED <<vars, tasks, alive, loops, outcome>>

\* recover() while the operation is unsettled: the same cleanup, without the sweep.
RecoverGraphCancel(o) ==
    /\ At(o, "idle") /\ o \in Callers
    /\ cancelOp \in Unsettled
    /\ finalizer' = [finalizer EXCEPT ![o] =
         IF header \in Terminal
           THEN [Idle EXCEPT !.step = "record", !.held = cancelOp]
           ELSE [step |-> "cleanup", call |-> "recover", held |-> cancelOp, todo |-> Nodes]]
    /\ UNCHANGED <<vars, tasks, alive, loops, outcome, cancelOp>>

\* cancel_graph, before and after the nodes are settled.
SweepGraph(o) ==
    /\ At(o, "sweep") \/ At(o, "sweep again")
    /\ CancelGraph
    /\ IF finalizer[o].step = "sweep again"
         THEN IF header' \in Terminal THEN Goto(o, "record") ELSE Return(o)
       ELSE IF header' \in Terminal \ {"CANCELLED"} THEN Goto(o, "sweep again")
       ELSE finalizer' = [finalizer EXCEPT ![o].step = "cleanup", ![o].todo = Nodes]
    /\ UNCHANGED <<tasks, alive, loops, outcome, cancelOp>>

\* It, or a read of the graph, fails; its transaction may have landed all the same.
SweepFails(o, error) ==
    /\ At(o, "sweep") \/ At(o, "sweep again")
    /\ CancelGraph \/ UNCHANGED vars
    /\ Goto(o, error)
    /\ UNCHANGED <<tasks, alive, loops, outcome, cancelOp>>

(* settle_cancel, with effects: it visits the nodes one after the other. *)
Visiting(o, n) ==
    /\ At(o, "cleanup") /\ n \in finalizer[o].todo
    /\ \A m \in Nodes : tasks[o][m].kind \notin {"settler", "marker"}

Visited(o, n) == finalizer' = [finalizer EXCEPT ![o].todo = @ \ {n}]

\* Nothing to settle; the task of the node, if any, is quiesced.
PassNode(o, n) ==
    /\ At(o, "cleanup") /\ n \in finalizer[o].todo
    /\ \/ nodes[n].status \in Terminal \cup {"RECOVERY_REQUIRED", Absent}
       \/ nodes[n].status \in {"PENDING", "READY"} /\ ~nodes[n].bound
    /\ Ends(o, n)
    /\ Visited(o, n)
    /\ UNCHANGED <<vars, alive, loops, outcome, cancelOp>>

\* Its runner is quiesced before it has bound an execution.
MarkUnboundRunner(o, n) ==
    /\ Visiting(o, n)
    /\ Holds(o, n, "runner") /\ ~nodes[n].bound
    /\ MarkRecoveryRequired(o, n, Fence(o, n), "unknown", FALSE)
    /\ Ends(o, n)
    /\ Visited(o, n)
    /\ UNCHANGED <<alive, loops, outcome, cancelOp>>

\* Mutant: the visit is tried again as long as another process holds the claim.
AwaitForeignClaim(o, n) ==
    /\ Visiting(o, n)
    /\ Holds(o, n, "none")
    /\ nodes[n].status = "RUNNING" /\ ~nodes[n].bound
    /\ UNCHANGED allVars

\* Another process claimed the node, or nobody knows who did.
MeetForeignClaim(o, n) ==
    /\ Visiting(o, n)
    /\ Holds(o, n, "none")
    /\ nodes[n].status = "RUNNING" /\ ~nodes[n].bound
    /\ Goto(o, "doubtful")
    /\ UNCHANGED <<vars, tasks, alive, loops, outcome, cancelOp>>

\* The runner of a bound node is asked to cancel, and its end is waited for.
SettleNode(o, n) ==
    /\ Visiting(o, n)
    /\ nodes[n].bound /\ nodes[n].status \notin Terminal \cup {"RECOVERY_REQUIRED"}
    /\ SetTask(o, n, [kind |-> "settler", fence |-> nodes[n].fence])
    /\ Visited(o, n)
    /\ UNCHANGED <<vars, alive, loops, outcome, cancelOp>>

\* At the end the loop of this process is closed.
CleanupEnds(o) ==
    /\ At(o, "cleanup") /\ finalizer[o].todo = {}
    /\ \A n \in Nodes : tasks[o][n].kind \notin {"settler", "marker"}
    /\ loops' = loops \ {o}
    /\ tasks' = Drained(o)
    /\ Goto(o, "view")
    /\ UNCHANGED <<vars, alive, outcome, cancelOp>>

\* A read or a settlement fails, or a node was marked with an unknown effect; the
\* loop goes on.
CleanupFails(o, error) ==
    /\ At(o, "cleanup")
    /\ Goto(o, error)
    /\ UNCHANGED <<vars, tasks, alive, loops, outcome, cancelOp>>

\* The call reads the graph and returns, unless it has settled.
ViewGraph(o) ==
    /\ At(o, "view")
    /\ IF header \in Terminal
         THEN /\ Goto(o, IF finalizer[o].call = "cancel" THEN "sweep again" ELSE "record")
              /\ UNCHANGED <<vars, cancelOp>>
         ELSE /\ Return(o)
              /\ IF header = "RECOVERY_REQUIRED" /\ finalizer[o].call = "cancel"
                    /\ finalizer[o].held = "running"
                   THEN SettleOperation(o, "effect_unknown")
                   ELSE UNCHANGED <<vars, cancelOp>>
    /\ UNCHANGED <<tasks, alive, loops, outcome>>

\* Mutant: the call that handles an error takes the cancel for done.
HandleErrorAsDone(o) ==
    /\ At(o, "doubtful") \/ At(o, "raised")
    /\ SettleOperation(o, "succeeded")
    /\ Return(o)
    /\ UNCHANGED <<tasks, alive, loops, outcome>>

\* _settle_cancel_error.  A settled graph is a success after all; recover() just raises.
HandleCancelError(o) ==
    LET doubt == \/ At(o, "doubtful") \/ header = "RECOVERY_REQUIRED"
                 \/ header = "CANCELLED"  \* its second cleanup may fail as well
    IN
    /\ At(o, "doubtful") \/ At(o, "raised")
    /\ \/ /\ finalizer[o].call = "cancel" /\ header \in Terminal
          /\ Goto(o, "record")
          /\ UNCHANGED <<vars, cancelOp>>
       \/ /\ finalizer[o].call = "cancel"
          /\ header \in Terminal => header = "CANCELLED"
          /\ Return(o)
          /\ IF doubt /\ finalizer[o].held = "effect_unknown"
               THEN UNCHANGED <<vars, cancelOp>>
               ELSE SettleOperation(o, IF doubt THEN "effect_unknown" ELSE "failed")
       \/ /\ finalizer[o].call = "recover"
          /\ Return(o)
          /\ UNCHANGED <<vars, cancelOp>>
    /\ UNCHANGED <<tasks, alive, loops, outcome>>

\* _record_success, of a graph that was settled when it was read; a call that comes
\* too late raises or finds it recorded.
RecordGraphCancel(o) ==
    /\ At(o, "record")
    /\ SettleOperation(o, "succeeded")
    /\ IF cancelOp' = "succeeded" THEN Goto(o, "release") ELSE Return(o)
    /\ UNCHANGED <<tasks, alive, loops, outcome>>

ReleaseDependencies(o) ==
    /\ At(o, "release")
    /\ SchedulerState
    /\ Return(o)
    /\ UNCHANGED <<tasks, alive, loops, outcome, cancelOp>>

Time ==
    /\ Tick
    /\ UNCHANGED launcherVars

(***************************************************************************)
(* Specification                                                           *)
(***************************************************************************)
NodeTaskStep(o, n) ==
    \/ \E answered \in BOOLEAN : StartNode(o, n, answered)
    \/ WatchBoundNode(o, n)
    \/ ServeBoundNode(o, n)
    \/ Heartbeat(o, n)
    \/ ProjectInput(o, n)
    \/ ProjectionFails(o, n)
    \/ StartExecution(o, n)
    \/ Bind(o, n)
    \/ Handoff(o, n)
    \/ RunnerSettles(o, n)
    \/ \E named \in BOOLEAN : RunnerFails(o, n, named) \/ RunnerDefers(o, n, named)
    \/ RunnerYields(o, n)
    \/ SettlerSettles(o, n)
    \/ SettlerFails(o, n)
    \/ SettlerDefers(o, n)
    \/ MarkerMarks(o, n)
    \/ TaskEnds(o, n)

ServiceStep ==
    \/ Recover
    \/ ServiceReads
    \/ \E n \in Nodes : SupplyInput(n) \/ RequestNodeCancel(n) \/ SettleNodeCancel(n)
    \/ \E n \in Nodes, f \in 1..MaxFence : ResolveNotApplied(n, f) \/ SettleExecutionCancellation(n, f)

Errors == {"doubtful", "raised"}

\* What a call does on its own once it is under way.
FinalizerStep(o) ==
    \/ ClaimGraphCancel(o)
    \/ SweepGraph(o)
    \/ \E n \in Nodes :
         PassNode(o, n) \/ MarkUnboundRunner(o, n) \/ MeetForeignClaim(o, n) \/ SettleNode(o, n)
    \/ CleanupEnds(o)
    \/ ViewGraph(o)
    \/ HandleCancelError(o)
    \/ RecordGraphCancel(o)
    \/ ReleaseDependencies(o)

CancelStep(o) ==
    \/ RequestGraphCancel(o)
    \/ RecoverGraphCancel(o)
    \/ FinalizerStep(o)
    \/ \E error \in Errors : SweepFails(o, error) \/ CleanupFails(o, error)

LauncherNext ==
    \/ \E o \in Owners : Arm(o) \/ Schedule(o) \/ LoopEnds(o) \/ Crash(o) \/ CancelStep(o)
    \/ \E o \in Owners, n \in Nodes : NodeTaskStep(o, n)
    \/ \E n \in Nodes : ExecutionFinishes(n) \/ ExecutionCancelled(n)
    \/ ServiceStep
    \/ Time

LauncherSpec == LauncherInit /\ [][LauncherNext]_allVars

\* What is left of a task that can no longer write anything: its lease is gone,
\* or the node it settles has settled or moved on.
Stale(o, n) ==
    CASE tasks[o][n].kind = "none"   -> FALSE
      [] tasks[o][n].kind = "runner" -> ~LiveLease(nodes[n], o, Fence(o, n))
      [] OTHER -> ~BoundAt(n, Fence(o, n))

\* The cancellation of the execution is waited for by a call that asked for it.
CancelAsked(n) == \E o \in Owners : At(o, "cleanup") /\ Holds(o, n, "settler")

\* The clock advances.  A scheduler loop, while there is one, and the tasks of a live
\* process are run, and so is a call of cancel() that is under way; the execution of
\* a node ends, that of a human input only if it is cancelled.  No loop is started
\* and no call is made by fairness.  A settlement that is tried again and again does not
\* fail for ever, and a call of cancel() is not kept waiting for ever by the tasks of
\* other calls that come and go in the slot of a node (SF).
Fairness ==
    /\ WF_allVars(Time)
    /\ \A o \in Owners :
         /\ WF_allVars(Schedule(o))
         /\ SF_allVars(FinalizerStep(o))
    /\ \A o \in Owners, n \in Nodes :
         /\ WF_allVars(WatchBoundNode(o, n))
         /\ WF_allVars(TaskEnds(o, n) /\ Stale(o, n))
         /\ WF_allVars(ProjectInput(o, n) \/ StartExecution(o, n) \/ Bind(o, n) \/ Handoff(o, n))
         /\ SF_allVars(RunnerSettles(o, n) \/ SettlerSettles(o, n))
         /\ WF_allVars(MarkerMarks(o, n) \/ (Holds(o, n, "marker") /\ TaskEnds(o, n)))
    /\ \A n \in Nodes :
         /\ WF_allVars(Kind[n] # "input" /\ ExecutionFinishes(n))
         /\ WF_allVars(CancelAsked(n) /\ ExecutionCancelled(n))

FairLauncherSpec == LauncherSpec /\ Fairness

(***************************************************************************)
(* Properties                                                              *)
(***************************************************************************)

\* A node is reported CANCELLED without the confirmation of its execution only
\* if no execution was ever started for it, by any process, crashed or zombie.
CancelledWithoutEffect ==
    \A n \in Nodes : nodes[n].status = "CANCELLED" /\ ~nodes[n].bound => outcome[n] = "absent"

\* A bound node that reports success or cancellation reports what its execution
\* did: two settlers, a late runner and a cancellation cannot make them disagree.
SettledAsExecuted ==
    \A n \in Nodes : nodes[n].bound =>
        /\ nodes[n].status = "SUCCEEDED" => outcome[n] = "ok"
        /\ nodes[n].status = "CANCELLED" => outcome[n] = "cancelled"

\* The cancel operation is recorded as succeeded only for a graph that has settled,
\* and the graph stays settled: calls of several processes that drive it at once, by
\* what they read before, an error or a recover() never report a live graph as
\* cancelled, nor one that a claim could bring back to life.
ConfirmedCancelSettled == cancelOp = "succeeded" => header \in Terminal

\* A claim that nobody works on - its process died, its answer was lost, its task or
\* the loop of its process ended - does not keep its node RUNNING while a scheduler
\* loop of the graph runs anywhere.
Orphaned(n) ==
    nodes[n].status = "RUNNING" /\ \A o \in Owners : ~Holds(o, n, "runner")

OrphanedClaimReleased ==
    \A p \in Owners, n \in Nodes :
        (Orphaned(n) /\ p \in loops) ~> (~Orphaned(n) \/ p \notin loops)

\* A call of cancel(), or of recover() that drives one, comes to an end: it does not
\* hang behind the claim of another process or of a dead one, a human input nobody
\* supplies or a task that was cancelled halfway.  What it leaves behind is another
\* matter: the operation may be unsettled, and only another call takes it up again.
CancelCallEnds ==
    \A o \in Owners : (finalizer[o].step # "idle") ~> (finalizer[o].step = "idle")

===========================================================================
