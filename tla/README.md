# Verification of the linktools AI runtime

TLA+ models, TLC runs and TLAPS proofs for the coordination core of
`linktools.ai` (`src/linktools-ai/src/linktools/ai`; paths below are relative to
it): the durable task-graph engine, the turns of conversations that run before
anything of them is durable, the live authority they run under, the locks and
leases of storage, shared run budgets, the write buffer with its read cache, and
the event stream of an execution.

What they have in common: several processes or asyncio tasks act on shared
records, answers come late or not at all, callers are cancelled while their calls
go on, leases run out, processes die.  What makes the code correct is that none of
these orders corrupts the stored records, loses or repeats work, reports something
that did not happen, or leaves somebody waiting for ever.

## 1. Inventory

| Component (source) | State | Operations | Interacts with | Hard behaviour | What makes it correct |
|---|---|---|---|---|---|
| Task repository (`persistence/_task_repository.py`, `_task_state.py`) | node records (status, owner, fence, deadline, execution, retry time), graph header, results, prepared inputs | claim, renew, bind, hand off, requeue, complete, fail, mark for recovery, recover, cancel node / graph, reconcile | state store transactions; called by launcher and service | zombies, lapsed leases, calls without a lease, unknown commits | fenced ownership, settled for good, one result per success, header agrees with nodes |
| Task admission (`persistence/_task_admission_repository.py`) | admission records, operations | admit, replay, register operation | repository | duplicate and conflicting admissions | initial records are well formed |
| Local launcher (`task/_local.py`) | the graphs it runs a loop for, in-flight node tasks with the lease or fence they hold | start and end a loop, schedule, run node, settle bound node, defer to recovery, quiesce, supply input, resolve effect | repository, runners, execution service | reads that are stale when used, lost answers, several processes, crashes | what nodes report agrees with their executions; claims nobody works on are taken back while a loop runs anywhere |
| Task service (`task/_service_impl.py`) | cancel operations | recover, resolve, cancel node, cancel graph with finalizer | launcher, repository, operation ledger | cancellation racing everything else, several calls driving one operation, errors halfway | cancelled means no effect; a cancel is recorded as succeeded only for a settled graph; every call ends |
| Task runners (`task/engine/`) | none of their own | project input, start execution, bind, hand off | execution service, repository through the run control | execution started but not bound | an execution is never forgotten |
| Execution service (`execution/`, `runtime/_execution.py`, `persistence/_execution_*.py`) | execution, identity and operation records | start (idempotent), look up, cancel, recover | runners, runtime | answers assembled from several reads | one execution per key, one outcome |
| Pending turns (`runtime/_pending_turn.py`, the pending paths of `runtime/_local.py`, `persistence/_runtime_commands.py`) | tables of admitted turns, staged tools, the boundary under way | admit, stage and settle tools, promote, commit, reconcile, fail, forget | turn coordination, the source, observers | unknown commits that land late, loss of authority, retries of a request elsewhere | one execution per request, linear history, no definite answer about what is unknown |
| Session observation (`runtime/_session.py`, `runtime/_execution.py`) | none | wait_inactive, lookup_session_admission | pending turns, source, live authority | reads at different times | a negative answer was true at some moment |
| Turn coordination (`storage/_turn_scope.py`, `storage/_cache.py`, `persistence/coordination.py`) | claims with three indexes, local deadlines, pending views, hints | claim, renew, release, cancel, wait for signals, publish, read, promote remotely | runtime | late renewals, cancelled entering, lossy hints | one live owner per session, no leaked claim, no lost wake-up |
| Locks and leases (`storage/_lock.py`) | keyed locks, lease and fence files, mutation locks | acquire, renew, release | filesystem stores | threads that cancellation cannot stop, expiry, crashes | mutual exclusion, fences grow, nothing leaks |
| Run budgets (`persistence/_budget.py`, `runtime/_budget.py`) | usage projection, reservations, live sets | admit, dispatch, settle, close | execution state store | concurrent admission, lost answers, cancelled admission, death | exact counts, limits kept, one dispatch per request |
| Write buffer (`storage/_write_cache.py`, `storage/_cache.py`) | queue, batch, counters, failure flags | submit, write, acknowledge, flush, close | cache backends, source | failing calls with unknown effect, cancellation, deadlines | delivered once in order, a flush is a receipt, close ends |
| Read cache (`storage/_write_cache.py`) | generations, hot bytes, pending overlay | get, load, publish, evict | source, lossy cache | slow reads against writes, eviction | reads see their owner's writes, bounded staleness |
| Event streams (`execution/events.py`, the producer paths of `runtime/_local.py`) | the durable log, provisional events, the broker's bounded buffer and subscriptions, the reader's cursor | append, commit, confirm, complete, hand off; connect, page, follow, fall back, reconnect | runtime, other runtimes through the log | numbers given after delivery, overflow, lost answers, loss of the claim | every durable event at least once; a stream ends when its execution does |
| State stores (`persistence/_memory.py`, `_sql.py`, `durability.py`) | records | read, mutate | everything | unknown commits, cancellation | serialised transactions |
| The rest (models, inputs, history, observation sessions, snapshots, web, workspace, container manager, core library, mobile tools) | data and projections | – | – | little coordination of their own | not modelled; see section 6 and `PROJECT.json` |

## 2. Modules

* **`TaskRepository`** – one stored graph under the most general caller: any
  owner may present any fence for any node at any time.  Each operation is one
  serialised transaction in the code and one action here.  A call answered by an
  error or by replaying a settled answer changes nothing: it is a stuttering step.
  `ReconcileTo` gives the outcome of `_reconciled_task_nodes` as the solution of an
  equation; `ReconciliationPass` is the pass as the code runs it, visit by visit in a
  topological order, and `ReconciliationIsOnePass` says that they agree.
* **`MCTaskRepository`** – a join of three nodes and a growing chain of four.
* **`TaskLauncher`** – extends `TaskRepository` with launcher processes, their
  scheduler loops and in-memory tasks, the execution service (external) and the task
  service.  Every action uses a repository operation with the fence the task
  remembered, however stale, so every step is one of the repository under its general
  caller or leaves it alone, by construction; what the module is about is what the
  launchers decide: whether what they report of executions and of cancels is true.
* **`MCTaskLauncher`** – one or two nodes of chosen kinds.
* **`TaskRepositoryProofs`**, **`TaskLauncherProofs`** – the TLAPS proofs of the two.
* **`TurnCoordination`** – the claims of the in-memory backend with their indexes by
  session, request and execution, and `RenewingTurnScope`: entering (with the claim
  shielded from cancellation), renewal, signals, exit.  A call and its answer are
  two steps; calls may fail with or without effect.  It implements
  **`SessionAuthority`**: authority over a session passes on only through a time
  in which nobody has it.
* **`PendingViews`** – what other runtimes see of a pending turn: records, pointers
  and hints in a cache that loses things; `load_execution` with its seven reads (the
  source, authority, bytes, authority again, the source again) while owners publish,
  commit and release; and the remote promotion that leaves a hint, polls and gives up
  at its deadline, with the watcher that may have stopped looking.
* **`MCTurns`** – instances of these two; **`TurnsProofs`**, **`PendingViewsProofs`** –
  their proofs.
* **`PendingTurn`** – a turn before and at its durable boundary, over the abstract
  authority.  A promotion or a terminal commit is submitted, and is accepted,
  refused, or left with an unknown outcome, after which it may still land.
* **`SessionObserver`** – extends `PendingTurn` by `wait_inactive` and
  `lookup_session_admission`, one action per read.  **`MCSessionObserver`** has the
  instances of both.
* **`RunBudget`** – admissions and settlements of several runtimes on one scope; a
  transaction is a read and a commit that the scope's revision may refuse.
  **`MCRunBudget`** has its instances, **`RunBudgetProofs`** its proofs.
* **`KeyedLock`** – `KeyedAsyncLock`, with lock objects that come and go; implements
  **`Mutex`**.  **`FileLease`** – `FilesystemLeaseCoordinator` over several processes;
  implements **`FencedLease`**.  **`MutationLock`** – `FilesystemMutationLock`.  The
  last two use the keyed lock by its abstract promise.
* **`WriteBuffer`** – `BatchWriteScope` and `StorageBuffer` on the write side;
  **`MCStorage`** has the instances of the locks and of the write buffer,
  **`StorageProofs`** the proofs.
* **`BufferReads`** – the read side with `StorageReadCache`.
* **`LiveEvents`** – the event stream of one execution: the producer's provisional
  and committed events, `LiveExecutionEventBroker` with one subscription, and
  `DefaultEventService.stream`, which merges the broker with the durable log.
  **`LiveEventsProofs`** – the proof about it.
* **`MCObservers`** – instances of `SessionObserver`, `BufferReads` and `LiveEvents`:
  what readers see of work that goes on; **`ObserversProofs`** – the proofs about
  `PendingTurn`, `SessionObserver` and `BufferReads`, and what `LiveEventsProofs`
  says of the instance.

### How state and actions correspond to the code

`nodes[n]` is the stored `TaskNodeView`: `status`, `owner`, `fence`, `bound`
(`execution_id` is set), `ttl` (ticks left of `lease_expires_at`, 0 = expired,
-1 = no lease), `delay` (ticks until `next_attempt_at`), `occupies`
(`occupies_concurrency`) and `error`, the error code, origin and reason merged
into the classes that guards distinguish.  `header` is the status column of the
graph record; `results` and `prepared` are the sets of nodes with such a record;
`cancels` the scopes of unsettled `TASK_CANCEL` operations.  `Absent` nodes are
those a later expansion may add.

Actions carry the names of the methods.  The methods with several kinds of
authority are split by it: `complete` with a lease (`CompleteLease`), by
execution and fence (`CompleteBound`) and by waiting status alone
(`CompleteWaiting`, the call of `supply_input`); likewise `fail` and
`mark_recovery_required`.  `scheduler_state` is `SchedulerState`: reconciliation
with expiry and the header.  Reconciliation is stated declaratively – the set of
newly blocked nodes is the one that is exactly what the dependency rules block
given itself – and run `expansion` shows that this is single-valued and equals
the code's heap-ordered pass.

In `TaskLauncher`, `tasks[o][n]` is what process `o` remembers about node `n`: a
`runner` holds a claim's fence, a `settler` the fence of a bound node, a `marker`
is between the read and the write of `_defer_waiting_recovery` or
`_mark_cancel_recovery`.  `outcome[n]` is what the execution service knows of the
node's execution.  `StartNode` has a lost-answer variant; `Crash` forgets a process's
tasks.  `loops` are the processes with a `_run_graph` task: `Arm` is
`LocalTaskGraphLauncher.start` in the process of the service call that found the graph
runnable, and `LoopEnds` is the end of the loop at a settled graph, at
RECOVERY_REQUIRED or at an error, after which it drains its tasks and nothing starts it
again.  `cancelOp` is the status of the ledger record of the whole-graph cancel (one
idempotency key), and `finalizer[o]` is the call of `cancel()`, or of `recover()` while
that record is unsettled, that process `o` is in: its step, the status it read
(`held`, which its compare-and-swap expects) and the nodes `settle_cancel` has yet to
visit.  `_cancel_finalizer` is `ClaimGraphCancel`, `SweepGraph` (before and after the
cleanup), the visits `PassNode`, `MarkUnboundRunner`, `MeetForeignClaim`, `SettleNode`,
then `CleanupEnds`, `ViewGraph`, `RecordGraphCancel` and `ReleaseDependencies`.
`SweepFails` and `CleanupFails` are its errors, and `HandleCancelError` is
`_settle_cancel_error` with its three outcomes: success after all, FAILED and
EFFECT_UNKNOWN.  No call resumes an unsettled cancel but `cancel()` with the same key
and `recover()`.

In `PendingViews`, `rows` are the executions in the source, `watchers` the owners
whose `_watch_pending_promotion` still runs, and `seen` is a history: how the
execution has stood (absent, pending, durable, or both while its published view
outlives the commit) at each moment since the read began.

In `TurnCoordination` times are ticks that are left: `left[s]` to the local
deadline of a scope, `ttl` to the expiry of a claim in the backend, `candidate[s]`
to the deadline a renewal under way would install.  That both clocks tick together
is an assumption of the code too (`lease_seconds` is a duration, not a time).

In `PendingTurn`, `source` is what is durable: the session record (active
execution, history, revision), the identity of each request, execution rows and
tool records.  `listed` and `admitted` are membership in `_executions` and in
`_requests`/`_sessions` of `_PendingExecutionTurns`, which `fail` treats
differently; `outstanding` marks a submission that nobody waits for any more.

In `RunBudget` a call is its own admission id; `seen[c]` is the snapshot its
transaction read; `active[r]` is `_active_requests`.  In `FileLease` what a thread
does under the guard file is one step, in the middle of which its process may die
(`torn` files); `detached` are the tasks whose caller is gone.  In `WriteBuffer`
entries are numbers in the order of submission; in `BufferReads` values are, so
that "older" is "smaller".  The uuid of a read generation is only ever compared
with the registered one, so `mine` stands for it: the holder's generation is still
that one.

In `LiveEvents` events are numbered in the order in which they come into being, and
`log` is what is durable, each event with the runtime that wrote it.  `tail` is
`_pending_audit_events`; a commit lands (`Promote`, `Checkpoint`) and is
acknowledged in two steps, between which the worker may fail or lose the answer.
A worker ends in four ways: it finds the execution finished, by its own lost commit or
by another runtime, drops its tail and publishes the terminal event it found or only
completes (`ReadBack`); it fails (`WorkerFails`); it ends without error or boundary
(`WorkerLeaves`); or it loses its claim and hands off (`LoseClaim`).
The broker is a record and each of its calls an operator on it; `seqOf` holds the
`durable_seq` that `confirm_events` writes into events that are already queued.
The reader's `acked` is the last number its consumer remembers and reconnects with.

In `SessionObserver`, `moved` says that the membership epoch differs from what
`wait_inactive` captured, the only thing the code asks of that counter.

`MCStorage`, `MCTurns` and `MCObservers` each hold parts that share no state.  Their initial state
chooses the part that runs; the others stay where they are (in their initial states,
or empty in `MCObservers`), where none of the steps that are assumed fair is
possible, so each behaviour is one of the chosen
part alone and its fairness is exactly that of its module.  Likewise `RunBudget`,
`TurnCoordination` and `PendingTurn` have a variable that is chosen once
(`scope`, `identity`, `attempt`): what the calls, scopes or turns are.

### Data abstracted away

Digests, error details, task events, tenant checks, record encodings and notification
are left out.  An execution id of a node is a Boolean because a node's execution is
started with an idempotency key derived from the node and its inputs, so all
attempts of a node get the same one.  Optimistic-concurrency retries inside a task
transaction are invisible; a commit whose answer is lost is the lost claim of
`StartNode` or a settlement followed by `TaskEnds`.

## 3. Runs

| Run | Question | Bounds | Result |
|---|---|---|---|
| `repository` | Do records, limits, fences, settled work survive arbitrary callers? | join of 3 nodes, 2 owners, 2 claims per node, 1 slot, 1-tick leases | holds, 122 thousand states |
| `expansion` | Is an expansion atomic with its completion, do header and settlement stay right, and is the declarative pass the code's pass? | chain of 3 nodes with an `any_succeeded` join, the first adds a fourth; 1 owner, 1 claim per node, retry delay 1 | holds, 242 thousand states |
| `launcher` | Do racing, dying, lapsing processes agree with the executions; is a cancel confirmed only for a settled graph? | 1 node with projected input, 2 processes, 1 crash, 3 claims, 2-tick leases, delay 1; node cancels, whole-graph cancel called in one process and recovered there | holds, 886 thousand states |
| `launcher_graph` | Are claims that nobody works on taken back while a loop runs; does every call of cancel end? | 1 human-input node, 2 processes, 1 crash, 1 claim, 1-tick leases, no delay; calls of cancel in one process; fairness | holds, 44 thousand states |
| `budget` | Are the counts exact and the limits kept, is a request sent once, does close end? | two runtimes sharing a scope, or one runtime sending a request twice beside another; 3 calls; fairness | holds, 557 thousand states |
| `storage` | Are the locks exclusive and fenced, is nothing leaked; does the write buffer deliver once, in order, and end? | 3 tasks in 2 processes, 2 fences, 4 lock objects; 4 entries, batches of 2, capacity 3, 2 faults; fairness | holds, 208 thousand states |
| `turns` | Is there one live owner, was a reader's answer about an execution true at one moment, are remote promotions answered? | 2 scopes over one session, one turn or one execution, 2-tick leases; 2 generations, a lossy cache, a reader and a caller; fairness | holds, 636 thousand states |
| `observers` | What do readers see: one execution per request, linear histories, answers that were true, reads of their owner's writes, every event? | 2 attempts or 2 requests, each with and without tools; 2 readers, 2 values, a clock of 2 ticks, maximal age 1; queues of 2, 4 events, 1 delta, 2 connections | holds, 2.7 million states |
| `graph_cancel` | Does a cancelled graph stay cancelled? | 2 independent nodes, 1 process | **violated** |
| `pending_unknown` | Does an unknown outcome stay an error? | as `observers` | **violated** |
| `write_buffer_flush` | Does a flush end? | 3 entries, batches of 2, 2 faults; fairness | **violated** |
| `event_replay` | Is delivery at least once whoever writes to the execution? | as `observers` | **violated** |

Why the bounds are enough: a hazard of the repository needs at most a first
claim, its lapse and a second claim by another owner (fence 2); the launcher run
has a third claim so that a settler of the first, a zombie of the second and a
runner of the third coexist.  The liveness run has one claim and
one node, of a human input: the claim of a dead process, of a loop that has ended and
of a lost answer, a wait that nobody ends and a visit to each of them need no more, and
a graph with more behaviours is beyond TLC's liveness check in minutes.  One slot makes the concurrency limit bite with two
nodes.  A chain of three is the shortest graph where a failure must cross two
edges in one pass.  One-tick leases make every expiry reachable; two ticks let a
heartbeat or a renewal matter.  Two fences are a lease, its expiry and the lease
re-created over it, with the first holder still about; three tasks in two processes
are two that share a process lock and one that does not.  A budget needs two calls
that compete for one request and a third beside them.  A write buffer with batches
of two and room for three is full, part-written and part-acknowledged with four
entries; two faults are a failing call and a failing reaction to it.  One slow
reader, one reader that profits from what the first published, and a write between
them are the read cache's hazard.  A queue of two overflows with the third event,
and four events leave one before and one after the overflow; the second connection
is the one that resumes.

Deadlock is checked in the task runs, where the scheduler pass is always possible.
In the others the system may come to rest: calls are answered, scopes left, buffers
closed, streams ended.

Properties and the hazards they answer are listed in `PROJECT.json`; each has a
mutant, a plausible slip in the code, that breaks it.

### Findings

1. **A cancelled graph turns failed** (`graph_cancel`,
   `persistence/_task_repository.py:2069`).  `cancel_graph` gives a fully settled
   graph with a cancelled node the status CANCELLED even if another node had failed
   before, and `_effective_graph_status` honours that.  `scheduler_state` recomputes
   the header from the nodes alone and writes FAILED over it, and the cancel
   finalizer calls it itself when it releases the graph's dependencies.  This is
   against `test_whole_graph_cancel_overrides_historical_failure_after_settlement`,
   which passes because it calls `scheduler_state` only before the cancel.
2. **An unknown outcome becomes a failure** (`pending_unknown`,
   `runtime/_local.py:1479`).  A turn whose promotion or commit has an unknown
   outcome keeps that error, but when it loses its lease `_watch_turn` replaces it
   by an ordinary conflict and the admission is dropped, although the commit may
   still land.  `docs/runtime-history.md:952` promises that unknown local outcomes
   remain errors.
3. **A flush that never ends** (`write_buffer_flush`, `storage/_write_cache.py:300`).
   After a failed write the writer task ends; a submission whose append had landed
   by then is still accepted when its answer arrives, no new writer is started, and
   `flush` waits for it.  `docs/storage-caching.md:1067` says that a failed write is
   reported by `flush`.  It takes a backend that answers late.
4. **A stream that skips an event** (`event_replay`, `execution/events.py:1039`).
   A stream finds its place in the log by the number of provisional events it has
   delivered, and another runtime's events upset the count in two ways.  It places
   an event of another runtime by it: the old worker of an execution that another
   runtime took over and finished publishes the terminal event it finds without a
   handoff (`runtime/_local.py:4763`, `4954`).  With one provisional event outstanding,
   and a takeover and that terminal event in the log, the terminal event has just the
   number that is expected, so the stream ends normally and the takeover is never
   delivered; with more provisional events the number is too small and intact records
   are reported as damaged.  That is the trace of the run.  And it skips by it: a stream
   that overflows, or whose producer completed, goes on in the durable log and skips as
   many events as it has delivered provisionally (`execution/events.py:937`, `1093`), a
   cancel request of another runtime among them.  `docs/task-observation.md:91`
   promises delivery at least once.  `StreamComplete` therefore exempts the streams
   that have gone by their count, in either way, in an execution that others write to
   (`Miscounted`), and no others.

Noticed on the way, without a run: a lease file whose writer dies before it is
written is unreadable until somebody removes it; a task that asks for a mutation
lock again while its cancelled attempt is cleaned up in the background is told that
it holds the lock already; a lookup that meets a local turn and another execution
recorded for the same request reports damage, where the other attempt simply won; a
stream whose worker leaves for a deferred pause ends with STORAGE_INTEGRITY_ERROR
(`execution/events.py:1081`) although the execution is intact; a whole-graph cancel that meets the
claim of a dead process is recorded as EFFECT_UNKNOWN and rests until a client calls
again, which is what `docs/task-observation.md:444` tells the client to do.

### Fairness

`FairLauncherSpec` assumes: the clock advances; a scheduler loop runs again while
there is one (it wakes at least every 30 seconds, `observation_backoff`); a task that
can only find its fence stale ends; the steps of a running task are taken (asyncio
runs ready tasks), a marker's write or its cancellation among them; an execution ends,
that of a human input only if it is cancelled.  Settlement is assumed strongly fair:
tried again and again – by the loop's watcher, after every failed attempt – it does
not fail for ever.  So is the call of `cancel()` that is under way: it is one
coroutine, and the tasks of other calls that come and go in the slot of a node do not
keep it waiting for ever.

No fairness starts a loop or makes a call.  A loop ends at a settled graph, at
RECOVERY_REQUIRED and at an error, and only a service call starts one, in its own
process (`_arm_graph`); `recover_pending` starts loops for PENDING and RUNNING graphs
and does not take up an unsettled cancel.  So `OrphanedClaimReleased` speaks of the
time while some process has a loop, and `CancelCallEnds` of calls, not of cancels:
that a cancel comes through in the end is promised nowhere
(`docs/task-observation.md:304` and `444` send the client back with the same key) and
not claimed here.

`FileLease` and `MutationLock` assume that threads return and that detached cleanup
tasks, which nothing cancels, run on; callers may stop anywhere.  `WriteBuffer`
assumes that calls of the backend and of the source return (with or without success)
and that the writer, a flush whose condition holds and a close go on.  `RunBudget`
assumes that store transactions return and that a close whose commits have drained
ends; handlers may run for ever.  `PendingViews` assumes that the calls of a caller
of a remote promotion return and that its thirty seconds run out; nothing is assumed of
owners, whose watcher serves conversation turns only, leaves committing and uncertain
turns alone and is over after its first failure.  `TurnCoordination`, `PendingTurn`, `BufferReads` and `LiveEvents` are checked
for safety only.

## 4. Proofs

The runs show the properties on small instances; the theorems show them for any
number of nodes, processes, tasks, calls, turns or readers and any bounds.

| Theorem (module) | Statement | Property of a run |
|---|---|---|
| `TypeCorrect`, `LeasesWellFormed`, `DependenciesFirst`, `BlockedSoundly`, `OneResultPerSuccess` (`TaskRepositoryProofs`) | `Spec => []TypeOK`, `LeaseShape`, `StartedAfterDependencies`, `BlockedByDependencies`, `ResultsExact` | the same |
| `ConcurrencyBounded`, `ExpansionsAtomic`, `HeaderTrusted` | `Spec => []ActiveBounded`, `ExpansionWithCompletion`, `HeaderAgrees` | the same |
| `ReconciliationPassExact` | `Spec => []ReconciliationIsOnePass` | the same |
| `SettledForGood`, `Fenced`, `SettledGraph` | `Spec => TerminalStable`, `FencedOwnership`, `SettledGraphStaysSettled` (action properties) | the same |
| `CancelledUntouched`, `ReportedAsExecuted`, `CancelConfirmed` (`TaskLauncherProofs`) | `LauncherSpec => []CancelledWithoutEffect`, `SettledAsExecuted`, `ConfirmedCancelSettled` | the same |
| `LeasesSound`, `LeaseFenced` (`StorageProofs`) | `Spec => []LeaseInv`, `ImplementsFencedLease` (refinement) | the same |
| `KeyedLockExact`, `KeyedLockExcludes`, `MutationLockExact` (`StorageProofs`) | `KeyedLockSound`, `KeyedLockIsMutex` (refinement), `MutationLockSound` | the same |
| `BufferExact`, `FlushesConfirmed` (`StorageProofs`) | `Buffer!Spec => []BufferSound`, `FlushIsReceipt` | the same |
| `BudgetSound`, `DispatchesReserved` (`RunBudgetProofs`) | `Spec => []BudgetInv`, `DispatchedOnce` | the same |
| `TurnsSound`, `AuthorityExclusive` (`TurnsProofs`) | `Spec => []TurnInv`, `ImplementsAuthority` (refinement) | `TurnsInv`, `ImplementsAuthority` |
| `TurnsAlone`, `ViewsAlone`, `TurnsAndViewsSound`, `AnswersSound` (`TurnsProofs`) | the composition behaves as its parts; `TurnsSpec => []TurnsInv`, `AnswerTrue` | `TurnsInv`, `AnswerTrue` |
| `OneLiveOwner`, `AnswersTrue` (`PendingViewsProofs`) | `Spec => []TypeOK`, `AnswerTrue` | – |
| `OwnWritesSeen`, `NeverTooStale` (`ObserversProofs`) | `Reads!Spec => [](Reads!ReadsInv /\ ..)`, `[](Reads!BoundedStaleness /\ ..)` | `OwnWritesRead`, `StalenessBounded` |
| `OneExecutionEach`, `HistoryLinear`, `ToolOutcomesKept` (`ObserversProofs`) | `Spec => [](PendingInv /\ ..)`, `[](LinearHistory /\ ..)`, `[](ToolOutcomeKept /\ ..)` | `OneExecution`, `OneHistory`, `ToolsKept` |
| `NegativesSound` (`ObserversProofs`) | `ObserverSpec => [](NegativesAtOnePoint /\ ..)` | `NegativesTrue` |
| `StreamSafety` (`LiveEventsProofs`), `StreamsComplete` (`ObserversProofs`) | `Spec => [](Strayed \/ EventsInv)`; `Events!Spec => [](Strayed \/ (Events!EventsInv /\ ..))`: until the old worker publishes an event of another runtime | `StreamComplete` |

In `MCStorage` and `MCObservers` a run's property is a module's invariant for the
part that runs.  The theorems about `MCObservers` therefore state the module's own
invariant of the module's own specification, and the run's form beside it.

### Arguments

Each safety theorem rests on an inductive invariant that TLC has checked on the
instances of the runs or larger ones before it was proved.

* **Task repository: `Inv`.**  The conjunction of the five record invariants.  They
  need each other: that reconciliation cannot block started work
  (`BlockedByDependencies`) needs that the dependencies of a claimed node are
  satisfied *now*; that stays true only because settled nodes are settled for good;
  and that a step leaves settled nodes alone needs the record shapes (a bound node
  has a fence, a node with a fence has satisfied dependencies and so is never
  reconciled to BLOCKED).  The argument has one intermediate notion, `StepOf(m)`:
  what any operation may do to any single node `m`.  Lemmas show for each group of
  operations that it is such a step at every node, and others that such steps
  preserve `Inv`; the action properties follow from the same `StepOf`.
  Reconciliation is treated once, for any adjustment of the nodes that precedes it.
  Only a claim takes a slot, and it counts the taken ones in the transaction that
  takes it, which gives the concurrency limit; the header and the settled graph need how each operation's status
  changes bear on the aggregate status, which `TaskRepository` states as a chain of
  conditions in the order of the code.
* **Reconciliation pass: no invariant but the types.**  A visit changes one node and
  looks at nodes whose visits are over, so the pass leaves every node as a visit would
  that sees what the pass ends in (`VisitsStay`, `PassSettles`).  A visit changes what
  a node looks like to its dependents only by blocking it (`VisitShows`), so the nodes
  the pass blocks solve the equation; and of two solutions the first node of the order
  that is in one only would have dependencies in both or neither (`BlockedUnique`).
  What would be inductions over the order are arguments about a first place where the
  claim fails, and so is that the recursive definition of the pass has a solution
  (`PassExists`).  A graph with a cycle has no order and the statement says nothing of
  it: there the code raises an integrity error.
* **Launcher: `EffectInv`.**  Every step is a step of the repository or leaves it
  alone, however stale the fence (lemma `LauncherRefines`), so `Inv` carries over.  What
  nodes report about executions is not inductive: a process whose lease is gone may still start the
  execution of a node it once claimed.  `EffectInv` says why it cannot for a node
  cancelled without one: a task or an execution exists only for a node that was
  claimed, and of a projected node only once its input is stored (`StartedByClaim`);
  a node whose projection failed has no stored input (`ProjectionHeld`); and a node
  cancelled without an execution was never claimed or never projected
  (`CancelledUnstarted`).  *Cancel:* a call gets to the step at which it records a
  success only past a read of a settled graph (`RecordsSettled`), and a settled graph
  stays settled whatever late claims, expansions and recoveries do, which is the
  argument of `SettledGraphStaysSettled` carried over (`HeaderAgrees` is part of the
  invariant); so it does not matter how long ago the call, or another, has read.
* **File lease: `LeaseStrong`.**  A lost renewal frees the keyed lock of the process by
  the fence alone.  That it does not take the lock from a task in the middle of an
  operation rests on where a lease can be: an active lease belongs to the very task
  that has the keyed lock (`ActiveByHolder`), tasks hold leases only in the stages
  after their attempt (`LeasesPlaced`), and fences are distinct.
* **Keyed lock: `KeyedStrong`.**  No lock object but the one in the table is locked,
  that one is locked by the owner, and the owner is among those that refer to it: so
  the entry cannot go while it is owned.  **Mutation lock: `MutationStrong`** places
  every task: its stage and its thread determine which of the two locks it has.
* **Write buffer: `BufferStrong`.**  Until something breaks, the queue of the backend is
  the part of the accepted entries that has no verdict, followed by at most one entry
  whose answer is outstanding (`QueueHolds`); the batch in hand is its front
  (`BatchInFront`); the source has the first accepted entries (`Delivered`), in the
  order of their numbers (`Numbered`).  The flags, close and the writer exclude each
  other (`Stopped`), so that nothing is written once the two have drifted apart.
* **Run budget: `BudgetStrong`.**  A commit writes back what its transaction read, so
  exactness rests on an unchanged revision meaning an unchanged record
  (`SnapshotsPast`); that nothing is counted or settled twice, on which calls can
  hold a reservation (`Staged`); and that a reservation outside `_active_requests` is
  really abandoned, on who may leave that set (`LiveCalls`, `DeadTogether`).
* **Turn coordination: `TurnStrong`.**  The backend's three indexes describe one set
  of claims (`Sound`).  A claim and a renewal take effect in the backend before their
  answers arrive, so what a scope relies on must hold from the moment of the call: a
  granted claim (`GrantBacked`) and a renewal whose answer is under way
  (`RenewalBacked`) are backed for the time the scope will count on.  Exclusive
  authority follows, since two live scopes of a session would be two claims of it.
  **Pending views: `AnswersStrong`** says what the history must contain at each step
  of a read: a captured owner that is gone leaves a moment without a view
  (`CaptureHolds`); bytes that were found are of a moment with one, if their owner still
  lives (`BytesHold`), so the answer that is checked against the source again is of
  such a moment (`AnswerHolds`); and a source without the row then shows that there was
  none at any moment before, since rows stay.
* **Read cache: `ReadsStrong`.**  A value is as good as what the owner has accepted
  if it was loaded after the owner's last batch ended.  The cache cannot tell that
  from the value: it compares the capture time with two barriers, or the generation.
  `ReadsStrong` says that this comparison is right (`Fresh`), for the cached bytes
  and for every reader that may still put some there; and that a value was the
  source's at the time it carries (`HeldAt`).
* **Pending turns: `PendingStrong`.**  What makes a late commit harmless is spread
  over the turn's own record (`TurnOK`): a submission is outstanding only for a
  worker that has raised "unknown" or a stopped turn that still says so or has lost
  its authority, until the turn is confirmed or has lost its request for good
  (`Beaten`, which is stable).  A started turn keeps the session's history as it was
  when the turn was admitted, so what it appends continues what it was computed on.
  **Observers: `ObserverStrong`** relies on what moves one way: the revision of a
  session rises with every change, a recorded request stays recorded; so an observer
  that finds the first revision again, no local turn, no movement of the epoch and
  no owner has passed a moment at which all of that was true together.
* **Event streams: `StreamInv`.**  A provisional event has no number, so a stream
  counts: the next event with a number tells it, by that number alone, whether what
  it has counted is all there was in between.  `StreamInv` says what the count
  stands for.  *The source* (`SourceSound`): the producer's events are in the log in
  the order of their numbers, what is pending comes after them, and a commit that is
  not acknowledged has landed as one stretch of the log.  *The broker*
  (`BrokerSound`): a number in the buffer is the position of that event
  (`Numbered`), and what is buffered without one is exactly the pending tail
  (`OpenSound`) – on this rests that `ConfirmEvents`, which only counts, gives each
  event the right number; the lemma `Confirmed` shows it.  *The reader*
  (`FollowSound`): the queue is the unread end of the buffer, and the number of
  provisional events is the number of buffered events that were read and are not in
  the log up to the cursor (`Ahead`).  Each of these has a position between the
  cursor and the next number, different events have different ones, so a number
  cannot be smaller than expected, and if it is as expected those events fill the
  gap: the lemma `Positions` is this pigeonhole argument.  What a stream may skip by
  number when it falls back on the log needs more: only in a log with one writer
  (`Pure`) are the numbers of the events their positions (`Counted`), and then the
  buffer has every event since the producer began (`PureBuffer`) and the reader the
  next ones (`PureSeen`).  That an ended stream is woken is `CompletionSound`.
  Since a step of the producer changes the log, the buffer and the queue at once,
  the lemma `FollowKeeps` says once what a reader needs of such a step, and `Feeds`
  what each call of the broker gives it.  The argument rests on the buffer holding
  only what this producer made, and so it ends at the step, the last of the worker, at
  which the old worker publishes the terminal event of another runtime (`Strayed`):
  from then on `EventsInv` is model-checked only.

### Assumptions

Only those on the constants, named where they are declared and evaluated by TLC in
the runs.  The sets of nodes, tasks and calls are finite (`NodesFinite`,
`TasksFinite`, `CallsAssumption`).  The admitted nodes depend on admitted ones, and
an expansion adds nodes that are not among them (`DefinitionsAssumption`).  That
dependencies are acyclic is assumed nowhere; only `ReconciliationPassExact` speaks of
orders that exist in acyclic graphs alone.  The values for "nobody" and "nothing" are not
somebody or something (`OwnersAssumption`, `ScopesAssumption`, `ProcessesAssumption`,
`TurnsAssumption`, `ReadsAssumption`, `ValuesAssumption`).  Concurrency limits,
leases, batch sizes and maximal ages are positive, as the code's constructors check,
and bounds are natural numbers (`LimitsAssumption`, `LeaseAssumption`,
`BoundsAssumption`, `StreamAssumption`, `ObjectsAssumption`, `BufferAssumption`, `ReadsAssumption`,
`LauncherAssumption`).  Requests with one budget key are of one kind
(`CallsAssumption`); identities and attempts have the fields they are declared with
(`IdentityAssumption`, `TurnsAssumption`), and a lookup is about one of the requests
(`ObserverAssumption`).

### Only model-checked

Liveness, which the prover does not handle under fairness: `OrphanedClaimReleased`,
`CancelCallEnds`, `CloseDrains`, `CleanupsEnd`, `CloseEnds`, `PromotionSettles`; and
`StreamComplete` after an old worker has published the terminal event of another
runtime.  Every other property of a passing run is stated by a theorem.

## 5. Plan

Done: the task engine; turn coordination and pending views; pending turns and their
observers; locks and leases; run budgets; the write buffer and the read cache; event
streams; proofs of all their safety properties.

Left, in this order:

1. `ExecutionRecords`: the state machine of promoted executions with recovery,
   replacing the external execution service of `TaskLauncher`.
2. Admission replay, and the operation ledger of the task service beyond the status of
   the whole-graph cancel.
3. The proof of `StreamSafety` past `Strayed`.
4. Publication and cleanup of content-addressed objects.
5. Execution trees and observation sessions over `LiveEvents`.

## 6. Not modelled

The map covers about four per cent of the repository's 204 thousand lines.  The
rest is, by size: the container manager, the core library, the mobile tools and
their data; encoding, parsing and validation of records, snapshots and archives;
history projections; adapters for models, tools and MCP; assets, specifications and
capabilities; the web console and the commands; the workspace sandbox.  These keep
no shared state of their own, or hand it to the parts that are modelled: a model of
them would repeat data handling line by line and say nothing that a unit test does
not.

Of the modelled parts, left out are: authorisation, logging, metrics and task
events; the ledger records of recover, resolve_effect and node cancels, whose outcomes
are not kept (a node cancel is never recorded as FAILED here), and digests of requests;
a second idempotency key for a cancel of the same graph; the timing policy of the batch
writer (a batch may start at any time);
`ProcessLeaseCoordinator` (a lease without a file) and `FilesystemWriterLock`;
`FilesystemCacheBackend` (the same claims under mutation locks); shared preview
streams, preview offsets and byte limits of event streams; recovery of promoted
executions, shutdown, and pauses that another runtime resumes.  State stores are
taken to serialise transactions, which is what `StateStore.mutate` promises.
