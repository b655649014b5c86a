---------------------------- MODULE MutationLock ----------------------------
(***************************************************************************)
(* FilesystemMutationLock (storage/_lock.py) on one path: a task takes the *)
(* keyed lock of its process (KeyedLock, here by its abstract Mutex), then *)
(* polls for the file lock in worker threads.  A cancelled task leaves a   *)
(* thread behind that may still take or release the file lock; a detached  *)
(* cleanup waits for it.  The file lock (external) is the operating        *)
(* system's: one holder, gone when its process dies.                       *)
(***************************************************************************)
EXTENDS FiniteSets

CONSTANTS
    Tasks,          \* tasks that enter, each with a lock object of its own
    NoTask,         \* none of them
    ProcessOf,      \* task -> its process
    FailingReleases \* tasks whose release of the file lock may fail

Hosts == {ProcessOf[t] : t \in Tasks}

VARIABLES
    held,   \* process -> the task that has its keyed lock
    file,   \* the task whose lock object has the file lock
    stage,  \* where a task is
    thread  \* the worker thread of a task, and what it found

vars == <<held, file, stage, thread>>

Stage == {"out", "queued", "trying", "polling", "inside", "leaving", "cleaning", "stuck",
          "local queued", "local"}
Thread == {"idle", "acquiring", "took", "missed", "error", "releasing", "released", "failed"}

Init ==
    /\ held = [p \in Hosts |-> NoTask]
    /\ file = NoTask
    /\ stage = [t \in Tasks |-> "out"]
    /\ thread = [t \in Tasks |-> "idle"]

HasProcess(t) == held[ProcessOf[t]] = t

Go(t, s) == stage' = [stage EXCEPT ![t] = s]
Run(t, r) == thread' = [thread EXCEPT ![t] = r]

\* _release_process_lock; the task is through.
Done(t) ==
    /\ held' = [held EXCEPT ![ProcessOf[t]] = NoTask]
    /\ Go(t, "out")
    /\ Run(t, "idle")

-----------------------------------------------------------------------------
(* The worker threads. *)

\* _try_acquire.
TryAcquire(t) ==
    /\ thread[t] = "acquiring"
    /\ \/ file = NoTask /\ file' = t /\ Run(t, "took")
       \/ file # NoTask /\ Run(t, "missed") /\ UNCHANGED file
       \/ Run(t, "error") /\ UNCHANGED file
    /\ UNCHANGED <<held, stage>>

\* _release; a failing one leaves open whether the file lock is gone.
ReleaseFile(t) ==
    /\ thread[t] = "releasing"
    /\ \/ file' = NoTask /\ Run(t, "released")
       \/ /\ t \in FailingReleases
          /\ file' \in {file, NoTask}
          /\ Run(t, "failed")
    /\ UNCHANGED <<held, stage>>

-----------------------------------------------------------------------------
(* __aenter__. *)

Enter(t) ==
    /\ stage[t] = "out"
    /\ Go(t, "queued")
    /\ UNCHANGED <<held, file, thread>>

TakeProcess(t) ==
    /\ stage[t] = "queued" /\ held[ProcessOf[t]] = NoTask
    /\ held' = [held EXCEPT ![ProcessOf[t]] = t]
    /\ Go(t, "trying")
    /\ Run(t, "acquiring")
    /\ UNCHANGED file

\* What the thread found: the lock, or another holder, or an error, on which
\* the process lock is given back.
Answer(t) ==
    /\ stage[t] = "trying"
    /\ \/ thread[t] = "took" /\ Go(t, "inside") /\ Run(t, "idle") /\ UNCHANGED held
       \/ thread[t] = "missed" /\ Go(t, "polling") /\ Run(t, "idle") /\ UNCHANGED held
       \/ thread[t] = "error" /\ Done(t)
    /\ UNCHANGED file

Poll(t) ==
    /\ stage[t] = "polling"
    /\ Go(t, "trying")
    /\ Run(t, "acquiring")
    /\ UNCHANGED <<held, file>>

\* The task is cancelled: while it queues nothing is its own yet; afterwards a
\* detached cleanup takes over.
Cancel(t) ==
    /\ \/ stage[t] = "queued" /\ Go(t, "out")
       \/ stage[t] \in {"trying", "polling", "leaving"} /\ Go(t, "cleaning")
    /\ UNCHANGED <<held, file, thread>>

\* As CleanUp, but the lock object is released whatever the thread found.
CleanUpReleasing(t) ==
    /\ stage[t] = "cleaning"
    /\ \/ thread[t] \in {"took", "missed"} /\ Run(t, "releasing") /\ UNCHANGED <<held, stage>>
       \/ thread[t] \in {"idle", "error", "released"} /\ Done(t)
    /\ UNCHANGED file

\* _finish_cancelled_acquire and _finish_cancelled_release: a lock the thread
\* took is released by another thread, then the process lock is given back; a
\* failed release keeps it.
CleanUp(t) ==
    /\ stage[t] = "cleaning"
    /\ \/ thread[t] = "took" /\ Run(t, "releasing") /\ UNCHANGED <<held, stage>>
       \/ thread[t] \in {"idle", "missed", "error", "released"} /\ Done(t)
       \/ thread[t] = "failed" /\ Go(t, "stuck") /\ UNCHANGED <<held, thread>>
    /\ UNCHANGED file

-----------------------------------------------------------------------------
(* __aexit__ and local. *)

Leave(t) ==
    /\ stage[t] = "inside"
    /\ Go(t, "leaving")
    /\ Run(t, "releasing")
    /\ UNCHANGED <<held, file>>

Left(t) ==
    /\ stage[t] = "leaving"
    /\ \/ thread[t] = "released" /\ Done(t)
       \/ thread[t] = "failed" /\ Go(t, "stuck") /\ UNCHANGED <<held, thread>>
    /\ UNCHANGED file

\* A section that needs the process lock only.
EnterLocal(t) ==
    /\ stage[t] = "out"
    /\ Go(t, "local queued")
    /\ UNCHANGED <<held, file, thread>>

TakeLocal(t) ==
    /\ stage[t] = "local queued" /\ held[ProcessOf[t]] = NoTask
    /\ held' = [held EXCEPT ![ProcessOf[t]] = t]
    /\ Go(t, "local")
    /\ UNCHANGED <<file, thread>>

LeaveLocal(t) ==
    /\ stage[t] = "local"
    /\ Done(t)
    /\ UNCHANGED file

\* A process dies; the system frees its file lock.
Crash(p) ==
    LET dead == {t \in Tasks : ProcessOf[t] = p}
    IN /\ \E t \in dead : stage[t] # "out"
       /\ held' = [held EXCEPT ![p] = NoTask]
       /\ file' = IF file \in dead THEN NoTask ELSE file
       /\ stage' = [t \in Tasks |-> IF t \in dead THEN "out" ELSE stage[t]]
       /\ thread' = [t \in Tasks |-> IF t \in dead THEN "idle" ELSE thread[t]]

\* Whatever runs by itself once it is started.
Proceed(t) ==
    TryAcquire(t) \/ ReleaseFile(t) \/ Answer(t) \/ Poll(t) \/ CleanUp(t) \/ Left(t)

Next ==
    \/ \E t \in Tasks :
          \/ Proceed(t) \/ Enter(t) \/ TakeProcess(t) \/ Cancel(t) \/ Leave(t)
          \/ EnterLocal(t) \/ TakeLocal(t) \/ LeaveLocal(t)
    \/ \E p \in Hosts : Crash(p)

Spec == Init /\ [][Next]_vars

\* Threads end and ready tasks run.
Fairness == \A t \in Tasks : WF_vars(Proceed(t))

-----------------------------------------------------------------------------
(* Properties. *)

\* Every variable has its type, and a task beyond the queue has the keyed lock.
TypeOK ==
    /\ held \in [Hosts -> Tasks \cup {NoTask}]
    /\ file \in Tasks \cup {NoTask}
    /\ stage \in [Tasks -> Stage]
    /\ thread \in [Tasks -> Thread]
    /\ \A t \in Tasks : stage[t] \notin {"out", "queued", "local queued"} <=> HasProcess(t)

\* However cancellations, late threads, failing releases and crashes mix, one
\* task in all processes is inside, and it has the file lock.
SoleMutator == \A t \in Tasks : stage[t] = "inside" => file = t

\* The file lock never outlives the process lock of its task, so that no other
\* task of the process polls against a thread of its own process.
FileInsideProcess == \A t \in Tasks : file = t => HasProcess(t)

\* One mutator at a time, with both locks, and no lock that nobody accounts for.
MutationInv == TypeOK /\ SoleMutator /\ FileInsideProcess

\* A cancelled task gives back everything it took or may still take; only a
\* failing release keeps its locks.
CancelledGivesBack ==
    \A t \in Tasks \ FailingReleases : stage[t] = "cleaning" ~> ~HasProcess(t) /\ file # t

=============================================================================
