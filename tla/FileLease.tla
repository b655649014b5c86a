------------------------------ MODULE FileLease ------------------------------
(***************************************************************************)
(* FilesystemLeaseCoordinator (storage/_lock.py) for one key shared by     *)
(* several processes.  A process serialises its tasks with a keyed lock    *)
(* (module KeyedLock, of which this module uses the promise of Mutex);     *)
(* processes exclude each other with a lease file whose fence comes from a *)
(* fence file.  File work runs in threads that cancellation cannot stop:   *)
(* it goes on and a detached task cleans up.                               *)
(*                                                                         *)
(* What a thread does under the guard file lock is one step; a process may *)
(* die in the middle of it.  A lease is identified by its fence (the token *)
(* is drawn with it), its deadline is the number of ticks it has left.     *)
(***************************************************************************)
EXTENDS Integers, FiniteSets

CONSTANTS
    Tasks,        \* asyncio tasks
    Processes,
    ProcessOf,    \* task -> its process
    NoTask,
    LeaseSeconds, \* ticks a lease lasts
    MaxFence      \* bound: fences issued

ASSUME ProcessesAssumption ==
    ProcessOf \in [Tasks -> Processes] /\ NoTask \notin Tasks
ASSUME BoundsAssumption == LeaseSeconds \in Nat \ {0} /\ MaxFence \in Nat

VARIABLES
    file,      \* the lease file: kind "none", "lease" or "torn", fence, ttl
    fence,     \* the fence file
    holder,    \* process -> the task that owns its keyed lock
    active,    \* process -> fence of its _active lease, 0 if none
    stage,     \* task -> how far its acquire or release is
    lease,     \* task -> fence of the lease it got, 0 if none
    detached,  \* tasks whose caller has gone and whose cleanup runs detached
    renewal    \* task -> the renewal in progress: its phase and its fence

vars == <<file, fence, holder, active, stage, lease, detached, renewal>>

NoFile == [kind |-> "none", fence |-> 0, ttl |-> 0]
Torn == [kind |-> "torn", fence |-> 0, ttl |-> 0]
NoRenewal == [phase |-> "none", fence |-> 0]

\* A record written now.
LeaseFile(f) == [kind |-> "lease", fence |-> f, ttl |-> LeaseSeconds]

Live == file.kind = "lease" /\ file.ttl > 0
Free == file.kind = "none" \/ (file.kind = "lease" /\ file.ttl = 0)

Init ==
    /\ file = NoFile
    /\ fence = 0
    /\ holder = [p \in Processes |-> NoTask]
    /\ active = [p \in Processes |-> 0]
    /\ stage = [t \in Tasks |-> "idle"]
    /\ lease = [t \in Tasks |-> 0]
    /\ detached = {}
    /\ renewal = [t \in Tasks |-> NoRenewal]

Goto(t, s) == stage' = [stage EXCEPT ![t] = s]

-----------------------------------------------------------------------------
(* The keyed lock of the process.                                          *)

\* The task waits for the keyed lock; its owner is refused as recursive.
Wait(t) ==
    /\ stage[t] = "idle"
    /\ holder[ProcessOf[t]] # t
    /\ Goto(t, "waiting")
    /\ UNCHANGED <<file, fence, holder, active, lease, detached, renewal>>

\* The time-out of acquire, or cancellation, ends the wait.
GiveUpWaiting(t) ==
    /\ stage[t] = "waiting"
    /\ Goto(t, "idle")
    /\ UNCHANGED <<file, fence, holder, active, lease, detached, renewal>>

\* The keyed lock is granted and the first attempt starts in a thread.
StartAttempt(t) ==
    /\ stage[t] = "waiting"
    /\ holder[ProcessOf[t]] = NoTask
    /\ holder' = [holder EXCEPT ![ProcessOf[t]] = t]
    /\ Goto(t, "attempting")
    /\ UNCHANGED <<file, fence, active, lease, detached, renewal>>

\* _release_owned and the end of the operation, whoever carries it out.
ReleaseOwned(t) ==
    /\ holder' = [holder EXCEPT ![ProcessOf[t]] = NoTask]
    /\ lease' = [lease EXCEPT ![t] = 0]
    /\ detached' = detached \ {t}
    /\ Goto(t, "idle")

-----------------------------------------------------------------------------
(* _try_acquire, in its thread.                                            *)

\* Nothing is acquired: the lease of somebody else is live, or time is up.
AttemptNothing(t) ==
    /\ stage[t] = "attempting"
    /\ Goto(t, "attempted")
    /\ lease' = [lease EXCEPT ![t] = 0]
    /\ UNCHANGED <<file, fence, holder, active, detached, renewal>>

\* As AttemptGranted, but the lease file is overwritten while it is live.
AttemptTaken(t) ==
    /\ stage[t] = "attempting"
    /\ file.kind # "torn"
    /\ fence < MaxFence
    /\ fence' = fence + 1
    /\ file' = LeaseFile(fence + 1)
    /\ lease' = [lease EXCEPT ![t] = fence + 1]
    /\ Goto(t, "attempted")
    /\ UNCHANGED <<holder, active, detached, renewal>>

\* The expired file is replaced by one with the next fence.
AttemptGranted(t) ==
    /\ stage[t] = "attempting"
    /\ Free
    /\ fence < MaxFence
    /\ fence' = fence + 1
    /\ file' = LeaseFile(fence + 1)
    /\ lease' = [lease EXCEPT ![t] = fence + 1]
    /\ Goto(t, "attempted")
    /\ UNCHANGED <<holder, active, detached, renewal>>

\* The fence is issued but time is up, or the lease file cannot be written.
AttemptTooLate(t) ==
    /\ stage[t] = "attempting"
    /\ Free
    /\ fence < MaxFence
    /\ fence' = fence + 1
    /\ file' = NoFile
    /\ \E s \in {"attempted", "errored"} : Goto(t, s)
    /\ lease' = [lease EXCEPT ![t] = 0]
    /\ UNCHANGED <<holder, active, detached, renewal>>

\* Reading raises: a torn record, or an input/output error.
AttemptFails(t) ==
    /\ stage[t] = "attempting"
    /\ Goto(t, "errored")
    /\ \/ UNCHANGED file
       \/ Free /\ file' = NoFile
    /\ UNCHANGED <<fence, holder, active, lease, detached, renewal>>

\* The caller adopts the lease its attempt has got.
Adopt(t) ==
    /\ stage[t] = "attempted"
    /\ t \notin detached
    /\ lease[t] # 0
    /\ active' = [active EXCEPT ![ProcessOf[t]] = lease[t]]
    /\ Goto(t, "holding")
    /\ UNCHANGED <<file, fence, holder, lease, detached, renewal>>

\* The caller sleeps and tries again.
PollAgain(t) ==
    /\ stage[t] = "attempted"
    /\ t \notin detached
    /\ lease[t] = 0
    /\ Goto(t, "attempting")
    /\ UNCHANGED <<file, fence, holder, active, lease, detached, renewal>>

\* The attempt has raised, or time is up or the caller is cancelled between
\* two attempts: acquire raises.
GiveUp(t) ==
    /\ t \notin detached
    /\ stage[t] = "errored" \/ (stage[t] = "attempted" /\ lease[t] = 0)
    /\ ReleaseOwned(t)
    /\ UNCHANGED <<file, fence, active, renewal>>

\* The caller is cancelled, or runs out of time, while its attempt runs.
Abandon(t) ==
    /\ stage[t] \in {"attempting", "attempted", "errored"}
    /\ t \notin detached
    /\ detached' = detached \cup {t}
    /\ UNCHANGED <<file, fence, holder, active, stage, lease, renewal>>

\* _finish_abandoned_attempt has awaited the attempt; a lease it got late is
\* released in a thread.
FinishAbandoned(t) ==
    /\ t \in detached
    /\ stage[t] = "attempted"
    /\ lease[t] # 0
    /\ Goto(t, "releasing")
    /\ UNCHANGED <<file, fence, holder, active, lease, detached, renewal>>

\* The abandoned attempt got nothing or raised.
DropAbandoned(t) ==
    /\ t \in detached
    /\ stage[t] = "errored" \/ (stage[t] = "attempted" /\ lease[t] = 0)
    /\ ReleaseOwned(t)
    /\ UNCHANGED <<file, fence, active, renewal>>

-----------------------------------------------------------------------------
(* renew, which another task may call while the holder goes on.            *)

BeginRenew(t) ==
    /\ stage[t] = "holding"
    /\ renewal[t].phase = "none"
    /\ active[ProcessOf[t]] = lease[t]
    /\ renewal' = [renewal EXCEPT ![t] = [phase |-> "renewing", fence |-> lease[t]]]
    /\ UNCHANGED <<file, fence, holder, active, stage, lease, detached>>

\* As OnDisk, but token and fence are not compared.
OnDiskUnfenced(f) == file.kind = "lease"

\* Whether the record on disk is the lease with fence f.
OnDisk(f) == file.kind = "lease" /\ file.fence = f

\* _renew, in its thread: the deadline moves, the lease is found lost, or the
\* thread raises.
Renew(t) ==
    /\ renewal[t].phase = "renewing"
    /\ \/ /\ OnDisk(renewal[t].fence)
          /\ file' = LeaseFile(renewal[t].fence)
          /\ renewal' = [renewal EXCEPT ![t] = NoRenewal]
       \/ /\ ~OnDisk(renewal[t].fence)
          /\ file.kind # "torn"
          /\ renewal' = [renewal EXCEPT ![t].phase = "lost"]
          /\ UNCHANGED file
       \/ renewal' = [renewal EXCEPT ![t] = NoRenewal] /\ UNCHANGED file
    /\ UNCHANGED <<fence, holder, active, stage, lease, detached>>

\* A lost lease leaves the process, unless it has been released meanwhile.  The
\* holder is not told.
EndLostRenewal(t) ==
    /\ renewal[t].phase = "lost"
    /\ renewal' = [renewal EXCEPT ![t] = NoRenewal]
    /\ IF active[ProcessOf[t]] = renewal[t].fence
       THEN /\ active' = [active EXCEPT ![ProcessOf[t]] = 0]
            /\ holder' = [holder EXCEPT ![ProcessOf[t]] = NoTask]
       ELSE UNCHANGED <<active, holder>>
    /\ UNCHANGED <<file, fence, stage, lease, detached>>

-----------------------------------------------------------------------------
(* release.                                                                *)

\* The lease has left the process: release returns at once.
ReleaseLost(t) ==
    /\ stage[t] = "holding"
    /\ active[ProcessOf[t]] # lease[t]
    /\ lease' = [lease EXCEPT ![t] = 0]
    /\ Goto(t, "idle")
    /\ UNCHANGED <<file, fence, holder, active, detached, renewal>>

BeginRelease(t) ==
    /\ stage[t] = "holding"
    /\ active[ProcessOf[t]] = lease[t]
    /\ active' = [active EXCEPT ![ProcessOf[t]] = 0]
    /\ Goto(t, "releasing")
    /\ UNCHANGED <<file, fence, holder, lease, detached, renewal>>

\* _release, in its thread: it unlinks this very lease, or raises.
Unlink(t) ==
    /\ stage[t] = "releasing"
    /\ file' = IF OnDisk(lease[t]) THEN NoFile ELSE file
    /\ Goto(t, "released")
    /\ UNCHANGED <<fence, holder, active, lease, detached, renewal>>

UnlinkFails(t) ==
    /\ stage[t] = "releasing"
    /\ Goto(t, "released")
    /\ UNCHANGED <<file, fence, holder, active, lease, detached, renewal>>

\* The caller of release is cancelled; _finish_cancelled_release takes over.
AbandonRelease(t) ==
    /\ stage[t] \in {"releasing", "released"}
    /\ t \notin detached
    /\ detached' = detached \cup {t}
    /\ UNCHANGED <<file, fence, holder, active, stage, lease, renewal>>

\* As EndRelease, but the detached cleanup forgets the keyed lock.
EndReleaseByCaller(t) ==
    /\ stage[t] = "released"
    /\ t \notin detached
    /\ ReleaseOwned(t)
    /\ UNCHANGED <<file, fence, active, renewal>>

\* The caller of release, or the detached cleanup, goes on.
EndRelease(t) ==
    /\ stage[t] = "released"
    /\ ReleaseOwned(t)
    /\ UNCHANGED <<file, fence, active, renewal>>

-----------------------------------------------------------------------------
\* A process dies and starts again with empty memory.  A thread in the middle
\* of an attempt has unlinked the expired file, issued a fence, or created the
\* file without its content.
Crash(p) ==
    /\ \E t \in Tasks : ProcessOf[t] = p /\ stage[t] # "idle"
    /\ \/ UNCHANGED <<file, fence>>
       \/ /\ \E t \in Tasks : ProcessOf[t] = p /\ stage[t] = "attempting"
          /\ Free
          /\ \/ file' = NoFile /\ UNCHANGED fence
             \/ fence < MaxFence /\ fence' = fence + 1 /\ file' \in {NoFile, Torn}
    /\ holder' = [holder EXCEPT ![p] = NoTask]
    /\ active' = [active EXCEPT ![p] = 0]
    /\ stage' = [t \in Tasks |-> IF ProcessOf[t] = p THEN "idle" ELSE stage[t]]
    /\ lease' = [t \in Tasks |-> IF ProcessOf[t] = p THEN 0 ELSE lease[t]]
    /\ renewal' = [t \in Tasks |-> IF ProcessOf[t] = p THEN NoRenewal ELSE renewal[t]]
    /\ detached' = {t \in detached : ProcessOf[t] # p}

Tick ==
    /\ file.ttl > 0
    /\ file' = [file EXCEPT !.ttl = @ - 1]
    /\ UNCHANGED <<fence, holder, active, stage, lease, detached, renewal>>

AttemptStep(t) ==
    AttemptNothing(t) \/ AttemptGranted(t) \/ AttemptTooLate(t) \/ AttemptFails(t)

CleanupStep(t) ==
    FinishAbandoned(t) \/ DropAbandoned(t) \/ Unlink(t) \/ UnlinkFails(t) \/ EndRelease(t)

CallerStep(t) ==
    \/ Wait(t) \/ GiveUpWaiting(t) \/ StartAttempt(t) \/ Adopt(t) \/ PollAgain(t)
    \/ GiveUp(t) \/ Abandon(t) \/ ReleaseLost(t) \/ BeginRelease(t) \/ AbandonRelease(t)

RenewalStep(t) ==
    BeginRenew(t) \/ Renew(t) \/ EndLostRenewal(t)

Next ==
    \/ \E t \in Tasks : CallerStep(t) \/ AttemptStep(t) \/ CleanupStep(t) \/ RenewalStep(t)
    \/ \E p \in Processes : Crash(p)
    \/ Tick

Spec == Init /\ [][Next]_vars

\* Threads finish and the event loop runs detached tasks.
Fairness == \A t \in Tasks : WF_vars(AttemptStep(t)) /\ WF_vars(CleanupStep(t))

-----------------------------------------------------------------------------
Stages == {"idle", "waiting", "attempting", "attempted", "errored", "holding",
           "releasing", "released"}

\* Values of the files and of the memory of the processes.
TypeOK ==
    /\ file \in [kind : {"none", "lease", "torn"}, fence : Nat, ttl : 0..LeaseSeconds]
    /\ fence \in Nat
    /\ holder \in [Processes -> Tasks \cup {NoTask}]
    /\ active \in [Processes -> Nat]
    /\ stage \in [Tasks -> Stages]
    /\ lease \in [Tasks -> Nat]
    /\ detached \subseteq Tasks
    /\ renewal \in [Tasks -> [phase : {"none", "renewing", "lost"}, fence : Nat]]

\* The file of a lease carries the newest fence: once a newer fence is issued,
\* no late renewal or release of an older holder brings an older lease back.
NewestOnDisk == file.kind = "lease" => file.fence = fence

Busy == {"attempting", "attempted", "errored", "releasing", "released"}

\* The keyed lock of a process is held exactly by a task in the middle of an
\* operation, detached or not, or by the holder of the _active lease: neither
\* cancellation nor a lost lease leaks it or gives it away twice.
ProcessLockAccounted ==
    \A t \in Tasks :
        holder[ProcessOf[t]] = t <=>
            \/ stage[t] \in Busy
            \/ stage[t] = "holding" /\ active[ProcessOf[t]] = lease[t]

\* The leases in the hands of different tasks are different, whatever has
\* expired, been replaced or been forgotten in a crash.
FencesDistinct ==
    \A t, u \in Tasks : t # u /\ lease[t] # 0 => lease[t] # lease[u]

\* The files and the memory of the processes agree on who holds what.
LeaseInv == TypeOK /\ NewestOnDisk /\ ProcessLockAccounted /\ FencesDistinct

\* The lease file and the fence file implement a fenced lease.
F == INSTANCE FencedLease WITH live <- Live
ImplementsFencedLease == F!Spec

\* The cleanup of a cancelled acquire or release ends, and the process can
\* lease the key again.
CleanupEnds == \A t \in Tasks : t \in detached ~> t \notin detached

=============================================================================
